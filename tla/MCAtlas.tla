------------------------------ MODULE MCAtlas ------------------------------
(* Every graph of few imports between four modules of two projects; one of *)
(* every manifest and overlay, whole or not; every order of two manifests  *)
(* that mention one package.                                               *)
EXTENDS Atlas

Plain == [A |-> "a"]
Dashes == "a_b" :> "a-b"
Standard == {"json"}
Extensions == <<"js", "ts">>
Extensible == {"js", "ts", "css"}

Empty == [config |-> "ok", projects |-> <<"p", "q">>,
          roots |-> <<<<"p">>, <<"q">>, <<"t">>>>, manifests |-> <<>>, sources |-> <<>>,
          files |-> {}, runtime |-> <<>>, sbom |-> <<>>, coverage |-> <<>>,
          codeowners |-> <<>>, history |-> None, licenseFiles |-> {},
          html |-> FALSE, rootless |-> FALSE]

(* Sources.                                                                *)
Source(p, root, path, language, refs) ==
    [project |-> p, path |-> path, root |-> root, test |-> FALSE,
     language |-> language, listed |-> TRUE, parses |-> TRUE, decl |-> <<>>,
     types |-> {}, refs |-> refs]
Import(name) == [kind |-> "import", name |-> name]
From(level, name, names) ==
    [kind |-> "from", level |-> level, name |-> name, names |-> names]
Load(name) == [kind |-> "dynamic", name |-> name]

Modules == <<<<"a">>, <<"b">>, <<"k", "c">>, <<"d">>>>
Root(i) == IF i = 4 THEN <<"q">> ELSE <<"p">>
Graph(arcs) ==
    [sources |-> [i \in 1 .. 4 |->
        Source(Root(i)[1], Root(i), Root(i) \o Append(Modules[i], "py"), "python",
               SetToSeq({Import(Modules[j]) : j \in {j \in 1 .. 4 : <<i, j>> \in arcs}}))]]
Pairs == {a \in (1 .. 4) \X (1 .. 4) : a[1] # a[2]}

JavaSource(path, decl, types, refs) ==
    [Source("p", <<"p">>, path, "java", refs) EXCEPT !.decl = decl, !.types = types]
Cs(path, decl, refs) == [Source("p", <<"p">>, path, "csharp", refs) EXCEPT !.decl = decl]
Polyglot == <<
    Source("p", <<"p">>, <<"p", "__init__", "py">>, "python", <<From(1, <<>>, {"m", "x"})>>),
    Source("p", <<"p">>, <<"p", "m", "py">>, "python",
           <<From(1, <<"n">>, {"f"}), From(0, <<"p">>, {"n"}), From(4, <<"y">>, {"g"}),
             Import(<<"json">>), Import(<<"zlib", "z">>), Load(<<>>)>>),
    [Source("p", <<"p">>, <<"p", "n", "py">>, "python", <<>>) EXCEPT !.parses = FALSE],
    JavaSource(<<"p", "U", "java">>, <<"u">>, {"U"},
         <<Import(<<"v", "V", "f">>), [kind |-> "wildcard", name |-> <<"v">>],
           Import(<<"w", "W">>)>>),
    JavaSource(<<"p", "V", "java">>, <<"v">>, {"V"}, <<>>),
    Cs(<<"p", "X", "cs">>, <<"x">>, <<Import(<<"x", "y">>), Import(<<"sys">>)>>),
    Cs(<<"p", "Z", "cs">>, <<>>, <<Import(<<"x">>)>>),
    Source("p", <<"p">>, <<"p", "main", "js">>, "javascript",
           <<Import(<<".", "lib">>), Import(<<"..", "..", "q">>), Import(<<"node:", "fs">>),
             Import(<<"a">>), Import(<<"r">>), Load(<<>>), Load(<<"a">>), Import(<<"#u">>),
             Import(<<".", "lib", "css">>)>>),
    Source("p", <<"p">>, <<"p", "lib", "index", "js">>, "javascript", <<Import(<<"@u">>)>>),
    Source("p", <<"p">>, <<"p", "view", "ts">>, "typescript", <<Import(<<"@u">>)>>),
    Source("q", <<"q">>, <<"q", "cmd", "main", "go">>, "go",
           <<Import(<<"mod", "pkg">>), Import(<<"g", "g">>), Import(<<"h">>)>>),
    Source("q", <<"q">>, <<"q", "pkg", "x", "go">>, "go", <<>>),
    [Source("q", <<"t">>, <<"t", "t", "py">>, "python", <<Import(<<"p", "m">>)>>)
        EXCEPT !.test = TRUE],
    [Source("q", <<"q">>, <<"q", "gen", "py">>, "python", <<>>) EXCEPT !.listed = FALSE]>>

(* Manifests.                                                              *)
Manifest(p, kind, file) ==
    [project |-> p, kind |-> kind, path |-> <<p, file, "x">>, state |-> "ok",
     notes |-> {}, deps |-> <<>>, table |-> TRUE, license |-> None,
     module |-> None, imports |-> <<>>, escapes |-> FALSE, flat |-> TRUE,
     entries |-> <<>>, roots |-> <<>>, direct |-> {}, expression |-> FALSE,
     packages |-> <<>>, references |-> <<>>]
Dep(n, v) == [name |-> n, version |-> v]
Deps == <<Dep(<<"A">>, "1"), Dep(None, None), Dep(<<"a_b">>, None)>>
Entry(path, n, v, deps) == [path |-> path, name |-> n, version |-> v, deps |-> deps]
Locked(n, v, type, deps) ==
    [tfm |-> "net8", name |-> n, version |-> v, type |-> type, deps |-> deps]
Ref(n, v, cond) == [name |-> n, version |-> v, conditional |-> cond]
To(target, expr, cond) == [target |-> target, expression |-> expr, conditional |-> cond]

Kinds == <<"pyproject.toml", "requirements.txt", "package.json", "package-lock.json",
           "tsconfig.json", "pom.xml", "csproj", "Directory.Packages.props",
           "global.json", "packages.lock.json", "project.assets.json", "sln",
           "go.mod", "build.gradle", "setup.cfg">>
Told(p, kind) ==
    LET lock == <<Entry(<<"node_modules", "a">>, None, "1", {"r"}),
                  Entry(<<"node_modules", "a", "node_modules", "r">>, <<"r">>, "1", {"a"}),
                  Entry(<<"node_modules", "r">>, None, "2", {}),
                  Entry(<<"packages", "w">>, None, "1", {})>>
        nuget == <<Locked(<<"A">>, "1", "direct", {<<"r">>}),
                   Locked(<<"r">>, "1", "transitive", {}),
                   Locked(<<"w">>, "1", "project", {})>>
    IN  CASE kind = "pyproject.toml" -> [deps |-> Deps, license |-> "MIT"]
          [] kind = "package.json" ->
                [deps |-> <<Dep(<<"a">>, "1"), Dep(<<"r">>, "2")>>,
                 notes |-> {<<"workspaces", "w">>, <<"nodeEngine", p>>},
                 imports |-> (<<"#u">> :> <<<<"p", "lib">>>>)]
          [] kind = "package-lock.json" ->
                [entries |-> lock, roots |-> <<"a", "z">>,
                 notes |-> {<<"npmLockfileVersion", "3">>}]
          [] kind = "tsconfig.json" ->
                [imports |-> (<<"@u">> :> <<None, <<"p", "none">>, <<"p", "main">>>>)]
          [] kind = "csproj" ->
                [expression |-> TRUE,
                 packages |-> <<Ref(<<"a">>, None, TRUE), Ref(None, None, FALSE)>>,
                 references |-> <<To(<<"q", "csproj", "x">>, FALSE, TRUE),
                                  To(None, TRUE, FALSE), To(None, FALSE, FALSE),
                                  To(<<"p", "csproj", "x">>, FALSE, FALSE)>>]
          [] kind \in {"packages.lock.json", "project.assets.json"} ->
                [entries |-> nuget, direct |-> {<<"a">>}]
          [] kind = "go.mod" ->
                [module |-> <<"mod">>, deps |-> <<Dep(<<"g", "g">>, "1")>>]
          [] kind = "global.json" -> [notes |-> {<<"dotnetSdkVersion", "8">>}]
          [] OTHER -> [deps |-> Deps]
Filled(p, kind) == Told(p, kind) @@ Manifest(p, kind, kind)
Two(m, n) == [manifests |-> <<m, n>>]
Degraded == {<<"package.json", [state |-> s]>> : s \in {"missing", "broken", "oversized"}}
       \cup {<<"pyproject.toml", [table |-> FALSE]>>, <<"tsconfig.json", [escapes |-> TRUE]>>,
             <<"package-lock.json", [flat |-> FALSE]>>, <<"go.mod", [module |-> None]>>,
             <<"pyproject.toml", [license |-> "GPL"]>>}
Worse(d) == Two(d[2] @@ Filled("p", d[1]), Filled("q", "pyproject.toml"))
Mixed(m) == Two(Filled("p", Kinds[m[1]]), Filled(m[2], Kinds[m[3]]))

(* Overlays.                                                               *)
Service == <<"runtime", "svc">>
Observed(state) ==
    [path |-> <<"runtime">>, state |-> state,
     nodes |-> <<[id |-> Service, type |-> "service", project |-> "p", blank |-> FALSE]>>,
     edges |-> <<[source |-> Service, target |-> <<"runtime", "db">>, kind |-> "reads",
                  blank |-> FALSE]>>]
Part(ref, eco, n, v, l) ==
    [ref |-> ref, eco |-> eco, name |-> n, version |-> v, licenses |-> l]
Bom(state) ==
    [path |-> <<"sbom">>, state |-> state,
     components |-> <<Part("1", "npm", <<"a">>, "1", {"MIT"}),
                      Part("2", "npm", <<"a">>, "2", {"GPL"}),
                      Part("3", None, <<"o">>, None, {}), Part("4", None, None, None, {})>>,
     links |-> <<<<"1", "3">>, <<"1", "9">>, <<"4", "1">>>>]
Report(state) ==
    [path |-> <<"coverage">>, state |-> state,
     classes |-> <<[file |-> <<"m", "py">>, rate |-> 50],
                   [file |-> <<"main", "js">>, rate |-> 10], [file |-> <<"py">>, rate |-> 1]>>]
Owners(state) ==
    [path |-> <<"CODEOWNERS">>, state |-> state, rules |->
        <<[kind |-> "segment", segments |-> {"py"}, owners |-> {"o1"}, escaped |-> FALSE],
          [kind |-> "directory", path |-> <<"p">>, owners |-> {"o2"}, escaped |-> FALSE],
          [kind |-> "path", path |-> <<"m", "py">>, owners |-> {"o3"}, escaped |-> FALSE],
          [kind |-> "path", path |-> <<"m">>, owners |-> {"o4"}, escaped |-> TRUE]>>]
Counted == [counts |-> (<<"p", "m", "py">> :> 3), reason |-> "none"]
States == {"ok", "missing", "broken", "foreign", "oversized"}

Everything ==
    [manifests |-> [k \in 1 .. 2 * Len(Kinds) |->
                       IF k <= Len(Kinds) THEN Filled("p", Kinds[k])
                       ELSE Filled("q", Kinds[k - Len(Kinds)])],
     sources |-> Polyglot, files |-> {r.path : r \in Range(Polyglot)},
     runtime |-> <<Observed("ok")>>, sbom |-> <<Bom("ok")>>,
     coverage |-> <<Report("ok")>>, codeowners |-> <<Owners("missing"), Owners("ok")>>,
     history |-> Counted, html |-> TRUE]
Whole == <<[html |-> TRUE], [html |-> FALSE], [rootless |-> TRUE],
           [history |-> [counts |-> None, reason |-> "overlay.git-failed"]]>>
Laid(l) ==
    CASE l[1] = "runtime" -> [runtime |-> <<Observed(l[2])>>, codeowners |-> <<Owners("ok")>>]
      [] l[1] = "sbom" -> [sbom |-> <<Bom(l[2])>>, codeowners |-> <<Owners("ok")>>]
      [] OTHER -> [coverage |-> <<Report(l[2])>>, codeowners |-> <<Owners("missing")>>]

(* Two files of one module name; references that abort the build: above    *)
(* the root, from "/", to the root itself, by a path or an alias, and to a *)
(* default package; an alias that is a file before it is the root.         *)
Twins ==
    <<Source("p", <<"p">>, <<"p", "m", "py">>, "python", <<Import(<<"zlib">>)>>),
      Source("q", <<"q">>, <<"q", "m", "py">>, "python", <<>>)>>
Above == <<Source("p", <<"p">>, <<"p", "m", "py">>, "python", <<From(1, <<>>, {"x"})>>)>>
ScriptOf(ref) == <<Source("p", <<"p">>, <<"p", "x", "js">>, "javascript", <<Import(ref)>>)>>
Aliases(paths) ==
    [manifests |-> <<[imports |-> (<<"@u">> :> paths)] @@ Manifest("p", "tsconfig.json", "t")>>,
     sources |-> <<Source("p", <<"p">>, <<"p", "x", "ts">>, "typescript", <<Import(<<"@u">>)>>)>>]
Unnamed == <<JavaSource(<<"p", "U", "java">>, <<>>, {"U"}, <<Import(<<"U">>), Import(<<"W">>)>>)>>
Blanks == <<[Observed("ok") EXCEPT !.nodes[1].blank = TRUE],
            [Observed("ok") EXCEPT !.edges[1].blank = TRUE]>>
Odd == <<[html |-> FALSE], [html |-> TRUE], [sources |-> Twins], [sources |-> Above],
         [config |-> "missing"], [projects |-> <<"p", "p">>],
         [roots |-> <<<<"p">>, <<"p", "t">>>>],
         [sources |-> ScriptOf(<<"", "x">>)], [sources |-> ScriptOf(<<"..">>)],
         [sources |-> Unnamed], Aliases(<<<<>>, <<"p", "x">>>>), Aliases(<<<<"p", "x">>, <<>>>>),
         [runtime |-> <<Blanks[1]>>], [runtime |-> <<Blanks[2]>>],
         [codeowners |-> <<Owners("missing"), Owners("oversized"), Owners("ok")>>],
         [manifests |-> <<[Manifest("p", "project.assets.json", "a")
                              EXCEPT !.state = "untyped"]>>]>>

(* Two cycles that share a module take five imports.                       *)
MaxArcs == 5
Names == {<<"whole", i>> : i \in DOMAIN Whole} \cup {<<"odd", i>> : i \in DOMAIN Odd}
    \cup {<<"degraded", d>> : d \in Degraded}
    \cup {<<"laid", l>> : l \in {"runtime", "sbom", "coverage"} \X States}
    \cup {<<"mixed", m>> : m \in (DOMAIN Kinds) \X {"p", "q"} \X (DOMAIN Kinds)}
    \cup {<<"graph", arcs>> : arcs \in {a \in SUBSET Pairs : Cardinality(a) <= MaxArcs}}
Trees == [n \in Names |->
    (CASE n[1] \in {"whole", "laid"} ->
            (IF n[1] = "whole" THEN Whole[n[2]] ELSE Laid(n[2])) @@ Everything
      [] n[1] = "odd" -> Odd[n[2]]
      [] n[1] = "degraded" -> Worse(n[2])
      [] n[1] = "mixed" -> Mixed(n[2])
      [] OTHER -> Graph(n[2])) @@ Empty]
Later == {<<"odd", 1>>, <<"odd", 2>>}
Notes == {"NOTES.md"}
=============================================================================
