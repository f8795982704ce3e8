----------------------------- MODULE AtlasGraph -----------------------------
(***************************************************************************)
(* The atlas graph: nodes, edges and unknowns under their keys, how two    *)
(* mentions of one of them merge, and the metrics taken of the graph.      *)
(*                                                                         *)
(* An identifier is a tuple: what the code joins with colons or hashes.    *)
(* Evidence is left out; annotations are notes, pairs of a key and a value. *)
(***************************************************************************)
EXTENDS Naturals, FiniteSets, FiniteSetsExt, Sequences, SequencesExt, TLC

CONSTANT None

(* The elements of a sequence that are in a set, in order.                 *)
Only(seq, S) == FoldLeft(LAMBDA d, x : IF x \in S THEN Append(d, x) ELSE d, <<>>, seq)
(* A function with one value put in, over the one it has there.            *)
Put(f, x, v) == [y \in {x} \cup DOMAIN f |-> IF y = x THEN v ELSE f[y]]

Blank == [type |-> "package", project |-> None, group |-> None, path |-> None,
          version |-> None, licenses |-> {}, owners |-> {}, notes |-> {},
          coverage |-> None, changes |-> None]
EmptyGraph == [nodes |-> <<>>, edges |-> <<>>, unknowns |-> {}]

(* The first mention names and places a node; sets and the notes that are  *)
(* lists grow, other notes are replaced, and a later mention only fills in *)
(* a version, a coverage or a count still missing.                         *)
ListNotes == {"declaredBy", "declaredVersions", "resolvedBy", "resolvedVersions",
              "targetFrameworks", "importedBy", "workspaces"}
MergeNotes(old, new) ==
    new \cup {o \in old : o[1] \in ListNotes \/ \A n \in new : n[1] # o[1]}
Fill(old, new) == IF old = None THEN new ELSE old
MergeNodes(old, new) ==
    [old EXCEPT !.licenses = @ \cup new.licenses, !.owners = @ \cup new.owners,
                !.notes = MergeNotes(@, new.notes),
                !.version = Fill(@, new.version),
                !.coverage = Fill(@, new.coverage),
                !.changes = Fill(@, new.changes)]

AddNode(g, id, n) ==
    [g EXCEPT !.nodes =
        Put(@, id, IF id \in DOMAIN @ THEN MergeNodes(@[id], n) ELSE n)]

Key(source, target, kind, scope, resolver) ==
    [source |-> source, target |-> target, kind |-> kind, scope |-> scope,
     resolver |-> resolver]
(* Edges map their key to whether the edge is unresolved.                  *)
AddEdge(g, key, unresolved) ==
    [g EXCEPT !.edges = Put(@, key, unresolved \/ (key \in DOMAIN @ /\ @[key]))]

AddUnknown(g, code, project, path) ==
    [g EXCEPT !.unknowns = @ \cup {[code |-> code, project |-> project,
                                    path |-> path]}]

(* What AtlasSnapshot refuses to be built from.                            *)
Integrity(g) == \A k \in DOMAIN g.edges : {k.source, k.target} \subseteq DOMAIN g.nodes

-----------------------------------------------------------------------------
(* coupling_and_cycles: the resolved edges of the production sources, seen *)
(* between modules or between groups.                                      *)
Granularity == {"module", "group"}
MetricNode(g, id, by) ==
    IF by = "module" THEN id
    ELSE LET n == g.nodes[id]
         IN  <<"group", n.project, IF n.group = None THEN id ELSE n.group>>
Selected(g) ==
    {k \in DOMAIN g.edges : k.scope = "source" /\ ~g.edges[k]
                              /\ {k.source, k.target} \subseteq DOMAIN g.nodes}
MetricNodes(g, by) ==
    UNION {{MetricNode(g, k.source, by), MetricNode(g, k.target, by)} :
               k \in Selected(g)}
Arcs(g, by) ==
    {a \in {<<MetricNode(g, k.source, by), MetricNode(g, k.target, by)>> :
                k \in Selected(g)} : a[1] # a[2]}

Afferent(arcs, n) == {a[1] : a \in {a \in arcs : a[2] = n}}
Efferent(arcs, n) == {a[2] : a \in {a \in arcs : a[1] = n}}
Coupling(g, by) ==
    LET arcs == Arcs(g, by)
    IN  {[node |-> n, by |-> by, ca |-> Cardinality(Afferent(arcs, n)),
          ce |-> Cardinality(Efferent(arcs, n))] :
            n \in {a[1] : a \in arcs} \cup {a[2] : a \in arcs}}

(* Tarjan's search over the nodes N.  s is its state: the stack, the nodes *)
(* in order of discovery, the low links (of the nodes discovered) and the  *)
(* components of more than one node.                                       *)
Visited(s) == Range(s.order)
Search(N) ==
    {s \in [stack : Seq(N), order : Seq(N), low : [N -> Nat],
            components : SUBSET SUBSET N] :
        IsInjective(s.stack) /\ IsInjective(s.order) /\ Range(s.stack) \subseteq Visited(s)}
(* A node not visited yet, and the state its search begins in.             *)
Calls(N) == {x \in Search(N) \X N : x[2] \notin Visited(x[1])}
Unvisited(N) == [stack |-> <<>>, order |-> <<>>, low |-> [n \in N |-> 0],
                 components |-> {}]
Index(s, v) == CHOOSE i \in DOMAIN s.order : s.order[i] = v

Enter(s, v) ==
    [s EXCEPT !.stack = Append(@, v), !.order = Append(@, v),
              !.low[v] = Len(s.order) + 1]
LowerLink(s, v, i) == [s EXCEPT !.low[v] = IF i < @ THEN i ELSE @]

(* A node whose low link is its own index pops its component.              *)
Leave(s, v) ==
    IF s.low[v] # Index(s, v) THEN s
    ELSE LET at == CHOOSE k \in DOMAIN s.stack : s.stack[k] = v
             component == {s.stack[k] : k \in at .. Len(s.stack)}
         IN  [s EXCEPT !.stack = SubSeq(@, 1, at - 1),
                       !.components = @ \cup {c \in {component} :
                                                 Cardinality(c) > 1}]

(* Mutant of BackEdge: a link into a finished component counts.            *)
LinkBack(s, v, w) == LowerLink(s, v, Index(s, w))
BackEdge(s, v, w) ==
    IF w \in Range(s.stack) THEN LowerLink(s, v, Index(s, w)) ELSE s

(* What an edge from v to w does, and all the edges of v.                  *)
Follow(visit, v, w, t) ==
    IF w \in Visited(t) THEN BackEdge(t, v, w)
    ELSE LET u == visit[<<t, w>>] IN LowerLink(u, v, u.low[w])
Explore(visit, arcs, s, v) ==
    Leave(FoldSet(LAMBDA w, t : Follow(visit, v, w, t), Enter(s, v), Efferent(arcs, v)), v)
(* The recursion goes as deep as the graph; Python's has a limit.          *)
Visit(arcs, N) ==
    LET visit[x \in Calls(N)] == Explore(visit, arcs, x[1], x[2])
    IN  visit
Restart(visit, v, s) == IF v \in Visited(s) THEN s ELSE visit[<<s, v>>]
Cycles(g, by) ==
    LET nodes == MetricNodes(g, by)
        visit == Visit(Arcs(g, by), nodes)
    IN  FoldSet(LAMBDA v, s : Restart(visit, v, s), Unvisited(nodes), nodes).components
=============================================================================
