------------------------------- MODULE Estate -------------------------------
(***************************************************************************)
(* sre-kb estate: the facts of several repositories joined into one        *)
(* topology, the blast radius of what they share, and the questions the    *)
(* join will not guess at.                                                 *)
(*                                                                         *)
(* A world gives each repository its facts.  Names keep two things apart:  *)
(* their spelling and the slug it is compared by.  A host is what url_host *)
(* makes of a route or a base URL; a path is its segments.                 *)
(***************************************************************************)
EXTENDS TrustGate, FiniteSets, Sequences, SequencesExt

CONSTANTS
    Name, Slug,             \* Slug[n] is the slug of the name n
    Host, NoHost, Label,    \* Label[h] is the slug of the first label of h
    IP,                     \* the hosts that are IP literals
    ResourceType,           \* what the signatures make of a binding's name
    None,
    World, Targets(_),      \* the worlds, and the target lists of each
    Confident,              \* 0.8 reaches gating.verified_min_confidence
    MaxRuns                 \* bound: commands under the one run id

Flow == [name : Name, sinks : SUBSET [target : Name, type : {"db", "kafka"}]]

FactsShape(f) ==
    /\ f.app \in Name \cup {None} /\ f.dir \in Name /\ f.qualified \in Name
    /\ f.routes \subseteq Host
    /\ f.bindings \subseteq Name
    /\ f.clients \subseteq [key : Name, host : Host \cup {NoHost}]
    /\ f.publishes \subseteq Name /\ f.consumes \subseteq Name
    /\ DOMAIN f.libs \subseteq Name     \* the allowlisted ones, with versions
    /\ f.flows \subseteq Flow
    /\ f.frontend \in BOOLEAN /\ f.spec \in BOOLEAN
    /\ f.space \in Name \cup {None}
    \* f.breaking: paths of breaking contract changes; f.egress: URL literals

ASSUME EstateAssumption ==
    /\ Slug \in [Name -> Name] /\ Label \in [Host -> Name]
    /\ IP \subseteq Host /\ NoHost \notin Host /\ None \notin Name
    /\ ResourceType \in [Name -> {"datastore", "broker", "resource"}]
    /\ \A w \in World : /\ \A r \in DOMAIN w : FactsShape(w[r])
                        /\ \A t \in Targets(w) : t \in Seq(DOMAIN w)
    /\ Confident \in BOOLEAN /\ MaxRuns \in Nat

VARIABLES
    world, targets,   \* the repositories and the command line
    pc, runs,
    services,         \* scanned so far: a name and the repository it is of
    drawn,            \* how many of them build_estate has drawn
    graph,            \* nodes, edges, and the owners of every resource
    mirror,           \* history: the graph drawn from the other end
    moved,            \* repositories whose cited bytes changed since the scan
    written,          \* documents written by this command
    kb, questions, report   \* on disk

vars == <<world, targets, pc, runs, services, drawn, graph, mirror, moved,
          written, kb, questions, report>>

-----------------------------------------------------------------------------
(* The joins.  i and j are positions in services.                          *)
Facts(i) == world[services[i].repo]
NameOf(i) == services[i].name
Scanned == {NameOf(i) : i \in DOMAIN services}

(* A dictionary over the services: of several with one key the last wins.  *)
NamedAs(n) == {i \in DOMAIN services : NameOf(i) = n}
FactsNamed(n) == Facts(Max(NamedAs(n)))
NameOfLast(S) == IF S = {} THEN None ELSE NameOf(Max(S))

(* route_owners: a hostname and the scanned service that declares it.      *)
Declaring(h) == {i \in DOMAIN services : h \in Facts(i).routes}
(* Mutant of RouteOwner: only the services drawn so far are known.         *)
RouteOwnerSoFar(h) == NameOfLast(Declaring(h) \cap 1 .. drawn + 1)
RouteOwner(h) == NameOfLast(Declaring(h))

(* A client resolves to another service by the host of its base URL.       *)
Resolves(i, c) == RouteOwner(c.host) \notin {None, NameOf(i)}

(* A client whose key reads like a scanned service.                        *)
Lookalike(c) == Slug[c.key] \in {Slug[n] : n \in Scanned}
External(i) == {c.key : c \in {c \in Facts(i).clients :
                                   ~Resolves(i, c) /\ ~Lookalike(c)}}

Edge(from, to, relation, contract) ==
    [from |-> from, to |-> to, relation |-> relation, contract |-> contract]
HasContract(n) == FactsNamed(n).spec
EdgesOf(i) ==
    LET f == Facts(i)  me == NameOf(i)
    IN  {Edge(me, r, "binds", FALSE) : r \in f.bindings}
        \cup {Edge(me, RouteOwner(c.host), "calls",
                   HasContract(RouteOwner(c.host))) :
                  c \in {c \in f.clients : Resolves(i, c)}}
        \cup {Edge(me, x, "calls", FALSE) : x \in External(i)}
        \cup {Edge(me, t, "publishes", FALSE) : t \in f.publishes}
        \cup {Edge(t, me, "consumes", FALSE) : t \in f.consumes}
        \cup {Edge(me, l, "uses-library", FALSE) : l \in DOMAIN f.libs}

(* A service and a binding set the type of their node; a client, a channel *)
(* and a library only name one that has none yet.                          *)
NodesAfter(nodes, i) ==
    LET f == Facts(i)
        topics == f.publishes \cup f.consumes
    IN  [n \in {NameOf(i)} \cup DOMAIN nodes \cup f.bindings \cup External(i)
                   \cup topics \cup DOMAIN f.libs |->
            CASE n \in f.bindings -> ResourceType[n]
              [] n \notin f.bindings /\ n = NameOf(i) ->
                     IF f.frontend THEN "frontend" ELSE "service"
              [] OTHER ->
            IF n \in DOMAIN nodes THEN nodes[n]
            ELSE IF n \in External(i) THEN "external"
            ELSE IF n \in topics THEN "topic" ELSE "library"]

Empty == [nodes |-> <<>>, edges |-> {}, owners |-> {}]
Draw(g, i) ==
    [nodes |-> NodesAfter(g.nodes, i),
     edges |-> g.edges \cup EdgesOf(i),
     owners |-> g.owners \cup {<<r, NameOf(i)>> : r \in Facts(i).bindings}]

(* ambiguous_call_edges: the service an unresolved client may mean.  The   *)
(* host's first label is looked up before the key; what it finds decides,  *)
(* also when it finds the caller itself.                                   *)
BySlug(s) == NameOfLast({i \in DOMAIN services : Slug[NameOf(i)] = s})
(* Mutant of Candidate: only the host is looked up.                        *)
CandidateByHost(i, c) ==
    IF BySlug(Label[c.host]) = NameOf(i) THEN None ELSE BySlug(Label[c.host])
Candidate(i, c) ==
    LET n == IF BySlug(Label[c.host]) # None THEN BySlug(Label[c.host])
             ELSE BySlug(Slug[c.key])
    IN  IF n = NameOf(i) THEN None ELSE n
Ambiguous(i, c) ==
    /\ c.host # NoHost /\ RouteOwner(c.host) = None
    /\ c.host \in IP \/ Candidate(i, c) # None
Questions ==
    {[from |-> NameOf(p[1]), client |-> p[2].key,
      candidate |-> IF p[2].host \in IP THEN None ELSE Candidate(p[1], p[2])] :
        p \in {q \in UNION {{i} \X Facts(i).clients : i \in DOMAIN services} :
                   Ambiguous(q[1], q[2])}}

-----------------------------------------------------------------------------
(* What is concluded from the finished graph.                              *)
Calls == {<<e.from, e.to>> : e \in {e \in graph.edges :
             e.relation = "calls" /\ {e.from, e.to} \subseteq Scanned}}
Owners(r) == {o[2] : o \in {o \in graph.owners : o[1] = r}}
Shared == {r \in {o[1] : o \in graph.owners} : Cardinality(Owners(r)) > 1}

(* Mutant of Callers: the walk follows the calls instead of going against  *)
(* them.                                                                   *)
Callees(direct) ==
    LET hop(S) == S \cup {a \in Scanned : \E b \in S : <<b, a>> \in Calls}
    IN  hop(hop(hop(direct))) \ direct
(* Who degrades with the services in direct: TRANSITIVE_DEPTH, three hops  *)
(* of callers.                                                             *)
Callers(direct) ==
    LET hop(S) == S \cup {a \in Scanned : \E b \in S : <<a, b>> \in Calls}
    IN  hop(hop(hop(direct))) \ direct

(* A flow is hit by name, or because a sink of its kind can only go to the *)
(* one resource of that kind its service binds.                            *)
SinkType(t) == CASE t = "datastore" -> "db" [] t = "broker" -> "kafka"
                 [] OTHER -> None
ImpactedFlows(r) ==
    LET kind == graph.nodes[r]
        SoleOfType(f) == /\ kind \in {"datastore", "broker"}
                         /\ Cardinality({b \in f.bindings :
                                             ResourceType[b] = kind}) = 1
    IN  UNION {{<<o, ff.name>> : ff \in {ff \in FactsNamed(o).flows :
                   \E k \in ff.sinks :
                       \/ Slug[k.target] = Slug[r]
                       \/ SoleOfType(FactsNamed(o)) /\ k.type = SinkType(kind)}} :
               o \in Owners(r)}

BlastRadius(r) ==
    [kind |-> "BlastRadius", of |-> r, name |-> Slug[r],
     impacted |-> Owners(r) \cup Callers(Owners(r)),
     indirect |-> Callers(Owners(r)),
     flows |-> ImpactedFlows(r), dataLoss |-> graph.nodes[r] = "datastore"]
Spaces == {[space |-> p, services |-> {NameOf(i) : i \in
                {i \in DOMAIN services : Facts(i).space = p}}] :
              p \in {Facts(i).space : i \in DOMAIN services} \ {None}}
Topology == [kind |-> "Topology", of |-> None, name |-> "estate",
             nodes |-> graph.nodes, edges |-> graph.edges, spaces |-> Spaces]

(* Evidence of the topology: every manifest and every space snapshot; of a *)
(* blast radius: the binding of each owner.                                *)
Cited(d) ==
    IF d.kind = "Topology"
    THEN {services[i].repo : i \in {i \in DOMAIN services :
             Facts(i).app # None \/ Facts(i).space # None}}
    ELSE {services[Max({i \in NamedAs(n) : d.of \in Facts(i).bindings})].repo :
              n \in Owners(d.of)}
StatusOf(d) ==
    FinalStatus([preset |-> "verified", tier |-> "ast", structural |-> TRUE,
                 evidence |-> Cited(d) # {},
                 provenance |-> Cited(d) \cap moved = {},
                 crossref |-> TRUE, confident |-> Confident, clean |-> TRUE])

Skew ==
    LET Uses(i, l) == l \in DOMAIN Facts(i).libs
        users(l) == {NameOf(i) : i \in {i \in DOMAIN services : Uses(i, l)}}
        pin(n, l) == Facts(Max({i \in NamedAs(n) : Uses(i, l)})).libs[l]
    IN  {l \in UNION {DOMAIN Facts(i).libs : i \in DOMAIN services} :
            /\ Cardinality(users(l)) > 1
            /\ Cardinality({pin(n, l) : n \in users(l)} \ {None}) > 1}

(* A changed path and a URL literal: segment by segment, where "{}" covers *)
(* any one segment and an open literal lacks a final "{}".                 *)
PathHits(changed, lit) ==
    LET n == Len(lit.segs)
    IN  /\ IF lit.open /\ n > 0
           THEN Len(changed) = n + 1 /\ Last(changed) = "{}"
           ELSE Len(changed) = n
        /\ \A k \in 1 .. n : changed[k] \in {"{}", lit.segs[k]}

ConsumersOf(p) == {e[1] : e \in {e \in Calls : e[2] = p}}
ProvidersOf(c) == {e[2] : e \in {e \in Calls : e[1] = c}}
AimsAt(consumer, provider) ==
    {u \in FactsNamed(consumer).egress :
        IF u.host # NoHost THEN RouteOwner(u.host) = provider
        ELSE ProvidersOf(consumer) = {provider}}
ContractBlast ==
    {[provider |-> p, impacted |-> ConsumersOf(p),
      precise |-> {c \in ConsumersOf(p) : \E u \in AimsAt(c, p) :
                      \E ch \in FactsNamed(p).breaking : PathHits(ch, u)}] :
        p \in {p \in Scanned : FactsNamed(p).breaking # {}
                                 /\ ConsumersOf(p) # {}}}

Docs == <<Topology>> \o SetToSeq({BlastRadius(r) : r \in Shared})
-----------------------------------------------------------------------------
Init ==
    /\ world \in World /\ targets \in Targets(world)
    /\ pc = "scan" /\ runs = 1
    /\ services = <<>> /\ drawn = 0 /\ graph = Empty
    /\ mirror = Empty
    /\ moved = {} /\ written = 0
    /\ kb = {} /\ questions = {} /\ report = None

(* The next target of the command line.  The same root is scanned once; a  *)
(* name that is taken is replaced by one made of the two last directories. *)
Scan ==
    /\ pc = "scan" /\ targets # <<>>
    /\ LET r == Head(targets)
           own == IF world[r].app # None THEN world[r].app ELSE world[r].dir
       IN  services' = IF \E i \in DOMAIN services : services[i].repo = r
                       THEN services
                       ELSE Append(services,
                                [repo |-> r,
                                 name |-> IF own \in Scanned
                                          THEN world[r].qualified ELSE own])
    /\ targets' = Tail(targets)
    /\ UNCHANGED <<world, pc, runs, drawn, graph, mirror, moved, written, kb,
                   questions, report>>

EndScan ==
    /\ pc = "scan" /\ targets = <<>> /\ pc' = "draw"
    /\ UNCHANGED <<world, targets, runs, services, drawn, graph, mirror,
                   moved, written, kb, questions, report>>

(* One service of build_estate.                                            *)
DrawService ==
    /\ pc = "draw" /\ drawn < Len(services)
    /\ graph' = Draw(graph, drawn + 1) /\ drawn' = drawn + 1
    /\ mirror' = Draw(mirror, Len(services) - drawn)
    /\ UNCHANGED <<world, targets, pc, runs, services, moved, written, kb,
                   questions, report>>

(* The questions are written when there are any; nothing removes those of  *)
(* an earlier command.  Only then is the KB cleared.                       *)
Ask ==
    /\ pc = "draw" /\ drawn = Len(services) /\ pc' = "reset"
    /\ questions' = IF Questions # {} THEN Questions ELSE questions
    /\ UNCHANGED <<world, targets, runs, services, drawn, graph, mirror,
                   moved, written, kb, report>>

ResetKB ==
    /\ pc = "reset" /\ pc' = "write" /\ kb' = {} /\ written' = 0
    /\ UNCHANGED <<world, targets, runs, services, drawn, graph, mirror, moved,
                   questions, report>>

(* Gate and write one document; its file is named by its slug alone.       *)
WriteDoc ==
    /\ pc = "write" /\ written < Len(Docs)
    /\ LET d == Docs[written + 1]
       IN  kb' = {f \in kb : <<f.doc.kind, f.doc.name, f.status>>
                                # <<d.kind, d.name, StatusOf(d)>>}
                 \cup {[doc |-> d, status |-> StatusOf(d)]}
    /\ written' = written + 1
    /\ UNCHANGED <<world, targets, pc, runs, services, drawn, graph, mirror, moved,
                   questions, report>>

WriteReport ==
    /\ pc = "write" /\ written = Len(Docs) /\ pc' = "done"
    /\ report' = [services |-> [i \in DOMAIN services |-> NameOf(i)],
                  docs |-> Len(Docs), skew |-> Skew, blast |-> ContractBlast,
                  possible |-> Questions]
    /\ UNCHANGED <<world, targets, runs, services, drawn, graph, mirror,
                   moved, written, kb, questions>>

(* Somebody edits a repository between its scan and the re-hashing of what *)
(* was cited from it.                                                      *)
Touch(r) ==
    /\ pc \in {"draw", "reset", "write"}
    /\ r \in {services[i].repo : i \in DOMAIN services} /\ moved' = moved \cup {r}
    /\ UNCHANGED <<world, targets, pc, runs, services, drawn, graph, mirror,
                   written, kb, questions, report>>

Crash ==
    /\ pc \in {"draw", "reset", "write"} /\ pc' = "dead"
    /\ UNCHANGED <<world, targets, runs, services, drawn, graph, mirror,
                   moved, written, kb, questions, report>>

(* The command is given again, over the repositories as they are by then.  *)
Rerun ==
    /\ pc \in {"done", "dead"} /\ runs < MaxRuns
    /\ world' \in {w \in World : DOMAIN w = DOMAIN world}
    /\ targets' \in Targets(world')
    /\ pc' = "scan" /\ runs' = runs + 1 /\ services' = <<>> /\ drawn' = 0
    /\ graph' = Empty /\ mirror' = Empty /\ moved' = {} /\ written' = 0
    /\ UNCHANGED <<kb, questions, report>>

Next == \/ Scan \/ EndScan \/ DrawService \/ Ask \/ ResetKB \/ WriteDoc
        \/ WriteReport \/ Crash \/ Rerun
        \/ \E r \in DOMAIN world : Touch(r)

Spec == Init /\ [][Next]_vars

-----------------------------------------------------------------------------
Finished == pc \in {"reset", "write", "done"}   \* the graph is complete

(* Names that tell the services, the resources and the hosts apart.        *)
Unambiguous ==
    /\ \A i, j \in DOMAIN services : i # j =>
          NameOf(i) # NameOf(j) /\ Facts(i).routes \cap Facts(j).routes = {}
    /\ \A i \in DOMAIN services : Facts(i).bindings \cap Scanned = {}

(* The types that a service and a binding give to a node.                  *)
Settled == {"service", "frontend", "datastore", "broker", "resource"}

(* A join over repositories must not depend on the order they were named   *)
(* in: drawn the other way round, an unambiguous estate has the same       *)
(* edges and owners, and its services and resources the same types.  (A    *)
(* client, a channel and a library of one name share the node of whichever *)
(* came first; that is not claimed.)                                       *)
OrderNeverMatters ==
    Finished /\ Unambiguous =>
        /\ mirror.edges = graph.edges /\ mirror.owners = graph.owners
        /\ DOMAIN mirror.nodes = DOMAIN graph.nodes
        /\ \A n \in DOMAIN graph.nodes :
              Settled \cap {graph.nodes[n], mirror.nodes[n]} # {} =>
                  mirror.nodes[n] = graph.nodes[n]

(* A client whose base URL names a host that no scanned service declares   *)
(* is drawn, or a human is asked about it, whatever its key reads like;    *)
(* unless it is the caller itself that the key or the host reads like.     *)
(* build_estate and ambiguous_call_edges decide the two halves apart.      *)
UndrawnIsAsked ==
    Finished => \A i \in DOMAIN services : \A c \in Facts(i).clients :
        /\ c.host # NoHost /\ RouteOwner(c.host) = None
        /\ Slug[NameOf(i)] \notin {Slug[c.key], Label[c.host]}
        => \/ \E e \in graph.edges : /\ e.from = NameOf(i) /\ e.to = c.key
                                     /\ e.relation = "calls"
           \/ \E q \in questions : q.from = NameOf(i) /\ q.client = c.key

(* What the comment at topology.py:301-307 says of every client kept off   *)
(* the graph: a human is asked about it.                                   *)
NoClientVanishes ==
    Finished => \A i \in DOMAIN services : \A c \in Facts(i).clients :
        \/ Resolves(i, c) \/ c.key \in External(i)
        \/ \E q \in questions : q.from = NameOf(i) /\ q.client = c.key

(* The blast radius of a shared resource names everybody who would notice: *)
(* a service that binds it, and one that reaches such a service over at    *)
(* most three base URLs.  A dependency told from the facts, not the graph. *)
DependsOn(i, j) == i # j /\ \E c \in Facts(i).clients :
                       c.host \in Facts(j).routes
BlastReachesCallers ==
    Finished /\ Unambiguous => \A r \in Shared :
        LET I == DOMAIN services
            Hit == {i \in I : r \in Facts(i).bindings}
            Near == {i \in I : \E h \in Hit :
                        \/ i = h \/ DependsOn(i, h)
                        \/ \E a \in I : DependsOn(i, a) /\
                              (DependsOn(a, h) \/ \E b \in I :
                                  DependsOn(a, b) /\ DependsOn(b, h))}
        IN  BlastRadius(r).impacted = {NameOf(i) : i \in Near}
=============================================================================
