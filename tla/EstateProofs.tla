---------------------------- MODULE EstateProofs ----------------------------
(***************************************************************************)
(* Proofs about the estate, for any repositories with any facts, named in  *)
(* any order and as often as one likes.                                    *)
(***************************************************************************)
EXTENDS Estate, WellFoundedInduction, TLAPS

-----------------------------------------------------------------------------
(* Of several services with one key there is a last one.                   *)
LEMMA LastIsThere ==
  ASSUME NEW n \in Nat, NEW S \in SUBSET (1..n), S # {}
  PROVE  Max(S) \in S /\ \A k \in S : k <= Max(S)
<1> DEFINE T == {n - k : k \in S}
<1>1. T \subseteq Nat /\ T # {}
  <2>1. \A k \in S : k \in Nat /\ k <= n
    OBVIOUS
  <2>2. PICK k \in S : TRUE
    OBVIOUS
  <2>3. n - k \in T
    OBVIOUS
  <2> QED
    BY <2>1, <2>3
<1>2. PICK x \in T : \A y \in T : ~ (<<y, x>> \in OpToRel(<, Nat))
  BY <1>1, NatLessThanWellFounded, WFMin
<1>3. \A y \in T : ~(y < x)
  BY <1>1, <1>2 DEF OpToRel
<1>4. PICK m \in S : x = n - m
  OBVIOUS
<1>5. \A k \in S : k <= m
  BY <1>3, <1>4
<1> QED
  BY <1>5 DEF Max

NameOfLastIs ==
    \A S \in SUBSET DOMAIN services : S # {} => \E i \in S : NameOfLast(S) = NameOf(i)

LEMMA NamesAreOfServices ==
  ASSUME Len(services) \in Nat, DOMAIN services = 1..Len(services)
  PROVE  NameOfLastIs
<1> SUFFICES ASSUME NEW S \in SUBSET DOMAIN services, S # {}
             PROVE  \E i \in S : NameOfLast(S) = NameOf(i)
  BY DEF NameOfLastIs
<1>1. Max(S) \in S
  BY LastIsThere
<1> QED
  BY <1>1 DEF NameOfLast

-----------------------------------------------------------------------------
(* What is drawn of a set D of services, in whatever order they were.      *)
OwnersOf(i) == {<<r, NameOf(i)>> : r \in Facts(i).bindings}
DrawnOf(i) ==
    {NameOf(i)} \cup Facts(i).bindings \cup External(i)
        \cup Facts(i).publishes \cup Facts(i).consumes \cup DOMAIN Facts(i).libs
SettledBy(i, n, t) ==
    /\ n \in Facts(i).bindings => t = ResourceType[n]
    /\ n = NameOf(i) => t = IF Facts(i).frontend THEN "frontend" ELSE "service"
Typed(nodes, D) ==
    \A n \in DOMAIN nodes :
        /\ \A i \in D : SettledBy(i, n, nodes[n])
        /\ (\A i \in D : n \notin Facts(i).bindings /\ n # NameOf(i)) =>
              nodes[n] \notin Settled
Drawing(g, D) ==
    /\ g.edges = UNION {EdgesOf(i) : i \in D}
    /\ g.owners = UNION {OwnersOf(i) : i \in D}
    /\ DOMAIN g.nodes = UNION {DrawnOf(i) : i \in D}
    /\ Unambiguous => Typed(g.nodes, D)

(* One more service gives its own name and its bindings their types and    *)
(* leaves the settled types of the others alone.                           *)
LEMMA NodesSettle ==
  ASSUME Unambiguous, NEW D \in SUBSET DOMAIN services, NEW i \in DOMAIN services,
         NEW nodes, Typed(nodes, D), DOMAIN nodes = UNION {DrawnOf(j) : j \in D}
  PROVE  Typed(NodesAfter(nodes, i), D \cup {i})
<1> DEFINE after == NodesAfter(nodes, i)
<1>1. ASSUME NEW n \in DOMAIN after
      PROVE  after[n] = IF n \in Facts(i).bindings THEN ResourceType[n]
                        ELSE IF n = NameOf(i)
                             THEN IF Facts(i).frontend THEN "frontend" ELSE "service"
                        ELSE IF n \in DOMAIN nodes THEN nodes[n]
                        ELSE IF n \in External(i) THEN "external"
                        ELSE IF n \in Facts(i).publishes \cup Facts(i).consumes
                             THEN "topic" ELSE "library"
  BY DEF NodesAfter
<1> HIDE DEF after
<1>2. ASSUME NEW n \in DOMAIN after, NEW j \in D \cup {i}
      PROVE  SettledBy(j, n, after[n])
  <2>1. CASE n \in Facts(j).bindings
    <3>1. n # NameOf(j) /\ n # NameOf(i)
      BY <2>1 DEF Unambiguous, Scanned
    <3>2. n \notin Facts(i).bindings => n \in DOMAIN nodes /\ j \in D
      BY <2>1 DEF DrawnOf
    <3> QED
      BY <1>1, <2>1, <3>1, <3>2 DEF Typed, SettledBy
  <2>2. CASE n = NameOf(j)
    <3>1. n \notin Facts(j).bindings /\ n \notin Facts(i).bindings
      BY <2>2 DEF Unambiguous, Scanned
    <3>2. CASE j = i
      BY <1>1, <2>2, <3>1, <3>2 DEF SettledBy
    <3>3. CASE j # i
      <4>1. j \in D /\ n # NameOf(i)
        BY <2>2, <3>3 DEF Unambiguous
      <4>2. n \in DOMAIN nodes
        BY <2>2, <4>1 DEF DrawnOf
      <4> QED
        BY <1>1, <2>2, <3>1, <4>1, <4>2 DEF Typed, SettledBy
    <3> QED
      BY <3>2, <3>3
  <2> QED
    BY <2>1, <2>2 DEF SettledBy
<1>3. ASSUME NEW n \in DOMAIN after,
             \A j \in D \cup {i} : n \notin Facts(j).bindings /\ n # NameOf(j)
      PROVE  after[n] \notin Settled
  <2>1. n \in DOMAIN nodes => nodes[n] \notin Settled
    BY <1>3 DEF Typed
  <2>2. {"external", "topic", "library"} \cap Settled = {}
    BY DEF Settled
  <2> QED
    BY <1>1, <1>3, <2>1, <2>2
<1> QED
  BY <1>2, <1>3 DEF Typed, after

LEMMA DrawExtends ==
  ASSUME NEW D \in SUBSET DOMAIN services, NEW i \in DOMAIN services,
         NEW g, Drawing(g, D)
  PROVE  Drawing(Draw(g, i), D \cup {i})
<1> DEFINE h == Draw(g, i)
<1>1. /\ h.nodes = NodesAfter(g.nodes, i)
      /\ h.edges = g.edges \cup EdgesOf(i)
      /\ h.owners = g.owners \cup OwnersOf(i)
  BY DEF Draw, OwnersOf
<1>2. DOMAIN h.nodes = DOMAIN g.nodes \cup DrawnOf(i)
  BY <1>1 DEF NodesAfter, DrawnOf
<1> HIDE DEF h
<1>3. /\ h.edges = UNION {EdgesOf(j) : j \in D \cup {i}}
      /\ h.owners = UNION {OwnersOf(j) : j \in D \cup {i}}
      /\ DOMAIN h.nodes = UNION {DrawnOf(j) : j \in D \cup {i}}
  <2>1. UNION {EdgesOf(j) : j \in D \cup {i}} = (UNION {EdgesOf(j) : j \in D}) \cup EdgesOf(i)
    OBVIOUS
  <2>2. UNION {OwnersOf(j) : j \in D \cup {i}} = (UNION {OwnersOf(j) : j \in D}) \cup OwnersOf(i)
    OBVIOUS
  <2>3. UNION {DrawnOf(j) : j \in D \cup {i}} = (UNION {DrawnOf(j) : j \in D}) \cup DrawnOf(i)
    OBVIOUS
  <2> QED
    BY <1>1, <1>2, <2>1, <2>2, <2>3 DEF Drawing
<1>4. Unambiguous => Typed(h.nodes, D \cup {i})
  BY <1>1, NodesSettle DEF Drawing
<1> QED
  BY <1>3, <1>4 DEF Drawing, h

-----------------------------------------------------------------------------
(* The state of a command: what is named, drawn and asked.                 *)
Ahead == 1 .. drawn
Behind == {i \in DOMAIN services : i > Len(services) - drawn}

EstInv ==
    /\ world \in World /\ targets \in Seq(DOMAIN world)
    /\ services \in Seq([repo : DOMAIN world, name : Name])
    /\ drawn \in Nat /\ drawn <= Len(services)
    /\ pc = "scan" => drawn = 0
    /\ drawn = 0 => graph = Empty /\ mirror = Empty
    /\ Finished => drawn = Len(services)
    /\ Drawing(graph, Ahead) /\ Drawing(mirror, Behind)
    /\ Finished /\ Questions # {} => questions = Questions

LEMMA TargetsAreRepos ==
  ASSUME NEW w \in World, NEW t \in Targets(w)
  PROVE  t \in Seq(DOMAIN w)
  BY EstateAssumption, Zenon

LEMMA NothingDrawn == Drawing(Empty, {})
  BY DEF Drawing, Empty, Typed

(* What is read of the services does not change while they are drawn.      *)
LEMMA SameJoin ==
  ASSUME UNCHANGED <<world, services>>
  PROVE  /\ \A i : NameOf(i)' = NameOf(i) /\ Facts(i)' = Facts(i)
         /\ \A i : EdgesOf(i)' = EdgesOf(i) /\ OwnersOf(i)' = OwnersOf(i)
         /\ \A i : DrawnOf(i)' = DrawnOf(i)
         /\ Unambiguous' = Unambiguous /\ Questions' = Questions
<1>1. \A i : NameOf(i)' = NameOf(i) /\ Facts(i)' = Facts(i)
  BY DEF NameOf, Facts
<1>2. Scanned' = Scanned
  BY <1>1 DEF Scanned
<1>3. \A S : NameOfLast(S)' = NameOfLast(S)
  BY <1>1 DEF NameOfLast
<1>4. \A h : RouteOwner(h)' = RouteOwner(h)
  <2>1. \A h : Declaring(h)' = Declaring(h)
    BY <1>1 DEF Declaring
  <2> QED
    BY <1>3, <2>1 DEF RouteOwner, NameOfLast
<1>5. \A i, c : Resolves(i, c)' = Resolves(i, c)
  BY <1>1, <1>4 DEF Resolves
<1>6. \A c : Lookalike(c)' = Lookalike(c)
  BY <1>2 DEF Lookalike
<1>7. \A i : External(i)' = External(i)
  BY <1>1, <1>5, <1>6 DEF External
<1>8. \A n : HasContract(n)' = HasContract(n)
  <2>1. \A n : NamedAs(n)' = NamedAs(n)
    BY <1>1 DEF NamedAs
  <2> QED
    BY <2>1 DEF HasContract, FactsNamed, Facts
<1>9. \A i : EdgesOf(i)' = EdgesOf(i)
  BY <1>1, <1>4, <1>5, <1>7, <1>8 DEF EdgesOf
<1>10. \A i : OwnersOf(i)' = OwnersOf(i)
  BY <1>1 DEF OwnersOf
<1>11. \A i : DrawnOf(i)' = DrawnOf(i)
  BY <1>1, <1>7 DEF DrawnOf
<1>12. Unambiguous' = Unambiguous
  BY <1>1, <1>2 DEF Unambiguous
<1>13. \A t : BySlug(t)' = BySlug(t)
  BY <1>1 DEF BySlug, NameOfLast
<1>14. \A i, c : Ambiguous(i, c)' = Ambiguous(i, c) /\ Candidate(i, c)' = Candidate(i, c)
  BY <1>1, <1>4, <1>13 DEF Ambiguous, Candidate
<1>15. Questions' = Questions
  BY <1>1, <1>14 DEF Questions
<1> QED
  BY <1>1, <1>9, <1>10, <1>11, <1>12, <1>15

LEMMA SameDrawing ==
  ASSUME UNCHANGED <<world, services>>, NEW g, NEW D, Drawing(g, D)
  PROVE  Drawing(g, D)'
<1>1. Typed(g.nodes, D) => Typed(g.nodes, D)'
  BY SameJoin DEF Typed, SettledBy
<1> QED
  BY <1>1, SameJoin DEF Drawing

(* Steps that draw nothing and ask nothing.                                *)
LEMMA StillDrawn ==
  ASSUME EstInv, UNCHANGED <<world, services, drawn, graph, mirror>>
  PROVE  Drawing(graph, Ahead)' /\ Drawing(mirror, Behind)'
<1>1. Ahead' = Ahead /\ Behind' = Behind
  BY DEF Ahead, Behind
<1>2. Typed(graph.nodes, Ahead)' = Typed(graph.nodes, Ahead)
      /\ Typed(mirror.nodes, Behind)' = Typed(mirror.nodes, Behind)
  BY <1>1, SameJoin DEF Typed, SettledBy
<1> QED
  BY <1>1, <1>2, SameJoin DEF Drawing, EstInv

LEMMA StillEstate ==
  ASSUME EstInv, UNCHANGED <<world, services, drawn, graph, mirror, questions>>,
         targets' = targets, pc' # "scan", Finished' => Finished
  PROVE  EstInv'
<1>1. Questions' = Questions
  BY SameJoin
<1> QED
  BY <1>1, StillDrawn DEF EstInv

(* A name that a service gets is a name.                                   *)
LEMMA ScanNames ==
  ASSUME EstInv, Scan
  PROVE  /\ services' \in Seq([repo : DOMAIN world, name : Name])
         /\ targets' \in Seq(DOMAIN world)
<1> DEFINE r == Head(targets)
           own == IF world[r].app # None THEN world[r].app ELSE world[r].dir
           s == [repo |-> r, name |-> IF own \in Scanned THEN world[r].qualified ELSE own]
<1>1. r \in DOMAIN world /\ targets' \in Seq(DOMAIN world)
  BY DEF EstInv, Scan
<1>2. FactsShape(world[r])
  BY <1>1, EstateAssumption DEF EstInv
<1>3. s \in [repo : DOMAIN world, name : Name]
  BY <1>1, <1>2 DEF FactsShape
<1>4. services' = services \/ services' = Append(services, s)
  BY DEF Scan
<1> HIDE DEF s
<1>5. services' \in Seq([repo : DOMAIN world, name : Name])
  <2>1. ASSUME NEW T, NEW seq \in Seq(T), NEW e \in T PROVE Append(seq, e) \in Seq(T)
    OBVIOUS
  <2> QED
    BY <1>3, <1>4, <2>1 DEF EstInv
<1> QED
  BY <1>1, <1>5

LEMMA EstateNext == EstInv /\ [Next]_vars => EstInv'
<1> SUFFICES ASSUME EstInv, [Next]_vars PROVE EstInv'
  OBVIOUS
<1>0. Len(services) \in Nat /\ DOMAIN services = 1..Len(services)
  BY DEF EstInv
<1>1. CASE Scan
  <2>1. /\ pc = "scan" /\ pc' = "scan" /\ drawn = 0 /\ drawn' = 0
        /\ graph' = Empty /\ mirror' = Empty /\ world' = world
    BY <1>1 DEF Scan, EstInv
  <2>2. Len(services') \in Nat /\ DOMAIN services' = 1..Len(services')
    BY <1>1, ScanNames
  <2>3. Ahead' = {} /\ Behind' = {}
    BY <2>1, <2>2 DEF Ahead, Behind
  <2>4. Drawing(graph, Ahead)' /\ Drawing(mirror, Behind)'
    BY <2>1, <2>3 DEF Drawing, Empty, Typed
  <2> QED
    BY <1>1, <2>1, <2>2, <2>4, ScanNames DEF EstInv, Finished
<1>2. CASE EndScan
  <2>1. /\ UNCHANGED <<world, targets, services, drawn, graph, mirror, questions>>
        /\ pc' = "draw"
    BY <1>2 DEF EndScan
  <2> QED
    BY <2>1, StillEstate DEF Finished
<1>3. CASE DrawService
  <2>1. /\ pc = "draw" /\ pc' = "draw" /\ drawn < Len(services) /\ drawn' = drawn + 1
        /\ graph' = Draw(graph, drawn + 1)
        /\ mirror' = Draw(mirror, Len(services) - drawn)
        /\ UNCHANGED <<world, targets, services, questions>>
    BY <1>3 DEF DrawService
  <2> DEFINE i == drawn + 1
             k == Len(services) - drawn
  <2>2. drawn \in Nat /\ i \in DOMAIN services /\ k \in DOMAIN services
    <3>1. drawn \in Nat
      BY DEF EstInv
    <3>2. i \in 1..Len(services) /\ k \in 1..Len(services)
      BY <1>0, <2>1, <3>1
    <3> QED
      BY <1>0, <3>1, <3>2
  <2>3. /\ Ahead \in SUBSET DOMAIN services /\ Ahead' = Ahead \cup {i}
        /\ Behind \in SUBSET DOMAIN services /\ Behind' = Behind \cup {k}
    BY <1>0, <2>1, <2>2 DEF Ahead, Behind
  <2>4. Drawing(graph', Ahead') /\ Drawing(mirror', Behind')
    BY <2>1, <2>2, <2>3, DrawExtends DEF EstInv
  <2>5. Drawing(graph, Ahead)' /\ Drawing(mirror, Behind)'
    <3>1. Typed(graph'.nodes, Ahead') = Typed(graph.nodes, Ahead)'
          /\ Typed(mirror'.nodes, Behind') = Typed(mirror.nodes, Behind)'
      BY <2>1, SameJoin DEF Typed, SettledBy
    <3> QED
      BY <2>1, <2>4, <3>1, SameJoin DEF Drawing
  <2> QED
    BY <2>1, <2>2, <2>5 DEF EstInv, Finished
<1>4. CASE Ask
  <2>1. /\ UNCHANGED <<world, targets, services, drawn, graph, mirror>>
        /\ drawn = Len(services) /\ pc' = "reset"
        /\ questions' = IF Questions # {} THEN Questions ELSE questions
    BY <1>4 DEF Ask
  <2>2. Questions' = Questions
    BY <2>1, SameJoin
  <2> QED
    BY <2>1, <2>2, StillDrawn DEF EstInv
<1>5. CASE ResetKB \/ WriteDoc \/ WriteReport \/ Crash \/ \E r \in DOMAIN world : Touch(r)
  <2>1. /\ UNCHANGED <<world, targets, services, drawn, graph, mirror, questions>>
        /\ pc' # "scan" /\ (Finished' => Finished)
    BY <1>5 DEF ResetKB, WriteDoc, WriteReport, Crash, Touch, Finished
  <2> QED
    BY <2>1, StillEstate
<1>6. CASE Rerun
  <2>1. /\ world' \in World /\ targets' \in Seq(DOMAIN world') /\ pc' = "scan"
        /\ services' = <<>> /\ drawn' = 0 /\ graph' = Empty /\ mirror' = Empty
    BY <1>6, TargetsAreRepos DEF Rerun
  <2>2. Ahead' = {} /\ Behind' = {}
    BY <2>1 DEF Ahead, Behind
  <2>3. Drawing(graph, Ahead)' /\ Drawing(mirror, Behind)'
    BY <2>1, <2>2 DEF Drawing, Empty, Typed
  <2> QED
    BY <2>1, <2>3 DEF EstInv, Finished
<1>7. CASE UNCHANGED vars
  <2>1. UNCHANGED <<world, targets, services, drawn, graph, mirror, questions, pc>>
    BY <1>7 DEF vars
  <2>2. Questions' = Questions
    BY <2>1, SameJoin
  <2> QED
    BY <2>1, <2>2, StillDrawn DEF EstInv, Finished
<1> QED
  BY <1>1, <1>2, <1>3, <1>4, <1>5, <1>6, <1>7 DEF Next

LEMMA EstateCorrect == Spec => []EstInv
<1>1. ASSUME Init PROVE EstInv
  <2>1. Ahead = {} /\ Behind = {}
    BY <1>1 DEF Init, Ahead, Behind
  <2>2. targets \in Seq(DOMAIN world)
    BY <1>1, TargetsAreRepos DEF Init
  <2> QED
    BY <1>1, <2>1, <2>2, NothingDrawn DEF Init, EstInv, Finished
<1> QED
  BY <1>1, EstateNext, PTL DEF Spec

-----------------------------------------------------------------------------
(* What the finished graph says.                                           *)

LEMMA ServiceShapes ==
  ASSUME EstInv
  PROVE  /\ NameOfLastIs
         /\ \A i \in DOMAIN services : NameOf(i) \in Name /\ FactsShape(Facts(i))
<1>1. Len(services) \in Nat /\ DOMAIN services = 1..Len(services)
  BY DEF EstInv
<1>2. ASSUME NEW i \in DOMAIN services
      PROVE  NameOf(i) \in Name /\ FactsShape(Facts(i))
  <2>1. services[i] \in [repo : DOMAIN world, name : Name]
    <3>1. ASSUME NEW T, NEW s \in Seq(T), NEW j \in DOMAIN s PROVE s[j] \in T
      OBVIOUS
    <3> QED
      BY <1>2, <3>1 DEF EstInv
  <2> QED
    BY <2>1, EstateAssumption DEF NameOf, Facts, EstInv
<1> QED
  BY <1>1, <1>2, NamesAreOfServices

LEMMA AllDrawn ==
  ASSUME EstInv, Finished
  PROVE  Drawing(graph, DOMAIN services) /\ Drawing(mirror, DOMAIN services)
<1>1. Len(services) \in Nat /\ DOMAIN services = 1..Len(services)
      /\ drawn = Len(services)
  BY DEF EstInv
<1>2. Ahead = DOMAIN services /\ Behind = DOMAIN services
  BY <1>1 DEF Ahead, Behind
<1> QED
  BY <1>2 DEF EstInv

(* A hostname is looked up among all services, drawn or not.               *)
LEMMA HostHasOwner ==
  ASSUME EstInv, NEW h
  PROVE  /\ RouteOwner(h) # None =>
               \E j \in DOMAIN services : h \in Facts(j).routes /\ RouteOwner(h) = NameOf(j)
         /\ RouteOwner(h) = None => \A j \in DOMAIN services : h \notin Facts(j).routes
<1>1. Declaring(h) \in SUBSET DOMAIN services
  BY DEF Declaring
<1>2. CASE Declaring(h) = {}
  BY <1>2 DEF RouteOwner, NameOfLast, Declaring
<1>3. CASE Declaring(h) # {}
  <2>1. \E j \in Declaring(h) : RouteOwner(h) = NameOf(j)
    BY <1>1, <1>3, ServiceShapes DEF NameOfLastIs, RouteOwner
  <2>2. RouteOwner(h) # None
    BY <1>1, <2>1, ServiceShapes, EstateAssumption
  <2> QED
    BY <2>1, <2>2 DEF Declaring
<1> QED
  BY <1>2, <1>3

(* An unambiguous estate has one graph, drawn from either end: the order   *)
(* in which the repositories are named does not matter.                    *)
THEOREM OneGraph == Spec => []OrderNeverMatters
<1>1. ASSUME EstInv, Finished, Unambiguous
      PROVE  /\ mirror.edges = graph.edges /\ mirror.owners = graph.owners
             /\ DOMAIN mirror.nodes = DOMAIN graph.nodes
             /\ \A n \in DOMAIN graph.nodes :
                   Settled \cap {graph.nodes[n], mirror.nodes[n]} # {} =>
                       mirror.nodes[n] = graph.nodes[n]
  <2>1. Drawing(graph, DOMAIN services) /\ Drawing(mirror, DOMAIN services)
    BY <1>1, AllDrawn
  <2>2. /\ mirror.edges = graph.edges /\ mirror.owners = graph.owners
        /\ DOMAIN mirror.nodes = DOMAIN graph.nodes
    BY <2>1 DEF Drawing
  <2>3. ASSUME NEW n \in DOMAIN graph.nodes,
               Settled \cap {graph.nodes[n], mirror.nodes[n]} # {}
        PROVE  mirror.nodes[n] = graph.nodes[n]
    <3>1. PICK i \in DOMAIN services : n \in Facts(i).bindings \/ n = NameOf(i)
      BY <1>1, <2>1, <2>2, <2>3 DEF Drawing, Typed
    <3>2. SettledBy(i, n, graph.nodes[n]) /\ SettledBy(i, n, mirror.nodes[n])
      BY <1>1, <2>1, <2>2 DEF Drawing, Typed
    <3> QED
      BY <3>1, <3>2 DEF SettledBy
  <2> QED
    BY <2>2, <2>3
<1>2. EstInv => OrderNeverMatters
  BY <1>1 DEF OrderNeverMatters
<1> QED
  BY <1>2, EstateCorrect, PTL

(* A client whose address no scanned service declares is on the graph, or  *)
(* somebody is asked what it means.                                        *)
THEOREM NobodyGuesses == Spec => []UndrawnIsAsked
<1>1. ASSUME EstInv, Finished, NEW i \in DOMAIN services, NEW c \in Facts(i).clients,
             c.host # NoHost, RouteOwner(c.host) = None,
             Slug[NameOf(i)] \notin {Slug[c.key], Label[c.host]}
      PROVE  \/ \E e \in graph.edges : /\ e.from = NameOf(i) /\ e.to = c.key
                                       /\ e.relation = "calls"
             \/ \E q \in questions : q.from = NameOf(i) /\ q.client = c.key
  <2>1. CASE ~Lookalike(c)
    <3>1. c.key \in External(i)
      BY <1>1, <2>1 DEF External, Resolves
    <3>2. Edge(NameOf(i), c.key, "calls", FALSE) \in EdgesOf(i)
      BY <3>1 DEF EdgesOf
    <3>3. EdgesOf(i) \subseteq graph.edges
      BY <1>1, AllDrawn DEF Drawing
    <3> QED
      BY <3>2, <3>3 DEF Edge
  <2>2. CASE Lookalike(c)
    <3>1. ASSUME NEW s, s # Slug[NameOf(i)]
          PROVE  /\ BySlug(s) # NameOf(i)
                 /\ (\E j \in DOMAIN services : Slug[NameOf(j)] = s) => BySlug(s) # None
      <4> DEFINE S == {j \in DOMAIN services : Slug[NameOf(j)] = s}
      <4>1. CASE S = {}
        <5>1. BySlug(s) = None
          BY <4>1 DEF BySlug, NameOfLast
        <5> QED
          BY <1>1, <4>1, <5>1, ServiceShapes, EstateAssumption
      <4>2. CASE S # {}
        <5>1. PICK j \in S : BySlug(s) = NameOf(j)
          BY <1>1, <4>2, ServiceShapes DEF NameOfLastIs, BySlug
        <5> QED
          BY <1>1, <3>1, <5>1, ServiceShapes, EstateAssumption
      <4> QED
        BY <4>1, <4>2
    <3>2. BySlug(Slug[c.key]) # None
      BY <1>1, <2>2, <3>1 DEF Lookalike, Scanned
    <3>3. Candidate(i, c) # None
      BY <1>1, <3>1, <3>2 DEF Candidate
    <3>4. Ambiguous(i, c)
      BY <1>1, <3>3 DEF Ambiguous
    <3>5. \E q \in Questions : q.from = NameOf(i) /\ q.client = c.key
      <4> DEFINE p == <<i, c>>
      <4>1. p \in {q \in UNION {{j} \X Facts(j).clients : j \in DOMAIN services} :
                              Ambiguous(q[1], q[2])}
        BY <1>1, <3>4
      <4>2. p[1] = i /\ p[2] = c
        OBVIOUS
      <4> HIDE DEF p
      <4>3. [from |-> NameOf(p[1]), client |-> p[2].key,
             candidate |-> IF p[2].host \in IP THEN None ELSE Candidate(p[1], p[2])]
               \in Questions
        BY <4>1 DEF Questions
      <4> QED
        BY <4>2, <4>3
    <3>6. questions = Questions
      BY <1>1, <3>5 DEF EstInv
    <3> QED
      BY <3>5, <3>6
  <2> QED
    BY <2>1, <2>2
<1>2. EstInv => UndrawnIsAsked
  BY <1>1 DEF UndrawnIsAsked
<1> QED
  BY <1>2, EstateCorrect, PTL

-----------------------------------------------------------------------------
(* The blast radius.                                                       *)

(* In an unambiguous estate the graph calls whom the facts depend on.      *)
LEMMA CallsAreDependencies ==
  ASSUME EstInv, Finished, Unambiguous,
         NEW i \in DOMAIN services, NEW j \in DOMAIN services
  PROVE  <<NameOf(i), NameOf(j)>> \in Calls <=> DependsOn(i, j)
<1>0. graph.edges = UNION {EdgesOf(k) : k \in DOMAIN services}
  BY AllDrawn DEF Drawing
<1>1. ASSUME DependsOn(i, j)
      PROVE  <<NameOf(i), NameOf(j)>> \in Calls
  <2>1. PICK c \in Facts(i).clients : i # j /\ c.host \in Facts(j).routes
    BY <1>1 DEF DependsOn
  <2>2. RouteOwner(c.host) = NameOf(j)
    BY <2>1, HostHasOwner DEF Unambiguous
  <2>3. NameOf(j) # None /\ NameOf(j) # NameOf(i)
    BY <2>1, ServiceShapes, EstateAssumption DEF Unambiguous
  <2>4. Resolves(i, c)
    BY <2>2, <2>3 DEF Resolves
  <2>5. Edge(NameOf(i), RouteOwner(c.host), "calls", HasContract(RouteOwner(c.host)))
           \in EdgesOf(i)
    BY <2>4 DEF EdgesOf
  <2>6. PICK e \in graph.edges : e.from = NameOf(i) /\ e.to = NameOf(j) /\ e.relation = "calls"
    BY <1>0, <2>2, <2>5 DEF Edge
  <2> QED
    BY <2>6 DEF Calls, Scanned
<1>2. ASSUME <<NameOf(i), NameOf(j)>> \in Calls
      PROVE  DependsOn(i, j)
  <2>1. PICK e \in graph.edges : e.relation = "calls" /\ e.from = NameOf(i) /\ e.to = NameOf(j)
    BY <1>2 DEF Calls
  <2>2. PICK k \in DOMAIN services : e \in EdgesOf(k)
    BY <1>0, <2>1
  <2>3. \/ \E c \in Facts(k).clients :
              Resolves(k, c) /\ e.from = NameOf(k) /\ e.to = RouteOwner(c.host)
        \/ e.from = NameOf(k) /\ e.to \in External(k)
    BY <2>1, <2>2 DEF EdgesOf, Edge
  <2>4. k = i
    BY <2>1, <2>3 DEF Unambiguous
  <2>5. e.to \notin External(k)
    BY <2>1 DEF External, Lookalike, Scanned
  <2>6. PICK c \in Facts(i).clients : Resolves(i, c) /\ NameOf(j) = RouteOwner(c.host)
    BY <2>1, <2>3, <2>4, <2>5
  <2>7. PICK m \in DOMAIN services : c.host \in Facts(m).routes /\ NameOf(j) = NameOf(m)
    BY <2>6, HostHasOwner DEF Resolves
  <2>8. m = j
    BY <2>7 DEF Unambiguous
  <2> QED
    BY <2>6, <2>7, <2>8 DEF DependsOn, Resolves
<1> QED
  BY <1>1, <1>2

(* One hop of the walk, on names and on services.                          *)
Hop(S) == S \cup {a \in Scanned : \E b \in S : <<a, b>> \in Calls}
HopOf(J) == J \cup {a \in DOMAIN services : \E b \in J : DependsOn(a, b)}
NamesOf(J) == {NameOf(j) : j \in J}

LEMMA HopsAgree ==
  ASSUME EstInv, Finished, Unambiguous, NEW J \in SUBSET DOMAIN services
  PROVE  Hop(NamesOf(J)) = NamesOf(HopOf(J)) /\ HopOf(J) \in SUBSET DOMAIN services
<1>1. ASSUME NEW n \in Hop(NamesOf(J)) PROVE n \in NamesOf(HopOf(J))
  <2>1. CASE n \in NamesOf(J)
    BY <2>1 DEF NamesOf, HopOf
  <2>2. CASE n \notin NamesOf(J)
    <3>1. PICK b \in J : n \in Scanned /\ <<n, NameOf(b)>> \in Calls
      BY <1>1, <2>2 DEF Hop, NamesOf
    <3>2. PICK a \in DOMAIN services : n = NameOf(a)
      BY <3>1 DEF Scanned
    <3>3. DependsOn(a, b)
      BY <3>1, <3>2, CallsAreDependencies
    <3> QED
      BY <3>2, <3>3 DEF NamesOf, HopOf
  <2> QED
    BY <2>1, <2>2
<1>2. ASSUME NEW n \in NamesOf(HopOf(J)) PROVE n \in Hop(NamesOf(J))
  <2>1. PICK a \in HopOf(J) : n = NameOf(a)
    BY <1>2 DEF NamesOf
  <2>2. CASE a \in J
    BY <2>1, <2>2 DEF Hop, NamesOf
  <2>3. CASE a \notin J
    <3>1. PICK b \in J : a \in DOMAIN services /\ DependsOn(a, b)
      BY <2>1, <2>3 DEF HopOf
    <3>2. <<n, NameOf(b)>> \in Calls /\ n \in Scanned
      BY <2>1, <3>1, CallsAreDependencies DEF Scanned
    <3> QED
      BY <3>1, <3>2 DEF Hop, NamesOf
  <2> QED
    BY <2>2, <2>3
<1> QED
  BY <1>1, <1>2 DEF HopOf

(* The blast radius of a shared resource names its owners and everybody    *)
(* who reaches one of them over at most three base URLs, nobody else.      *)
THEOREM BlastIsComplete == Spec => []BlastReachesCallers
<1>1. ASSUME EstInv, Finished, Unambiguous, NEW r \in Shared
      PROVE  LET I == DOMAIN services
                 Hit == {i \in I : r \in Facts(i).bindings}
                 Near == {i \in I : \E h \in Hit :
                             \/ i = h \/ DependsOn(i, h)
                             \/ \E a \in I : DependsOn(i, a) /\
                                   (DependsOn(a, h) \/ \E b \in I :
                                       DependsOn(a, b) /\ DependsOn(b, h))}
             IN  BlastRadius(r).impacted = {NameOf(i) : i \in Near}
  <2> DEFINE I == DOMAIN services
             Hit == {i \in I : r \in Facts(i).bindings}
             Near == {i \in I : \E h \in Hit :
                         \/ i = h \/ DependsOn(i, h)
                         \/ \E a \in I : DependsOn(i, a) /\
                               (DependsOn(a, h) \/ \E b \in I :
                                   DependsOn(a, b) /\ DependsOn(b, h))}
  <2>1. Owners(r) = NamesOf(Hit)
    <3>1. graph.owners = UNION {OwnersOf(i) : i \in DOMAIN services}
      BY <1>1, AllDrawn DEF Drawing
    <3>2. \A o : o \in graph.owners <=>
              \E i \in I : \E x \in Facts(i).bindings : o = <<x, NameOf(i)>>
      BY <3>1 DEF OwnersOf
    <3>3. ASSUME NEW n \in Owners(r) PROVE n \in NamesOf(Hit)
      <4>1. PICK o \in graph.owners : o[1] = r /\ n = o[2]
        BY <3>3 DEF Owners
      <4>2. PICK i \in I : \E x \in Facts(i).bindings : o = <<x, NameOf(i)>>
        BY <3>2, <4>1
      <4>3. r \in Facts(i).bindings /\ n = NameOf(i)
        BY <4>1, <4>2
      <4> QED
        BY <4>3 DEF NamesOf
    <3>4. ASSUME NEW n \in NamesOf(Hit) PROVE n \in Owners(r)
      <4>1. PICK i \in Hit : n = NameOf(i)
        BY <3>4 DEF NamesOf
      <4>2. <<r, n>> \in graph.owners /\ <<r, n>>[1] = r /\ <<r, n>>[2] = n
        BY <3>2, <4>1
      <4> QED
        BY <4>2 DEF Owners
    <3> QED
      BY <3>3, <3>4
  <2>2. BlastRadius(r).impacted = Owners(r) \cup (Hop(Hop(Hop(Owners(r)))) \ Owners(r))
    BY DEF BlastRadius, Callers, Hop
  <2>3. \A S : S \subseteq Hop(S)
    BY DEF Hop
  <2>4. BlastRadius(r).impacted = Hop(Hop(Hop(Owners(r))))
    BY <2>2, <2>3
  <2>5. Hop(Hop(Hop(NamesOf(Hit)))) = NamesOf(HopOf(HopOf(HopOf(Hit))))
    <3>1. Hit \in SUBSET DOMAIN services
      OBVIOUS
    <3> HIDE DEF Hit
    <3> QED
      BY <1>1, <3>1, HopsAgree
  <2>6. HopOf(HopOf(HopOf(Hit))) = Near
    BY DEF HopOf
  <2> QED
    BY <2>1, <2>4, <2>5, <2>6 DEF NamesOf
<1>2. EstInv => BlastReachesCallers
  BY <1>1 DEF BlastReachesCallers
<1> QED
  BY <1>2, EstateCorrect, PTL
=============================================================================
