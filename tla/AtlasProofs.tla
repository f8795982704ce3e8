---------------------------- MODULE AtlasProofs ----------------------------
(***************************************************************************)
(* Proofs about the atlas, for any trees, any files of the operator's own  *)
(* and any number of commands and deaths: what the directory of rendered   *)
(* files holds, why a build aborts, and that what a project declares meets *)
(* what it locks.  The last two rest on what every reader of the build     *)
(* adds to the graph, which folds over lists and sets of any length do     *)
(* piece by piece: each fold has an instance of FoldLaws for the property  *)
(* that its steps keep.                                                    *)
(***************************************************************************)
EXTENDS Atlas, FiniteSetTheorems, WellFoundedInduction, Integers, TLAPS

-----------------------------------------------------------------------------
(* Sequences of names.                                                     *)
LEMMA RangeOfConcat ==
  ASSUME NEW S, NEW s \in Seq(S), NEW t \in Seq(S)
  PROVE  s \o t \in Seq(S) /\ Range(s \o t) = Range(s) \cup Range(t)
<1>1. /\ s \o t \in Seq(S) /\ Len(s \o t) = Len(s) + Len(t)
      /\ DOMAIN s = 1 .. Len(s) /\ DOMAIN t = 1 .. Len(t)
      /\ DOMAIN (s \o t) = 1 .. (Len(s) + Len(t))
      /\ Len(s) \in Nat /\ Len(t) \in Nat
  OBVIOUS
<1>2. \A i \in DOMAIN s : i \in DOMAIN (s \o t) /\ (s \o t)[i] = s[i]
  OBVIOUS
<1>3. \A i \in DOMAIN t : Len(s) + i \in DOMAIN (s \o t) /\ (s \o t)[Len(s) + i] = t[i]
  OBVIOUS
<1>4. ASSUME NEW i \in DOMAIN (s \o t)
      PROVE  \/ i \in DOMAIN s /\ (s \o t)[i] = s[i]
             \/ i - Len(s) \in DOMAIN t /\ (s \o t)[i] = t[i - Len(s)]
  BY <1>1
<1>5. Range(s \o t) \subseteq Range(s) \cup Range(t)
  BY <1>4 DEF Range
<1>6. Range(s) \subseteq Range(s \o t)
  BY <1>2 DEF Range
<1>7. Range(t) \subseteq Range(s \o t)
  BY <1>3 DEF Range
<1> QED
  BY <1>1, <1>5, <1>6, <1>7

(* What is left of a list when its head is done.                           *)
LEMMA RangeOfTail ==
  ASSUME NEW S, NEW s \in Seq(S), s # <<>>
  PROVE  /\ Head(s) \in Range(s) /\ Tail(s) \in Seq(S)
         /\ Range(Tail(s)) \subseteq Range(s)
         /\ \A f \in Range(s) : f = Head(s) \/ f \in Range(Tail(s))
<1>1. /\ Len(s) \in Nat \ {0} /\ DOMAIN s = 1 .. Len(s) /\ Head(s) = s[1]
      /\ Tail(s) \in Seq(S)
      /\ DOMAIN Tail(s) = 1 .. (Len(s) - 1)
      /\ \A i \in 1 .. (Len(s) - 1) : Tail(s)[i] = s[i + 1]
  OBVIOUS
<1>2. ASSUME NEW i \in DOMAIN s PROVE i = 1 \/ (i - 1 \in DOMAIN Tail(s) /\ Tail(s)[i - 1] = s[i])
  BY <1>1
<1>3. ASSUME NEW i \in DOMAIN Tail(s) PROVE i + 1 \in DOMAIN s /\ Tail(s)[i] = s[i + 1]
  BY <1>1
<1>4. Head(s) \in Range(s)
  BY <1>1 DEF Range
<1>5. Range(Tail(s)) \subseteq Range(s)
  BY <1>3 DEF Range
<1>6. \A f \in Range(s) : f = Head(s) \/ f \in Range(Tail(s))
  BY <1>1, <1>2 DEF Range
<1> QED
  BY <1>1, <1>4, <1>5, <1>6

(* The files of a tree: all that is ever rendered, but for the page.       *)
LEMMA FilesAre ==
  ASSUME NEW t
  PROVE  /\ Files(t) \in Seq(Rendered)
         /\ "manifest.json" \in Range(Files(t))
         /\ Range(Files(t)) \subseteq Rendered
<1> DEFINE page == IF Tree[t].html THEN <<"atlas.html">> ELSE <<>>
<1>1. BeforePage \in Seq(Rendered) /\ AfterPage \in Seq(Rendered) /\ page \in Seq(Rendered)
  <2>1. BeforePage \in Seq(Range(BeforePage))
    BY DEF BeforePage, Range
  <2>2. AfterPage \in Seq(Range(AfterPage))
    BY DEF AfterPage, Range
  <2>3. /\ Range(BeforePage) \subseteq Rendered /\ Range(AfterPage) \subseteq Rendered
        /\ "atlas.html" \in Rendered
    BY DEF Rendered
  <2>4. <<>> \in Seq(Rendered) /\ \A f \in Rendered : <<f>> \in Seq(Rendered)
    OBVIOUS
  <2>5. page = <<>> \/ page = <<"atlas.html">>
    OBVIOUS
  <2> QED
    BY <2>1, <2>2, <2>3, <2>4, <2>5
<1>2. Range(page) \subseteq {"atlas.html"}
  <2>1. Range(<<>>) = {} /\ Range(<<"atlas.html">>) = {"atlas.html"}
    BY DEF Range
  <2> QED
    BY <2>1
<1>3. "manifest.json" \in Range(AfterPage)
  BY DEF AfterPage, Range
<1>4. Files(t) = BeforePage \o page \o AfterPage
  BY DEF Files
<1> HIDE DEF page
<1> DEFINE front == BeforePage \o page
<1>5. front \in Seq(Rendered) /\ Range(front) = Range(BeforePage) \cup Range(page)
  BY <1>1, RangeOfConcat
<1> HIDE DEF front
<1>6. /\ front \o AfterPage \in Seq(Rendered)
      /\ Range(front \o AfterPage) = Range(front) \cup Range(AfterPage)
  BY <1>1, <1>5, RangeOfConcat
<1>7. Files(t) = front \o AfterPage
  BY <1>4 DEF front
<1> QED
  BY <1>2, <1>3, <1>5, <1>6, <1>7 DEF Rendered

-----------------------------------------------------------------------------
(* The directory.                                                          *)

(* Every file of the atlas but those still to be written is what the tree  *)
(* renders to.                                                             *)
Stands(f) == f \in DOMAIN disk /\ disk[f] = Says(f, tree)

(* Outside of a command, a file is loose or listed by the manifest that is *)
(* there; while one writes, loose or about to be listed.  Before anything  *)
(* dies only the operator's own files are loose.                           *)
DirInv ==
    /\ tree \in DOMAIN Tree /\ crashes \in Nat
    /\ pc = "unlink" => todo = Files(tree)
    /\ pc = "write" =>
           /\ todo \in Seq(Rendered) /\ Range(todo) \subseteq Range(Files(tree))
           /\ \A f \in Range(Files(tree)) : f \in Range(todo) \/ Stands(f)
           /\ DOMAIN disk \subseteq loose \cup Range(Files(tree))
    /\ pc = "written" =>
           /\ \A f \in Range(Files(tree)) : Stands(f)
           /\ DOMAIN disk \subseteq loose \cup Range(Files(tree))
    /\ pc # "write" =>
           DOMAIN disk \subseteq loose \cup PriorGeneratedNames(disk) \cup {"manifest.json"}
    /\ crashes = 0 => loose \subseteq HandMade /\ HandMade \subseteq DOMAIN disk

(* Whatever a manifest says, it lists no file of the operator's own.       *)
LEMMA PriorAreRendered ==
  ASSUME NEW d PROVE PriorGeneratedNames(d) \subseteq Rendered
BY FilesAre DEF PriorGeneratedNames

(* Before any command there are the operator's own files only.             *)
LEMMA DirInit == Init => DirInv
BY DEF Init, DirInv

(* The build reads: it changes no file, and what is to be written it only  *)
(* names.                                                                  *)
LEMMA BuildReads ==
  ASSUME \/ \E name \in {"atlas", "atlas-check"} : Begin(name)
         \/ LoadConfig \/ ReadManifest \/ CollectSource \/ ApplyOverlays \/ Assemble
         \/ CheckAtlas \/ Edit \/ UNCHANGED vars
  PROVE  /\ UNCHANGED <<disk, loose, crashes>>
         /\ tree' = tree \/ (tree' \in Edits /\ pc' = "idle")
         /\ \/ UNCHANGED <<tree, pc, todo>>
            \/ pc' = "unlink" /\ todo' = Files(tree) /\ tree' = tree
            \/ pc' \notin {"unlink", "write", "written"}
         /\ pc = "write" => UNCHANGED <<tree, pc, todo>>
<1>1. ASSUME NEW name, Begin(name)
      PROVE  UNCHANGED <<tree, disk, loose, crashes>> /\ pc = "idle" /\ pc' = "config"
  BY <1>1 DEF Begin, files
<1>2. CASE LoadConfig
  BY <1>2 DEF LoadConfig, Abort, Continue, files
<1>3. CASE ReadManifest
  BY <1>3 DEF ReadManifest, Abort, Continue, files
<1>4. CASE CollectSource
  BY <1>4 DEF CollectSource, Abort, Continue, files
<1>5. CASE ApplyOverlays
  BY <1>5 DEF ApplyOverlays, Abort, Continue, files
<1>6. CASE Assemble
  BY <1>6 DEF Assemble, Abort, files
<1>7. CASE CheckAtlas
  BY <1>7 DEF CheckAtlas
<1>8. CASE Edit
  BY <1>8 DEF Edit, files
<1>9. CASE UNCHANGED vars
  BY <1>9 DEF vars
<1> QED
  BY <1>1, <1>2, <1>3, <1>4, <1>5, <1>6, <1>7, <1>8, <1>9

(* Every step of a command, a death and an edit of the tree.               *)
LEMMA DirNext == DirInv /\ [Next]_vars => DirInv'
<1> SUFFICES ASSUME DirInv, [Next]_vars PROVE DirInv'
  OBVIOUS
<1>1. CASE \/ \E name \in {"atlas", "atlas-check"} : Begin(name)
           \/ LoadConfig \/ ReadManifest \/ CollectSource \/ ApplyOverlays \/ Assemble
           \/ CheckAtlas \/ Edit \/ UNCHANGED vars
  <2>1. /\ UNCHANGED <<disk, loose, crashes>>
        /\ tree' = tree \/ (tree' \in Edits /\ pc' = "idle")
        /\ \/ UNCHANGED <<tree, pc, todo>>
           \/ pc' = "unlink" /\ todo' = Files(tree) /\ tree' = tree
           \/ pc' \notin {"unlink", "write", "written"}
        /\ pc = "write" => UNCHANGED <<tree, pc, todo>>
    BY <1>1, BuildReads
  <2>2. tree' \in DOMAIN Tree
    BY <2>1, AtlasAssumption DEF DirInv
  <2>3. PriorGeneratedNames(disk)' = PriorGeneratedNames(disk)
    BY <2>1 DEF PriorGeneratedNames
  <2>4. CASE UNCHANGED <<tree, pc, todo>>
    BY <2>1, <2>2, <2>3, <2>4 DEF DirInv, Stands
  <2>5. CASE pc' = "unlink" /\ todo' = Files(tree) /\ tree' = tree
    BY <2>1, <2>2, <2>3, <2>5 DEF DirInv
  <2>6. CASE pc' \notin {"unlink", "write", "written"}
    BY <2>1, <2>2, <2>3, <2>6 DEF DirInv
  <2> QED
    BY <2>1, <2>4, <2>5, <2>6
<1>2. CASE Unlink
  <2> DEFINE gone == PriorGeneratedNames(disk) \ Range(Files(tree))
  <2>1. /\ pc = "unlink" /\ pc' = "write" /\ UNCHANGED <<tree, todo, loose, crashes>>
        /\ DOMAIN disk' = DOMAIN disk \ gone
    BY <1>2 DEF Unlink, Restrict
  <2>2. todo = Files(tree) /\ todo' \in Seq(Rendered)
    BY <2>1, FilesAre DEF DirInv
  <2>3. DOMAIN disk' \subseteq loose \cup Range(Files(tree))
    BY <2>1, FilesAre DEF DirInv
  <2>4. gone \cap HandMade = {}
    BY PriorAreRendered, AtlasAssumption
  <2> HIDE DEF gone
  <2>5. crashes = 0 => loose \subseteq HandMade /\ HandMade \subseteq DOMAIN disk'
    BY <2>1, <2>4 DEF DirInv
  <2> QED
    BY <2>1, <2>2, <2>3, <2>5 DEF DirInv
<1>3. CASE WriteFile
  <2>1. /\ pc = "write" /\ pc' = "write" /\ todo # <<>> /\ todo' = Tail(todo)
        /\ UNCHANGED <<tree, loose, crashes>>
        /\ DOMAIN disk' = {Head(todo)} \cup DOMAIN disk
        /\ disk'[Head(todo)] = Says(Head(todo), tree)
        /\ \A f \in DOMAIN disk : f # Head(todo) => disk'[f] = disk[f]
    BY <1>3 DEF WriteFile, Holding
  <2>2. /\ todo \in Seq(Rendered) /\ Range(todo) \subseteq Range(Files(tree))
        /\ \A f \in Range(Files(tree)) : f \in Range(todo) \/ Stands(f)
    BY <2>1 DEF DirInv
  <2>3. /\ Head(todo) \in Range(todo) /\ Tail(todo) \in Seq(Rendered)
        /\ Range(Tail(todo)) \subseteq Range(todo)
        /\ \A f \in Range(todo) : f = Head(todo) \/ f \in Range(Tail(todo))
    BY <2>1, <2>2, RangeOfTail
  <2>4. \A f \in Range(Files(tree)) : f \in Range(Tail(todo)) \/ Stands(f)'
    BY <2>1, <2>2, <2>3 DEF Stands, Says
  <2>5. Range(Files(tree))' = Range(Files(tree))
    BY <2>1
  <2> QED
    BY <2>1, <2>2, <2>3, <2>4, <2>5 DEF DirInv
<1>4. CASE Finish
  <2>1. /\ pc = "write" /\ pc' = "written" /\ todo = <<>> /\ UNCHANGED <<tree, disk, crashes>>
        /\ loose' = loose \ Range(Files(tree))
    BY <1>4 DEF Finish
  <2>2. Range(<<>>) = {}
    BY DEF Range
  <2>3. /\ \A f \in Range(Files(tree)) : Stands(f)
        /\ DOMAIN disk \subseteq loose' \cup Range(Files(tree))
    BY <2>1, <2>2 DEF DirInv
  <2>4. PriorGeneratedNames(disk) = Range(Files(tree)) \ {"manifest.json"}
    <3>1. "manifest.json" \in DOMAIN disk /\ disk["manifest.json"] = tree
      BY <2>3, FilesAre DEF Stands, Says
    <3>2. tree # <<"torn">>
      BY AtlasAssumption DEF DirInv
    <3> QED
      BY <3>1, <3>2 DEF PriorGeneratedNames
  <2>5. PriorGeneratedNames(disk)' = PriorGeneratedNames(disk)
    BY <2>1 DEF PriorGeneratedNames
  <2> QED
    BY <2>1, <2>3, <2>4, <2>5 DEF DirInv, Stands
<1>5. CASE Crash
  <2>1. /\ pc' = "idle" /\ UNCHANGED tree /\ crashes' = crashes + 1
        /\ loose' = DOMAIN disk' \ PriorGeneratedNames(disk')
    BY <1>5 DEF Crash
  <2>2. crashes' \in Nat /\ crashes' # 0
    BY <2>1 DEF DirInv
  <2>3. PriorGeneratedNames(disk)' = PriorGeneratedNames(disk')
    BY DEF PriorGeneratedNames
  <2> QED
    BY <2>1, <2>2, <2>3 DEF DirInv
<1> QED
  BY <1>1, <1>2, <1>3, <1>4, <1>5 DEF Next

(* When an atlas is written, atlas-check finds every file of it as the     *)
(* tree renders it, and beside them only what no manifest listed; the      *)
(* operator's own files are all there is of that until a command dies.     *)
THEOREM WrittenMeansCurrent == Spec => []WrittenAtlasHasNoDrift
<1>1. DirInv => WrittenAtlasHasNoDrift
  <2> SUFFICES ASSUME DirInv, pc = "written"
               PROVE  /\ Drift.added = {} /\ Drift.changed = {}
                      /\ Drift.removed \subseteq loose
                      /\ crashes = 0 => Drift.removed = HandMade
    BY DEF WrittenAtlasHasNoDrift
  <2>1. /\ \A f \in Range(Files(tree)) : Stands(f)
        /\ DOMAIN disk \subseteq loose \cup Range(Files(tree))
        /\ crashes = 0 => loose \subseteq HandMade /\ HandMade \subseteq DOMAIN disk
    BY DEF DirInv
  <2>2. /\ Drift.added = Range(Files(tree)) \ DOMAIN disk
        /\ Drift.removed = DOMAIN disk \ Range(Files(tree))
        /\ Drift.changed = {f \in Range(Files(tree)) \cap DOMAIN disk :
                                disk[f] # Says(f, tree)}
    BY DEF Drift
  <2>3. Range(Files(tree)) \cap HandMade = {}
    BY FilesAre, AtlasAssumption
  <2> QED
    BY <2>1, <2>2, <2>3 DEF Stands
<1> QED
  BY <1>1, DirInit, DirNext, PTL DEF Spec

-----------------------------------------------------------------------------
(* Lists and sets that are folded.                                         *)
(* A set of whose parts no endless descent is made.                        *)
Dwindles(S) ==
    \A B \in SUBSET SUBSET S : B # {} => \E t \in B : \A w \in B : w \subseteq t => w = t

(* A finite set is one: of any sets of its parts take one with the fewest  *)
(* elements.                                                               *)
LEMMA FiniteDwindles == ASSUME NEW S, IsFiniteSet(S) PROVE Dwindles(S)
<1> SUFFICES ASSUME NEW B \in SUBSET SUBSET S, B # {}
             PROVE  \E t \in B : \A w \in B : w \subseteq t => w = t
  BY DEF Dwindles
<1>1. \A t \in SUBSET S : IsFiniteSet(t) /\ Cardinality(t) \in Nat
  BY FS_Subset, FS_CardinalityType
<1> DEFINE sizes == {Cardinality(t) : t \in B}
<1>2. sizes \subseteq Nat /\ sizes # {}
  BY <1>1
<1>3. \A n \in sizes : \E t \in B : n = Cardinality(t)
  OBVIOUS
<1>4. \A t \in B : Cardinality(t) \in sizes
  OBVIOUS
<1> HIDE DEF sizes
<1>5. PICK n \in sizes : \A k \in sizes : ~(<<k, n>> \in OpToRel(<, Nat))
  BY <1>2, NatLessThanWellFounded, WFMin
<1>6. \A k \in sizes : ~(k < n)
  BY <1>2, <1>5 DEF OpToRel
<1>7. PICK t \in B : n = Cardinality(t)
  BY <1>3, <1>5
<1>8. ASSUME NEW w \in B, w \subseteq t PROVE w = t
  <2>1. ~(Cardinality(w) < Cardinality(t))
    BY <1>4, <1>6, <1>7
  <2>2. Cardinality(w) <= Cardinality(t) /\ (Cardinality(w) = Cardinality(t) => w = t)
    BY <1>1, <1>8, FS_Subset
  <2> QED
    BY <1>1, <2>1, <2>2
<1> QED
  BY <1>8

(* Max picks an element of a bounded set, and its greatest.                *)
LEMMA LastIsThere ==
  ASSUME NEW n \in Nat, NEW S \in SUBSET (0 .. n), S # {}
  PROVE  Max(S) \in S /\ \A k \in S : k <= Max(S)
<1> DEFINE D == {n - k : k \in S}
<1>1. D \subseteq Nat /\ D # {}
  <2>1. \A k \in S : k \in Nat /\ k <= n
    OBVIOUS
  <2>2. PICK k \in S : TRUE
    OBVIOUS
  <2>3. n - k \in D
    OBVIOUS
  <2> QED
    BY <2>1, <2>3
<1>2. PICK x \in D : \A y \in D : ~ (<<y, x>> \in OpToRel(<, Nat))
  BY <1>1, NatLessThanWellFounded, WFMin
<1>3. \A y \in D : ~(y < x)
  BY <1>1, <1>2 DEF OpToRel
<1>4. PICK m \in S : x = n - m
  BY <1>2
<1>4a. \A k \in S : n - k \in D
  OBVIOUS
<1> HIDE DEF D
<1>4b. \A k \in S : ~(n - k < n - m)
  BY <1>3, <1>4, <1>4a
<1>5. \A k \in S : k <= m
  BY <1>4b
<1> QED
  BY <1>5 DEF Max

(* Min picks an element of a set of naturals, and its least.               *)
LEMMA FirstIsThere ==
  ASSUME NEW S \in SUBSET Nat, S # {}
  PROVE  Min(S) \in S /\ \A k \in S : Min(S) <= k
<1>1. PICK x \in S : \A y \in S : ~ (<<y, x>> \in OpToRel(<, Nat))
  BY NatLessThanWellFounded, WFMin
<1>2. \A y \in S : ~(y < x)
  BY <1>1 DEF OpToRel
<1>3. \A y \in S : x <= y
  BY <1>2
<1> QED
  BY <1>3 DEF Min

(* A list is indexed by what can be tabled, and Max picks from it.         *)
LEMMA ListsFold ==
  ASSUME NEW s, Listed(s)
  PROVE  /\ Len(s) \in Nat /\ DOMAIN s = 1 .. Len(s)
         /\ Dwindles(DOMAIN s)
         /\ \A t \in SUBSET DOMAIN s : t # {} => Max(t) \in t
         /\ \A i \in DOMAIN s : s[i] \in Range(s)
<1>1. Len(s) \in Nat /\ DOMAIN s = 1 .. Len(s)
  BY DEF Listed
<1>2. Dwindles(DOMAIN s)
  <2>1. IsFiniteSet(1 .. Len(s))
    BY <1>1, FS_Interval
  <2> QED
    BY <1>1, <2>1, FiniteDwindles
<1>3. \A t \in SUBSET DOMAIN s : t \in SUBSET (0 .. Len(s))
  BY <1>1
<1> QED
  BY <1>1, <1>2, <1>3, LastIsThere DEF Range

(* A fold over a finite set takes each element by CHOOSE.                  *)
LEMMA SetsFold ==
  ASSUME NEW S, IsFiniteSet(S)
  PROVE  Dwindles(S) /\ \A t \in SUBSET S : t # {} => (CHOOSE x \in t : TRUE) \in t
BY FiniteDwindles

OnlyLaw == INSTANCE FoldLaws WITH
    Pick <- LAMBDA t : Max(t),
    Op <- LAMBDA p, q, r, s, i, v : IF s[i] \in p THEN Append(v, s[i]) ELSE v,
    Inv <- LAMBDA p, q, r, s, b, t, v : v \in Seq(Range(s) \cap p)

(* Only takes elements of the list and of the set.                         *)
LEMMA OnlyIsOf ==
  ASSUME NEW seq, Listed(seq), NEW S
  PROVE  Listed(Only(seq, S)) /\ Range(Only(seq, S)) \subseteq Range(seq) \cap S
<1>1. Only(seq, S) = OnlyLaw!Fold(S, 0, 0, seq, <<>>, DOMAIN seq)
  BY DEF Only, FoldLeft, MapThenFoldSet, OnlyLaw!Fold
<1>2. \A i \in DOMAIN seq : \A t \in SUBSET DOMAIN seq : \A v :
          v \in Seq(Range(seq) \cap S) =>
              (IF seq[i] \in S THEN Append(v, seq[i]) ELSE v) \in Seq(Range(seq) \cap S)
  BY ListsFold
<1>3. <<>> \in Seq(Range(seq) \cap S)
  OBVIOUS
<1>4. Dwindles(DOMAIN seq) /\ \A t \in SUBSET DOMAIN seq : t # {} => Max(t) \in t
  BY ListsFold
<1>5. OnlyLaw!Fold(S, 0, 0, seq, <<>>, DOMAIN seq) \in Seq(Range(seq) \cap S)
  BY <1>2, <1>3, <1>4, OnlyLaw!FoldKeeps DEF Dwindles
<1> QED
  BY <1>1, <1>5 DEF Listed, Range

-----------------------------------------------------------------------------
(* Collections.                                                            *)
Nodes(u) == DOMAIN u.graph.nodes
Edges(u) == DOMAIN u.graph.edges
Shaped(u) ==
    /\ DOMAIN u = {"graph", "index"}
    /\ DOMAIN u.graph = {"nodes", "edges", "unknowns"}
    /\ DOMAIN u.index = {"packages", "scoped", "go", "central", "paths", "imports",
                         "licenses", "projectLicenses"}
(* The packages that are registered are nodes.                             *)
Filed(u) ==
    /\ \A x \in DOMAIN u.index.packages : u.index.packages[x] \in Nodes(u)
    /\ \A x \in DOMAIN u.index.scoped : u.index.scoped[x] \in Nodes(u)
Sound(u) == Shaped(u) /\ Integrity(u.graph) /\ IsFiniteSet(Edges(u)) /\ Filed(u)

(* The edges of what is declared and of what is locked.                    *)
Declares(u) == {k \in Edges(u) : k.scope = "package" /\ k.kind = "declares"}
Locks(u) == {k \in Edges(u) : k.scope = "package" /\ k.kind = "resolved-dependency"}
(* A step that adds to a collection, but no package of a project's.        *)
Quiet(u, d) ==
    /\ Sound(d) /\ Nodes(u) \subseteq Nodes(d)
    /\ Declares(d) = Declares(u) /\ Locks(d) = Locks(u)
    /\ d.index.scoped = u.index.scoped /\ d.index.packages = u.index.packages

(* What two quiet steps do is quiet.                                       *)
LEMMA QuietIsTransitive ==
  ASSUME NEW a, NEW b, NEW u, Quiet(a, b), Quiet(b, u) PROVE Quiet(a, u)
BY DEF Quiet

(* Put adds one key.                                                       *)
LEMMA PutIn == ASSUME NEW f, NEW x, NEW v PROVE DOMAIN Put(f, x, v) = {x} \cup DOMAIN f
BY DEF Put

(* AddNode, by its effect on the three parts of a graph.                   *)
LEMMA NodeAdded ==
  ASSUME NEW g, DOMAIN g = {"nodes", "edges", "unknowns"}, NEW id, NEW n
  PROVE  /\ DOMAIN AddNode(g, id, n) = DOMAIN g /\ AddNode(g, id, n).edges = g.edges
         /\ DOMAIN AddNode(g, id, n).nodes = {id} \cup DOMAIN g.nodes
BY PutIn DEF AddNode

(* AddEdge likewise.                                                       *)
LEMMA EdgeAdded ==
  ASSUME NEW g, DOMAIN g = {"nodes", "edges", "unknowns"}, NEW k, NEW unresolved
  PROVE  /\ DOMAIN AddEdge(g, k, unresolved) = DOMAIN g
         /\ AddEdge(g, k, unresolved).nodes = g.nodes
         /\ DOMAIN AddEdge(g, k, unresolved).edges = {k} \cup DOMAIN g.edges
BY PutIn DEF AddEdge

(* A node that is added or merged disturbs no edge.                        *)
LEMMA NodeIsQuiet ==
  ASSUME NEW u, Sound(u), NEW id, NEW n
  PROVE  /\ Quiet(u, [u EXCEPT !.graph = AddNode(@, id, n)])
         /\ id \in Nodes([u EXCEPT !.graph = AddNode(@, id, n)])
<1> DEFINE d == [u EXCEPT !.graph = AddNode(@, id, n)]
<1>1. DOMAIN u = {"graph", "index"} /\ DOMAIN u.graph = {"nodes", "edges", "unknowns"}
  BY DEF Sound, Shaped
<1>2. d.index = u.index /\ d.graph = AddNode(u.graph, id, n) /\ DOMAIN d = DOMAIN u
  BY <1>1
<1>3. /\ Shaped(d) /\ d.graph.edges = u.graph.edges
      /\ DOMAIN d.graph.nodes = {id} \cup DOMAIN u.graph.nodes
  BY <1>1, <1>2, NodeAdded DEF Sound, Shaped
<1> HIDE DEF d
<1>4. Quiet(u, d) /\ id \in Nodes(d)
  BY <1>2, <1>3 DEF Quiet, Sound, Filed, Integrity, Nodes, Edges, Declares, Locks
<1> QED
  BY <1>4 DEF d

(* One edge more is finitely many still.                                   *)
LEMMA OneMoreEdge ==
  ASSUME NEW edges, IsFiniteSet(edges), NEW k PROVE IsFiniteSet({k} \cup edges)
BY FS_AddElement, {k} \cup edges = edges \cup {k}

(* An edge between two nodes that are there, neither declared nor locked.  *)
LEMMA EdgeIsQuiet ==
  ASSUME NEW u, Sound(u), NEW source \in Nodes(u), NEW target \in Nodes(u),
         NEW kind, NEW scope, NEW resolver, NEW unresolved,
         scope # "package" \/ kind \notin {"declares", "resolved-dependency"}
  PROVE  Quiet(u, [u EXCEPT !.graph = AddEdge(@, Key(source, target, kind, scope, resolver),
                                                 unresolved)])
<1> DEFINE k == Key(source, target, kind, scope, resolver)
           d == [u EXCEPT !.graph = AddEdge(@, k, unresolved)]
<1>0. k.source = source /\ k.target = target /\ k.kind = kind /\ k.scope = scope
  BY DEF Key
<1> HIDE DEF k
<1>1. DOMAIN u = {"graph", "index"} /\ DOMAIN u.graph = {"nodes", "edges", "unknowns"}
  BY DEF Sound, Shaped
<1>2. d.index = u.index /\ d.graph = AddEdge(u.graph, k, unresolved) /\ DOMAIN d = DOMAIN u
  BY <1>1
<1>3. /\ Shaped(d) /\ d.graph.nodes = u.graph.nodes
      /\ DOMAIN d.graph.edges = {k} \cup DOMAIN u.graph.edges
  BY <1>1, <1>2, EdgeAdded DEF Sound, Shaped
<1> HIDE DEF d
<1>4. Nodes(d) = Nodes(u) /\ Edges(d) = {k} \cup Edges(u)
  BY <1>2, <1>3 DEF Nodes, Edges
<1>5. IsFiniteSet(Edges(d))
  BY <1>4, OneMoreEdge DEF Sound
<1>6. Integrity(d.graph)
  BY <1>0, <1>4 DEF Sound, Integrity, Nodes, Edges
<1>7. Filed(d)
  BY <1>2, <1>4 DEF Sound, Filed
<1>8. Declares(d) = Declares(u) /\ Locks(d) = Locks(u)
  BY <1>0, <1>4 DEF Declares, Locks
<1>9. Quiet(u, d)
  BY <1>2, <1>3, <1>4, <1>5, <1>6, <1>7, <1>8 DEF Quiet, Sound
<1> QED
  BY <1>9 DEF d, k

(* An unknown is an entry of a list of its own.                            *)
LEMMA UnknownIsQuiet ==
  ASSUME NEW u, Sound(u), NEW code, NEW project, NEW path
  PROVE  Quiet(u, [u EXCEPT !.graph = AddUnknown(@, code, project, path)])
<1> DEFINE d == [u EXCEPT !.graph = AddUnknown(@, code, project, path)]
<1>1. /\ Shaped(d) /\ d.index = u.index /\ d.graph.nodes = u.graph.nodes
      /\ d.graph.edges = u.graph.edges
  BY DEF Sound, Shaped, AddUnknown
<1> HIDE DEF d
<1>2. Quiet(u, d)
  BY <1>1 DEF Quiet, Sound, Filed, Integrity, Nodes, Edges, Declares, Locks
<1> QED
  BY <1>2 DEF d

(* The other indices.                                                      *)
LEMMA IndexIsQuiet ==
  ASSUME NEW u, Sound(u), NEW x
  PROVE  /\ Quiet(u, u)
         /\ Quiet(u, [u EXCEPT !.index.go = x]) /\ Quiet(u, [u EXCEPT !.index.central = x])
         /\ Quiet(u, [u EXCEPT !.index.paths = x]) /\ Quiet(u, [u EXCEPT !.index.imports = x])
         /\ Quiet(u, [u EXCEPT !.index.licenses = x])
         /\ Quiet(u, [u EXCEPT !.index.projectLicenses = x])
<1>1. ASSUME NEW d, Shaped(d), d.graph = u.graph, d.index.scoped = u.index.scoped,
             d.index.packages = u.index.packages
      PROVE  Quiet(u, d)
  BY <1>1 DEF Quiet, Sound, Filed, Integrity, Nodes, Edges, Declares, Locks
<1>2. Quiet(u, [u EXCEPT !.index.go = x])
  BY <1>1 DEF Sound, Shaped
<1>3. Quiet(u, [u EXCEPT !.index.central = x])
  BY <1>1 DEF Sound, Shaped
<1>4. Quiet(u, [u EXCEPT !.index.paths = x])
  BY <1>1 DEF Sound, Shaped
<1>5. Quiet(u, [u EXCEPT !.index.imports = x])
  BY <1>1 DEF Sound, Shaped
<1>6. Quiet(u, [u EXCEPT !.index.licenses = x])
  BY <1>1 DEF Sound, Shaped
<1>7. Quiet(u, [u EXCEPT !.index.projectLicenses = x])
  BY <1>1 DEF Sound, Shaped
<1>8. Quiet(u, u)
  BY <1>1 DEF Sound
<1> QED
  BY <1>2, <1>3, <1>4, <1>5, <1>6, <1>7, <1>8

(* Notes on a project.                                                     *)
LEMMA Annotated ==
  ASSUME NEW u, Sound(u), NEW project, NEW notes PROVE Quiet(u, Annotate(u, project, notes))
BY NodeIsQuiet, IndexIsQuiet DEF Annotate

-----------------------------------------------------------------------------
(* What a project declares and what its lock files resolve.                *)
LockedBy(u, source) == {k.target : k \in {k \in Locks(u) : k.source = source}}
Meets(u, k) ==
    IF \E id \in LockedBy(u, k.source) : Eco(id) = Eco(k.target)
    THEN k.target \in LockedBy(u, k.source) ELSE Len(k.target) = 3

(* A name is registered for a project under its plain identifier or one    *)
(* its locks resolve; a name the project locks is registered, locked.      *)
Registers(u) ==
    \A x \in DOMAIN u.index.scoped :
        \/ u.index.scoped[x] = <<"package", x[2], x[3]>>
        \/ u.index.scoped[x] \in LockedBy(u, ProjectId(x[1]))
LocksRegister(u) ==
    \A k \in Locks(u) :
        LET x == <<k.source[2], k.target[2], k.target[3]>>
        IN  /\ k.source = ProjectId(k.source[2]) /\ Len(k.target) = 4
            /\ x \in DOMAIN u.index.scoped
            /\ u.index.scoped[x] \in LockedBy(u, k.source)
Honest(u) == Registers(u) /\ LocksRegister(u) /\ \A k \in Declares(u) : Meets(u, k)

(* Steps that declare for a project, and steps that lock for one.          *)
Declaring(u, d, p) ==
    /\ Sound(d) /\ Nodes(u) \subseteq Nodes(d)
    /\ \A k \in Declares(d) : k \in Declares(u) \/ k.source = ProjectId(p)
    /\ Honest(u) => Honest(d)
Undeclared(u, p) == \A k \in Declares(u) : k.source # ProjectId(p)
Locking(u, d, p) ==
    /\ Sound(d) /\ Nodes(u) \subseteq Nodes(d) /\ Declares(d) = Declares(u)
    /\ Honest(u) /\ Undeclared(u, p) => Honest(d)

(* A quiet step may stand among those that declare and among those that    *)
(* lock.                                                                   *)
LEMMA QuietIsEither ==
  ASSUME NEW u, NEW d, Quiet(u, d), NEW p PROVE Declaring(u, d, p) /\ Locking(u, d, p)
BY DEF Quiet, Declaring, Locking, Honest, Registers, LocksRegister, Meets, LockedBy

(* Declaring composes.                                                     *)
LEMMA DeclaringIsTransitive ==
  ASSUME NEW a, NEW b, NEW u, NEW p, Declaring(a, b, p), Declaring(b, u, p)
  PROVE  Declaring(a, u, p)
BY DEF Declaring

(* Locking composes.                                                       *)
LEMMA LockingIsTransitive ==
  ASSUME NEW a, NEW b, NEW u, NEW p, Locking(a, b, p), Locking(b, u, p)
  PROVE  Locking(a, u, p)
BY DEF Locking, Undeclared

(* Register enters one key of the index, and makes one identity the newest *)
(* of its name.                                                            *)
LEMMA RegisterAdds ==
  ASSUME NEW u, Shaped(u), NEW project, NEW eco, NEW name, NEW id
  PROVE  LET d == Register(u, project, eco, name, id)
             x == <<project, eco, Normalize(eco, name)>>
         IN  /\ Shaped(d) /\ d.graph = u.graph
             /\ d.index.scoped = Put(u.index.scoped, x, id)
             /\ \A y \in DOMAIN d.index.packages :
                    \/ d.index.packages[y] = id
                    \/ y \in DOMAIN u.index.packages
                          /\ d.index.packages[y] = u.index.packages[y]
<1> DEFINE x == <<project, eco, Normalize(eco, name)>>
           y == <<eco, Normalize(eco, name)>>
           packages == IF y \in DOMAIN u.index.packages THEN u.index.packages
                       ELSE Put(u.index.packages, y, id)
           d == Register(u, project, eco, name, id)
<1>1. d = [u EXCEPT !.index.scoped = Put(@, x, id), !.index.packages = packages]
  BY DEF Register
<1>2. \A z \in DOMAIN packages :
         packages[z] = id \/ (z \in DOMAIN u.index.packages /\ packages[z] = u.index.packages[z])
  BY DEF Put
<1> HIDE DEF packages, x
<1>3. Shaped(d) /\ d.graph = u.graph /\ d.index.scoped = Put(u.index.scoped, x, id)
      /\ d.index.packages = packages
  BY <1>1 DEF Shaped
<1> QED
  BY <1>2, <1>3 DEF x

(* An edge of a package that is registered with it.                        *)
Entry(u, m, eco, name, id, n, key) ==
    Register([u EXCEPT !.graph = AddEdge(AddNode(@, id, n), key, FALSE)],
             m.project, eco, name, id)
(* A package that is added, drawn to from its project and entered in the   *)
(* index, whichever kind of edge draws it.                                 *)
LEMMA Entered ==
  ASSUME NEW u, Sound(u), NEW m, ProjectId(m.project) \in Nodes(u),
         NEW eco, NEW name, NEW id, NEW n, NEW key,
         key.source = ProjectId(m.project), key.target = id
  PROVE  LET d == Entry(u, m, eco, name, id, n, key)
             x == <<m.project, eco, Normalize(eco, name)>>
         IN  /\ Sound(d) /\ Nodes(u) \subseteq Nodes(d)
             /\ Edges(d) = {key} \cup Edges(u)
             /\ d.index.scoped = Put(u.index.scoped, x, id)
<1> DEFINE g == AddNode(u.graph, id, n)
           h == AddEdge(g, key, FALSE)
           e == [u EXCEPT !.graph = h]
           d == Register(e, m.project, eco, name, id)
           x == <<m.project, eco, Normalize(eco, name)>>
<1>1. /\ DOMAIN u = {"graph", "index"} /\ DOMAIN u.graph = {"nodes", "edges", "unknowns"}
      /\ Shaped(u)
  BY DEF Sound, Shaped
<1>2. DOMAIN g = DOMAIN u.graph /\ g.edges = u.graph.edges
        /\ DOMAIN g.nodes = {id} \cup DOMAIN u.graph.nodes
  BY <1>1, NodeAdded
<1> HIDE DEF g
<1>3. DOMAIN h = DOMAIN u.graph /\ h.nodes = g.nodes
        /\ DOMAIN h.edges = {key} \cup DOMAIN u.graph.edges
  <2>1. DOMAIN g = {"nodes", "edges", "unknowns"}
    BY <1>1, <1>2
  <2>2. \A w : /\ DOMAIN AddEdge(g, key, w) = DOMAIN g /\ AddEdge(g, key, w).nodes = g.nodes
                /\ DOMAIN AddEdge(g, key, w).edges = {key} \cup DOMAIN g.edges
    BY <2>1, EdgeAdded
  <2>3. /\ DOMAIN h = DOMAIN g /\ h.nodes = g.nodes
                /\ DOMAIN h.edges = {key} \cup DOMAIN g.edges
    BY <2>2
  <2> QED
    BY <1>2, <2>3
<1> HIDE DEF h
<1>4. Shaped(e) /\ e.graph = h /\ e.index = u.index
  BY <1>1, <1>3 DEF Shaped
<1> HIDE DEF e
<1>5. /\ Shaped(d) /\ d.graph = h /\ d.index.scoped = Put(u.index.scoped, x, id)
      /\ \A y \in DOMAIN d.index.packages :
             \/ d.index.packages[y] = id
             \/ y \in DOMAIN u.index.packages /\ d.index.packages[y] = u.index.packages[y]
  BY <1>4, RegisterAdds
<1> HIDE DEF d, x
<1>6. /\ Nodes(d) = {id} \cup Nodes(u) /\ Edges(d) = {key} \cup Edges(u)
  BY <1>2, <1>3, <1>5 DEF Nodes, Edges
<1>7. Integrity(d.graph)
  BY <1>6 DEF Sound, Integrity, Nodes, Edges
<1>8. Filed(d)
  BY <1>5, <1>6 DEF Sound, Filed, Put
<1>9. IsFiniteSet(Edges(d))
  BY <1>6, OneMoreEdge DEF Sound
<1> QED
  BY <1>5, <1>6, <1>7, <1>8, <1>9 DEF Sound, Entry, d, x, e, h, g

(* A declared dependency is drawn to the identity the index holds for this *)
(* project and name, if any, which is the one it locks.                    *)
LEMMA PackageIsDeclared ==
  ASSUME NEW u, Sound(u), NEW m, ProjectId(m.project) \in Nodes(u), NEW eco, NEW dep
  PROVE  Declaring(u, AddPackage(u, m, eco, dep), m.project)
<1> DEFINE P == m.project
           plain == Normalize(eco, dep.name)
           x == <<P, eco, plain>>
           id == The(Package(u.index, P, eco, dep.name), <<"package", eco, plain>>)
           node == [Blank EXCEPT !.group = <<eco>>, !.notes =
                       {<<"declaredBy", P>>, <<"declaredVersions", dep.version>>}]
           key == Key(ProjectId(P), id, "declares", "package", eco)
           d == AddPackage(u, m, eco, dep)
<1>1. d = Entry(u, m, eco, dep.name, id, node, key)
  BY DEF AddPackage, Entry
<1>1a. /\ key.source = ProjectId(P) /\ key.target = id
       /\ key.kind = "declares" /\ key.scope = "package"
  BY DEF Key
<1>2. id = IF x \in DOMAIN u.index.scoped THEN u.index.scoped[x] ELSE <<"package", eco, plain>>
  <2>1. Package(u.index, P, eco, dep.name) =
          IF x \in DOMAIN u.index.scoped THEN {u.index.scoped[x]} ELSE {}
    BY DEF Package, Registered
  <2> QED
    BY <2>1 DEF The
<1> HIDE DEF id, node, key, d
<1>3. /\ Sound(d) /\ Nodes(u) \subseteq Nodes(d) /\ Edges(d) = {key} \cup Edges(u)
      /\ d.index.scoped = Put(u.index.scoped, x, id)
      /\ key.source = ProjectId(P) /\ key.target = id
      /\ key.kind = "declares" /\ key.scope = "package"
  BY <1>1, <1>1a, Entered
<1>4. Declares(d) = {key} \cup Declares(u) /\ Locks(d) = Locks(u)
  BY <1>3 DEF Declares, Locks
<1>5. ASSUME Honest(u) PROVE Honest(d)
  <2>1. \A s : LockedBy(d, s) = LockedBy(u, s)
    BY <1>4 DEF LockedBy
  <2>2. id = <<"package", eco, plain>> \/ id \in LockedBy(u, ProjectId(P))
    BY <1>2, <1>5 DEF Honest, Registers
  <2>3. Registers(d)
    BY <1>2, <1>3, <1>5, <2>1, <2>2 DEF Honest, Registers, Put
  <2>4. x \in DOMAIN u.index.scoped => id = u.index.scoped[x]
    BY <1>2
  <2>5. LocksRegister(d)
    BY <1>3, <1>4, <1>5, <2>1, <2>4 DEF Honest, LocksRegister, Put
  <2>6. Meets(d, key)
    <3>1. CASE id \in LockedBy(u, ProjectId(P))
      BY <1>3, <2>1, <3>1 DEF Meets
    <3>2. CASE id = <<"package", eco, plain>> /\ id \notin LockedBy(u, ProjectId(P))
      <4>1. ASSUME NEW l \in LockedBy(u, ProjectId(P)), Eco(l) = Eco(id) PROVE FALSE
        <5>1. PICK k \in Locks(u) : k.source = ProjectId(P) /\ k.target = l
          BY <4>1 DEF LockedBy
        <5>2. k.target[2] = eco /\ k.target[3] = plain /\ k.source[2] = P
          BY <3>2, <4>1, <5>1 DEF Eco, ProjectId
        <5>3. x \in DOMAIN u.index.scoped /\ u.index.scoped[x] \in LockedBy(u, ProjectId(P))
          BY <1>5, <5>1, <5>2 DEF Honest, LocksRegister
        <5> QED
          BY <2>4, <3>2, <5>3
      <4>2. Len(id) = 3
        BY <3>2
      <4> QED
        BY <1>3, <2>1, <4>1, <4>2 DEF Meets
    <3> QED
      BY <2>2, <3>1, <3>2
  <2>7. \A k \in Declares(u) : Meets(d, k)
    BY <1>5, <2>1 DEF Honest, Meets
  <2> QED
    BY <1>4, <2>3, <2>5, <2>6, <2>7 DEF Honest
<1>6. Declaring(u, d, P)
  BY <1>3, <1>4, <1>5 DEF Declaring
<1> QED
  BY <1>6 DEF d

(* A resolved dependency is drawn and becomes the one of its name, which   *)
(* spoils no declaration while the project has made none.                  *)
LEMMA DirectIsLocked ==
  ASSUME NEW u, Sound(u), NEW m, ProjectId(m.project) \in Nodes(u),
         NEW eco, NEW resolver, NEW e, Resolved(eco, e) \in Nodes(u)
  PROVE  Locking(u, Direct(u, m, eco, resolver, e), m.project)
<1> DEFINE P == m.project
           plain == Normalize(eco, e.name)
           x == <<P, eco, plain>>
           id == Resolved(eco, e)
           key == Key(ProjectId(P), id, "resolved-dependency", "package", resolver)
           h == AddEdge(u.graph, key, FALSE)
           w == [u EXCEPT !.graph = h]
           d == Direct(u, m, eco, resolver, e)
<1>1. d = Register(w, P, eco, e.name, id)
  BY DEF Direct
<1>2. /\ key.source = ProjectId(P) /\ key.target = id
      /\ key.kind = "resolved-dependency" /\ key.scope = "package"
  BY DEF Key
<1>3. id = <<"package", eco, plain, e.version>>
  BY DEF Resolved
<1>4. /\ DOMAIN u = {"graph", "index"} /\ DOMAIN u.graph = {"nodes", "edges", "unknowns"}
      /\ Shaped(u)
  BY DEF Sound, Shaped
<1> HIDE DEF key, id
<1>5. /\ DOMAIN h = DOMAIN u.graph /\ h.nodes = u.graph.nodes
      /\ DOMAIN h.edges = {key} \cup DOMAIN u.graph.edges
  <2>1. \A z : /\ DOMAIN AddEdge(u.graph, key, z) = DOMAIN u.graph
               /\ AddEdge(u.graph, key, z).nodes = u.graph.nodes
               /\ DOMAIN AddEdge(u.graph, key, z).edges = {key} \cup DOMAIN u.graph.edges
    BY <1>4, EdgeAdded
  <2> QED
    BY <2>1
<1> HIDE DEF h
<1>6. Shaped(w) /\ w.graph = h /\ w.index = u.index
  BY <1>4, <1>5 DEF Shaped
<1> HIDE DEF w, d
<1>7. /\ Shaped(d) /\ d.graph = h /\ d.index.scoped = Put(u.index.scoped, x, id)
      /\ \A y \in DOMAIN d.index.packages :
             \/ d.index.packages[y] = id
             \/ y \in DOMAIN u.index.packages /\ d.index.packages[y] = u.index.packages[y]
  BY <1>1, <1>6, RegisterAdds
<1> HIDE DEF x
<1>8. Nodes(d) = Nodes(u) /\ Edges(d) = {key} \cup Edges(u) /\ id \in Nodes(u)
  BY <1>5, <1>7 DEF Nodes, Edges, id
<1>9. Sound(d)
  <2>1. Integrity(d.graph)
    BY <1>2, <1>8 DEF Sound, Integrity, Nodes, Edges
  <2>2. Filed(d)
    BY <1>7, <1>8 DEF Sound, Filed, Put
  <2>3. IsFiniteSet(Edges(d))
    BY <1>8, OneMoreEdge DEF Sound
  <2> QED
    BY <1>7, <2>1, <2>2, <2>3 DEF Sound
<1>10. Declares(d) = Declares(u) /\ Locks(d) = {key} \cup Locks(u)
  BY <1>2, <1>8 DEF Declares, Locks
<1>11. ASSUME Honest(u), Undeclared(u, P) PROVE Honest(d)
  <2>1. \A s : LockedBy(u, s) \subseteq LockedBy(d, s)
    BY <1>10 DEF LockedBy
  <2>2. id \in LockedBy(d, ProjectId(P))
    BY <1>2, <1>10 DEF LockedBy
  <2>3. \A s : s # ProjectId(P) => LockedBy(d, s) = LockedBy(u, s)
    BY <1>2, <1>10 DEF LockedBy
  <2>4. x[1] = P
    BY DEF x
  <2>5. Registers(d)
    BY <1>7, <1>11, <2>1, <2>2, <2>4 DEF Honest, Registers, Put
  <2>6. LocksRegister(d)
    <3>1. /\ key.source[2] = P /\ key.target[2] = eco /\ key.target[3] = plain
          /\ Len(key.target) = 4
      BY <1>2, <1>3 DEF ProjectId
    <3>2. ASSUME NEW k \in Locks(d)
          PROVE  LET z == <<k.source[2], k.target[2], k.target[3]>>
                 IN  /\ k.source = ProjectId(k.source[2]) /\ Len(k.target) = 4
                     /\ z \in DOMAIN d.index.scoped
                     /\ d.index.scoped[z] \in LockedBy(d, k.source)
      <4>1. CASE k = key
        BY <1>2, <1>7, <2>2, <3>1, <4>1 DEF Put, x
      <4>2. CASE k \in Locks(u)
        <5> DEFINE z == <<k.source[2], k.target[2], k.target[3]>>
        <5>1. /\ k.source = ProjectId(k.source[2]) /\ Len(k.target) = 4
              /\ z \in DOMAIN u.index.scoped
              /\ u.index.scoped[z] \in LockedBy(u, k.source)
          BY <1>11, <4>2 DEF Honest, LocksRegister
        <5>2. z = x => k.source = ProjectId(P)
          BY <5>1 DEF x
        <5> HIDE DEF z
        <5>3. z \in DOMAIN d.index.scoped /\ d.index.scoped[z] \in LockedBy(d, k.source)
          BY <1>7, <2>1, <2>2, <5>1, <5>2 DEF Put
        <5> QED
          BY <5>1, <5>3 DEF z
      <4> QED
        BY <1>10, <4>1, <4>2
    <3> QED
      BY <3>2 DEF LocksRegister
  <2>7. \A k \in Declares(d) : Meets(d, k)
    BY <1>10, <1>11, <2>3 DEF Honest, Undeclared, Meets
  <2> QED
    BY <2>5, <2>6, <2>7 DEF Honest
<1>12. Locking(u, d, P)
  BY <1>8, <1>9, <1>10, <1>11 DEF Locking
<1> QED
  BY <1>12 DEF d

(* Doing nothing declares and locks.                                       *)
LEMMA NothingDeclared ==
  ASSUME NEW u, Sound(u), NEW p PROVE Declaring(u, u, p) /\ Locking(u, u, p)
BY IndexIsQuiet, QuietIsEither

-----------------------------------------------------------------------------
(* The manifests that declare.                                             *)
DeclareLaw == INSTANCE FoldLaws WITH
    Pick <- LAMBDA t : Max(t),
    Op <- LAMBDA p, q, r, s, i, v : IF s[i].name = None THEN v ELSE AddPackage(v, p, q, s[i]),
    Inv <- LAMBDA p, q, r, s, b, t, v : Declaring(b, v, p.project)

(* A list of declared dependencies.                                        *)
LEMMA DeclareDeclares ==
  ASSUME NEW u, Sound(u), NEW m, ProjectId(m.project) \in Nodes(u), NEW eco, NEW deps, Listed(deps)
  PROVE  Declaring(u, Declare(u, m, eco, deps), m.project)
<1>1. Declare(u, m, eco, deps) = DeclareLaw!Fold(m, eco, 0, deps, u, DOMAIN deps)
  BY DEF Declare, FoldLeft, MapThenFoldSet, DeclareLaw!Fold
<1>2. \A i \in DOMAIN deps : \A t \in SUBSET DOMAIN deps : \A v :
          Declaring(u, v, m.project) =>
              Declaring(u, IF deps[i].name = None THEN v ELSE AddPackage(v, m, eco, deps[i]),
                        m.project)
  <2>1. ASSUME NEW v, NEW dep, Declaring(u, v, m.project)
        PROVE  Declaring(u, AddPackage(v, m, eco, dep), m.project)
    <3>1. Sound(v) /\ ProjectId(m.project) \in Nodes(v)
      BY <2>1 DEF Declaring
    <3>2. Declaring(v, AddPackage(v, m, eco, dep), m.project)
      BY <3>1, PackageIsDeclared
    <3> QED
      BY <2>1, <3>2, DeclaringIsTransitive
  <2> QED
    BY <2>1
<1>3. Declaring(u, u, m.project)
  BY NothingDeclared
<1>4. Dwindles(DOMAIN deps) /\ \A t \in SUBSET DOMAIN deps : t # {} => Max(t) \in t
  BY ListsFold
<1>5. Declaring(u, DeclareLaw!Fold(m, eco, 0, deps, u, DOMAIN deps), m.project)
  BY <1>2, <1>3, <1>4, DeclareLaw!FoldKeeps DEF Dwindles
<1> QED
  BY <1>1, <1>5

PyprojectLaw == INSTANCE FoldLaws WITH
    Pick <- LAMBDA t : Max(t),
    Op <- LAMBDA p, q, r, s, i, v :
              IF s[i].name = None THEN Unknown(v, "manifest.pep508-unsupported", p)
              ELSE AddPackage(v, p, "pypi", s[i]),
    Inv <- LAMBDA p, q, r, s, b, t, v : Declaring(b, v, p.project)

(* pyproject.toml, one list after the other.                               *)
LEMMA PyprojectDeclares ==
  ASSUME NEW u, Sound(u), NEW m, ProjectId(m.project) \in Nodes(u), Listed(m.deps)
  PROVE  Declaring(u, Pyproject(u, m), m.project)
<1> DEFINE deps == m.deps
           read == FoldLeft(LAMBDA d, dep :
                 IF dep.name = None THEN Unknown(d, "manifest.pep508-unsupported", m)
                 ELSE AddPackage(d, m, "pypi", dep), u, m.deps)
<1>1. read = PyprojectLaw!Fold(m, 0, 0, deps, u, DOMAIN deps)
  BY DEF FoldLeft, MapThenFoldSet, PyprojectLaw!Fold
<1>2. \A i \in DOMAIN deps : \A t \in SUBSET DOMAIN deps : \A v :
          Declaring(u, v, m.project) =>
              Declaring(u, IF deps[i].name = None
                           THEN Unknown(v, "manifest.pep508-unsupported", m)
                           ELSE AddPackage(v, m, "pypi", deps[i]), m.project)
  <2>1. ASSUME NEW v, NEW dep, Declaring(u, v, m.project)
        PROVE  /\ Declaring(u, AddPackage(v, m, "pypi", dep), m.project)
               /\ Declaring(u, Unknown(v, "manifest.pep508-unsupported", m), m.project)
    <3>1. Sound(v) /\ ProjectId(m.project) \in Nodes(v)
      BY <2>1 DEF Declaring
    <3>2. Declaring(v, AddPackage(v, m, "pypi", dep), m.project)
      BY <3>1, PackageIsDeclared
    <3>3. Declaring(v, Unknown(v, "manifest.pep508-unsupported", m), m.project)
      BY <3>1, UnknownIsQuiet, QuietIsEither DEF Unknown
    <3> QED
      BY <2>1, <3>2, <3>3, DeclaringIsTransitive
  <2> QED
    BY <2>1
<1>3. Declaring(u, u, m.project)
  BY NothingDeclared
<1>4. Dwindles(DOMAIN deps) /\ \A t \in SUBSET DOMAIN deps : t # {} => Max(t) \in t
  BY ListsFold
<1>5. Declaring(u, PyprojectLaw!Fold(m, 0, 0, deps, u, DOMAIN deps), m.project)
  BY <1>2, <1>3, <1>4, PyprojectLaw!FoldKeeps DEF Dwindles
<1>6. \A v, x : Declaring(u, v, m.project) =>
          Declaring(u, [v EXCEPT !.index.projectLicenses = x], m.project)
  <2>1. ASSUME NEW v, NEW x, Declaring(u, v, m.project)
        PROVE  Declaring(u, [v EXCEPT !.index.projectLicenses = x], m.project)
    <3> DEFINE w == [v EXCEPT !.index.projectLicenses = x]
    <3>1. Sound(v)
      BY <2>1 DEF Declaring
    <3>2. Quiet(v, w)
      BY <3>1, IndexIsQuiet
    <3> HIDE DEF w
    <3>3. Declaring(v, w, m.project)
      BY <3>2, QuietIsEither
    <3>4. Declaring(u, w, m.project)
      BY <2>1, <3>3, DeclaringIsTransitive
    <3> QED
      BY <3>4 DEF w
  <2> QED
    BY <2>1
<1>7. Pyproject(u, m) = IF ~m.table THEN u
        ELSE [read EXCEPT !.index.projectLicenses =
                 @ \cup {<<l, m.path>> : l \in {m.license} \ {None}}]
  BY DEF Pyproject
<1> HIDE DEF read
<1> QED
  BY <1>1, <1>3, <1>5, <1>6, <1>7

(* go.mod.                                                                 *)
LEMMA GoModDeclares ==
  ASSUME NEW u, Sound(u), NEW m, ProjectId(m.project) \in Nodes(u), Listed(m.deps)
  PROVE  Declaring(u, GoMod(u, m), m.project)
<1> DEFINE named == IF m.module = None THEN u
                    ELSE [u EXCEPT !.index.go =
                             Put(@, m.project, [module |-> m.module, path |-> m.path])]
           read == Declare(named, m, "go", m.deps)
<1>1. Quiet(u, named)
  BY IndexIsQuiet
<1>2. GoMod(u, m) = IF m.module = None THEN Unknown(read, "manifest.go-module-missing", m)
                    ELSE read
  BY DEF GoMod
<1> HIDE DEF named
<1>3. Sound(named) /\ ProjectId(m.project) \in Nodes(named) /\ Declaring(u, named, m.project)
  BY <1>1, QuietIsEither DEF Quiet
<1>4. Declaring(named, read, m.project)
  BY <1>3, DeclareDeclares
<1> HIDE DEF read
<1>5. Declaring(u, read, m.project)
  BY <1>3, <1>4, DeclaringIsTransitive
<1>6. Declaring(read, Unknown(read, "manifest.go-module-missing", m), m.project)
  BY <1>5, UnknownIsQuiet, QuietIsEither DEF Declaring, Unknown
<1> QED
  BY <1>2, <1>5, <1>6, DeclaringIsTransitive

(* package.json.                                                           *)
LEMMA PackageJsonDeclares ==
  ASSUME NEW u, Sound(u), NEW m, ProjectId(m.project) \in Nodes(u), Listed(m.deps)
  PROVE  Declaring(u, PackageJson(u, m), m.project)
<1> DEFINE noted == Annotate(u, m.project, m.notes)
           aliased == IF m.imports = <<>> THEN noted
                      ELSE [noted EXCEPT !.index.imports = Put(@, m.project, m.imports)]
<1>1. Quiet(u, noted)
  BY Annotated
<1>2. PackageJson(u, m) = Declare(aliased, m, "npm", m.deps)
  BY DEF PackageJson
<1> HIDE DEF noted
<1>3. Quiet(u, aliased)
  <2>1. Sound(noted)
    BY <1>1 DEF Quiet
  <2>2. Quiet(noted, aliased)
    BY <2>1, IndexIsQuiet
  <2> QED
    BY <1>1, <2>2, QuietIsTransitive
<1> HIDE DEF aliased
<1>4. Sound(aliased) /\ ProjectId(m.project) \in Nodes(aliased) /\ Declaring(u, aliased, m.project)
  BY <1>3, QuietIsEither DEF Quiet
<1> QED
  BY <1>2, <1>4, DeclareDeclares, DeclaringIsTransitive

-----------------------------------------------------------------------------
(* The manifests that configure.                                           *)
LEMMA Unknowns ==
  ASSUME NEW u, Sound(u), NEW code, NEW m PROVE Quiet(u, Unknown(u, code, m))
BY UnknownIsQuiet DEF Unknown

(* tsconfig.json maps paths and draws nothing.                             *)
LEMMA TypescriptIsQuiet ==
  ASSUME NEW u, Sound(u), NEW m PROVE Quiet(u, TypescriptConfig(u, m))
<1> DEFINE placed == [u EXCEPT !.index.paths = Put(@, m.project, m.imports)]
<1>1. Quiet(u, placed)
  BY IndexIsQuiet
<1>2. TypescriptConfig(u, m) = IF m.escapes THEN ParseError(u, m)
                               ELSE Annotate(placed, m.project, m.notes)
  BY DEF TypescriptConfig
<1> HIDE DEF placed
<1>3. Quiet(placed, Annotate(placed, m.project, m.notes))
  BY <1>1, Annotated DEF Quiet
<1>4. Quiet(u, ParseError(u, m))
  BY Unknowns DEF ParseError
<1> QED
  BY <1>1, <1>2, <1>3, <1>4, QuietIsTransitive

CentralLaw == INSTANCE FoldLaws WITH
    Pick <- LAMBDA t : Max(t),
    Op <- LAMBDA p, q, r, s, i, v :
              IF None \in {s[i].name, s[i].version} THEN v
              ELSE [v EXCEPT !.index.central =
                       Put(@, <<p.project, Normalize("nuget", s[i].name)>>, s[i].version)],
    Inv <- LAMBDA p, q, r, s, b, t, v : Quiet(b, v)

(* Directory.Packages.props sets versions and draws nothing.               *)
LEMMA CentralIsQuiet ==
  ASSUME NEW u, Sound(u), NEW m, Listed(m.deps) PROVE Quiet(u, DirectoryPackagesProps(u, m))
<1> DEFINE deps == m.deps
           read == FoldLeft(LAMBDA d, dep :
                 IF None \in {dep.name, dep.version} THEN d
                 ELSE [d EXCEPT !.index.central =
                          Put(@, <<m.project, Normalize("nuget", dep.name)>>, dep.version)],
                 u, m.deps)
<1>1. read = CentralLaw!Fold(m, 0, 0, deps, u, DOMAIN deps)
  BY DEF FoldLeft, MapThenFoldSet, CentralLaw!Fold
<1>2. \A i \in DOMAIN deps : \A t \in SUBSET DOMAIN deps : \A v :
          Quiet(u, v) =>
              Quiet(u, IF None \in {deps[i].name, deps[i].version} THEN v
                       ELSE [v EXCEPT !.index.central =
                                Put(@, <<m.project, Normalize("nuget", deps[i].name)>>,
                                    deps[i].version)])
  <2>1. ASSUME NEW v, NEW x, Quiet(u, v)
        PROVE  Quiet(u, [v EXCEPT !.index.central = x])
    <3>1. Sound(v)
      BY <2>1 DEF Quiet
    <3>2. Quiet(v, [v EXCEPT !.index.central = x])
      BY <3>1, IndexIsQuiet
    <3> QED
      BY <2>1, <3>2, QuietIsTransitive
  <2> QED
    BY <2>1
<1>3. Quiet(u, u)
  BY IndexIsQuiet
<1>4. Dwindles(DOMAIN deps) /\ \A t \in SUBSET DOMAIN deps : t # {} => Max(t) \in t
  BY ListsFold
<1>5. Quiet(u, CentralLaw!Fold(m, 0, 0, deps, u, DOMAIN deps))
  BY <1>2, <1>3, <1>4, CentralLaw!FoldKeeps DEF Dwindles
<1>6. DirectoryPackagesProps(u, m) = Annotate(read, m.project, m.notes)
  BY DEF DirectoryPackagesProps
<1> HIDE DEF read
<1>7. Quiet(u, read)
  BY <1>1, <1>5
<1>8. Quiet(read, Annotate(read, m.project, m.notes))
  BY <1>7, Annotated DEF Quiet
<1> QED
  BY <1>6, <1>7, <1>8, QuietIsTransitive

-----------------------------------------------------------------------------
(* The lock files.                                                         *)
LEMMA ResolvedIsQuiet ==
  ASSUME NEW u, Sound(u), NEW m, NEW eco, NEW e
  PROVE  Quiet(u, ResolvedNode(u, m, eco, e)) /\ Resolved(eco, e) \in Nodes(ResolvedNode(u, m, eco, e))
<1> DEFINE n == [Blank EXCEPT !.group = <<eco>>, !.version = e.version, !.notes =
                    {<<"resolvedBy", m.path>>, <<"resolvedVersions", e.version>>}]
<1>1. ResolvedNode(u, m, eco, e) = [u EXCEPT !.graph = AddNode(@, Resolved(eco, e), n)]
  BY DEF ResolvedNode
<1> HIDE DEF n
<1> QED
  BY <1>1, NodeIsQuiet

(* Edges between nodes, finitely many, that neither declare nor lock.      *)
Linked(g, h) ==
    /\ DOMAIN h = DOMAIN g /\ h.nodes = g.nodes
    /\ IsFiniteSet(DOMAIN g.edges) => IsFiniteSet(DOMAIN h.edges)
    /\ DOMAIN g.edges \subseteq DOMAIN h.edges
    /\ \A k \in DOMAIN h.edges :
           \/ k \in DOMAIN g.edges
           \/ {k.source, k.target} \subseteq DOMAIN g.nodes /\ k.kind = "depends-on"

(* More edges between nodes that are there.                                *)
LEMMA LinkedIsQuiet ==
  ASSUME NEW u, Sound(u), NEW h, Linked(u.graph, h) PROVE Quiet(u, [u EXCEPT !.graph = h])
<1> DEFINE d == [u EXCEPT !.graph = h]
<1>1. d.index = u.index /\ d.graph = h /\ Shaped(d)
  BY DEF Linked, Sound, Shaped
<1> HIDE DEF d
<1>2. Nodes(d) = Nodes(u)
  BY <1>1 DEF Linked, Nodes
<1>3. Declares(d) = Declares(u) /\ Locks(d) = Locks(u)
  BY <1>1 DEF Linked, Declares, Locks, Edges
<1>4. Integrity(d.graph)
  BY <1>1 DEF Linked, Sound, Integrity
<1>5. Filed(d)
  BY <1>1, <1>2 DEF Sound, Filed
<1>6. IsFiniteSet(Edges(d))
  BY <1>1 DEF Linked, Sound, Edges
<1>7. Quiet(u, d)
  BY <1>1, <1>2, <1>3, <1>4, <1>5, <1>6 DEF Quiet, Sound
<1> QED
  BY <1>7 DEF d

DependsLaw == INSTANCE FoldLaws WITH
    Pick <- LAMBDA t : CHOOSE x \in t : TRUE,
    Op <- LAMBDA p, q, r, s, l, v :
              AddEdge(v, Key(Resolved(p, l[1]), Resolved(p, l[2]), "depends-on", "package", q),
                      FALSE),
    Inv <- LAMBDA p, q, r, s, b, t, v : Linked(b, v)

(* The edges between the packages of a lock file: each end is one of its   *)
(* entries, which are nodes by then.                                       *)
LEMMA DependsIsQuiet ==
  ASSUME NEW u, Sound(u), NEW eco, NEW resolver, NEW entries, Listed(entries), NEW links,
         \A l \in links : l[2] # None =>
             l \in Range(entries) \X Range(entries),
         \A e \in Range(entries) : Resolved(eco, e) \in Nodes(u)
  PROVE  Quiet(u, DependsOn(u, eco, resolver, links))
<1> DEFINE S == {l \in links : l[2] # None}
           g == u.graph
           h == FoldSet(LAMBDA l, f : AddEdge(f, Key(Resolved(eco, l[1]), Resolved(eco, l[2]),
                                             "depends-on", "package", resolver), FALSE), g, S)
<1>1. DOMAIN g = {"nodes", "edges", "unknowns"}
  BY DEF Sound, Shaped
<1>2. IsFiniteSet(S)
  <2>1. IsFiniteSet(Range(entries))
    <3>1. IsFiniteSet(DOMAIN entries)
      BY ListsFold, FS_Interval
    <3>2. entries \in Surjection(DOMAIN entries, Range(entries))
      BY DEF Listed, Range, Surjection
    <3> QED
      BY <3>1, <3>2, FS_Surjection
  <2>2. IsFiniteSet(Range(entries) \X Range(entries))
    BY <2>1, FS_Product
  <2>3. S \subseteq Range(entries) \X Range(entries)
    OBVIOUS
  <2> QED
    BY <2>2, <2>3, FS_Subset
<1>3. \A l \in S : Resolved(eco, l[1]) \in DOMAIN g.nodes /\ Resolved(eco, l[2]) \in DOMAIN g.nodes
  <2>1. \A l \in S : l[1] \in Range(entries) /\ l[2] \in Range(entries)
    OBVIOUS
  <2> QED
    BY <2>1 DEF Nodes
<1> HIDE DEF g
<1>4. h = DependsLaw!Fold(eco, resolver, 0, 0, g, S)
  BY DEF FoldSet, MapThenFoldSet, DependsLaw!Fold
<1> HIDE DEF S
<1>5. \A l \in S : \A t \in SUBSET S : \A v :
          Linked(g, v) =>
              Linked(g, AddEdge(v, Key(Resolved(eco, l[1]), Resolved(eco, l[2]), "depends-on",
                                       "package", resolver), FALSE))
  <2>1. ASSUME NEW l \in S, NEW v, Linked(g, v), NEW z
        PROVE  Linked(g, AddEdge(v, Key(Resolved(eco, l[1]), Resolved(eco, l[2]), "depends-on",
                                        "package", resolver), z))
    <3> DEFINE k == Key(Resolved(eco, l[1]), Resolved(eco, l[2]), "depends-on", "package", resolver)
    <3>1. k.source = Resolved(eco, l[1]) /\ k.target = Resolved(eco, l[2]) /\ k.kind = "depends-on"
      BY DEF Key
    <3> HIDE DEF k
    <3>2. /\ DOMAIN AddEdge(v, k, z) = DOMAIN v /\ AddEdge(v, k, z).nodes = v.nodes
          /\ DOMAIN AddEdge(v, k, z).edges = {k} \cup DOMAIN v.edges
      BY <1>1, <2>1, EdgeAdded DEF Linked
    <3>3. IsFiniteSet(DOMAIN g.edges) => IsFiniteSet(DOMAIN AddEdge(v, k, z).edges)
      BY <2>1, <3>2, OneMoreEdge DEF Linked
    <3>4. Linked(g, AddEdge(v, k, z))
      BY <1>3, <2>1, <3>1, <3>2, <3>3 DEF Linked
    <3> QED
      BY <3>4 DEF k
  <2> QED
    BY <2>1
<1>6. Linked(g, g)
  BY DEF Linked
<1>7. Dwindles(S) /\ \A t \in SUBSET S : t # {} => (CHOOSE x \in t : TRUE) \in t
  BY <1>2, SetsFold
<1>8. Linked(g, DependsLaw!Fold(eco, resolver, 0, 0, g, S))
  BY <1>5, <1>6, <1>7, DependsLaw!FoldKeeps DEF Dwindles
<1>9. DependsOn(u, eco, resolver, links) = [u EXCEPT !.graph = h]
  BY DEF DependsOn, S, g
<1> HIDE DEF h
<1> QED
  BY <1>4, <1>8, <1>9, LinkedIsQuiet DEF g

NpmNodesLaw == INSTANCE FoldLaws WITH
    Pick <- LAMBDA t : Max(t),
    Op <- LAMBDA p, q, r, s, i, v : ResolvedNode(v, p, "npm", s[i]),
    Inv <- LAMBDA p, q, r, s, b, t, v :
               Quiet(b, v) /\ \A k \in t : Resolved("npm", s[k]) \in Nodes(v)
NpmRootsLaw == INSTANCE FoldLaws WITH
    Pick <- LAMBDA t : Max(t),
    Op <- LAMBDA p, q, r, s, i, v :
              LET e == NpmLockTarget(q, <<>>, s[i])
              IN  IF e = None THEN v ELSE Direct(v, p, "npm", "npm-lock", e),
    Inv <- LAMBDA p, q, r, s, b, t, v : Locking(b, v, p.project)

(* The node_modules rule finds an entry of the lock file or none.          *)
LEMMA TargetIsEntry ==
  ASSUME NEW entries, NEW from, NEW dep
  PROVE  \/ NpmLockTarget(entries, from, dep) = None
         \/ NpmLockTarget(entries, from, dep) \in Range(entries)
BY DEF NpmLockTarget, Find

(* The nodes of a list of entries, and only they, come first.              *)
LEMMA NpmNodesComeFirst ==
  ASSUME NEW u, Sound(u), NEW m, NEW entries, Listed(entries)
  PROVE  LET d == NpmNodes(u, m, entries)
         IN  Quiet(u, d) /\ \A e \in Range(entries) : Resolved("npm", e) \in Nodes(d)
<1> DEFINE d == NpmNodes(u, m, entries)
<1>1. d = NpmNodesLaw!Fold(m, 0, 0, entries, u, DOMAIN entries)
  BY DEF NpmNodes, FoldLeft, MapThenFoldSet, NpmNodesLaw!Fold
<1> HIDE DEF d
<1>2. \A i \in DOMAIN entries : \A t \in SUBSET DOMAIN entries : \A v :
          Quiet(u, v) /\ (\A k \in t : Resolved("npm", entries[k]) \in Nodes(v)) =>
              /\ Quiet(u, ResolvedNode(v, m, "npm", entries[i]))
              /\ \A k \in t \cup {i} :
                    Resolved("npm", entries[k]) \in Nodes(ResolvedNode(v, m, "npm", entries[i]))
  <2>1. ASSUME NEW v, NEW e, Quiet(u, v)
        PROVE  /\ Quiet(u, ResolvedNode(v, m, "npm", e))
               /\ Nodes(v) \subseteq Nodes(ResolvedNode(v, m, "npm", e))
               /\ Resolved("npm", e) \in Nodes(ResolvedNode(v, m, "npm", e))
    <3>1. /\ Quiet(v, ResolvedNode(v, m, "npm", e))
          /\ Resolved("npm", e) \in Nodes(ResolvedNode(v, m, "npm", e))
      BY <2>1, ResolvedIsQuiet DEF Quiet
    <3>2. Quiet(u, ResolvedNode(v, m, "npm", e))
      BY <2>1, <3>1, QuietIsTransitive
    <3> QED
      BY <3>1, <3>2 DEF Quiet
  <2> QED
    BY <2>1
<1>3. Quiet(u, u)
  BY IndexIsQuiet
<1>4. Dwindles(DOMAIN entries) /\ \A t \in SUBSET DOMAIN entries : t # {} => Max(t) \in t
  BY ListsFold
<1>5. LET f == NpmNodesLaw!Fold(m, 0, 0, entries, u, DOMAIN entries)
      IN  Quiet(u, f) /\ \A k \in DOMAIN entries : Resolved("npm", entries[k]) \in Nodes(f)
  BY <1>2, <1>3, <1>4, NpmNodesLaw!FoldKeeps DEF Dwindles
<1>6. Quiet(u, d) /\ \A e \in Range(entries) : Resolved("npm", e) \in Nodes(d)
  BY <1>1, <1>5 DEF Range
<1> QED
  BY <1>6 DEF d

(* What package-lock.json names at its root is locked.                     *)
LEMMA NpmRootsLock ==
  ASSUME NEW u, Sound(u), NEW m, ProjectId(m.project) \in Nodes(u), Listed(m.roots), NEW entries,
         \A e \in Range(entries) : Resolved("npm", e) \in Nodes(u)
  PROVE  Locking(u, NpmRoots(u, m, entries), m.project)
<1> DEFINE roots == m.roots
           f == NpmRoots(u, m, entries)
<1>1. f = NpmRootsLaw!Fold(m, entries, 0, roots, u, DOMAIN roots)
  BY DEF NpmRoots, FoldLeft, MapThenFoldSet, NpmRootsLaw!Fold
<1> HIDE DEF f
<1>2. \A i \in DOMAIN roots : \A t \in SUBSET DOMAIN roots : \A v :
          Locking(u, v, m.project) =>
              Locking(u, LET e == NpmLockTarget(entries, <<>>, roots[i])
                         IN  IF e = None THEN v ELSE Direct(v, m, "npm", "npm-lock", e),
                      m.project)
  <2>1. ASSUME NEW v, NEW e, Locking(u, v, m.project), e = None \/ e \in Range(entries)
        PROVE  Locking(u, IF e = None THEN v ELSE Direct(v, m, "npm", "npm-lock", e), m.project)
    <3>1. CASE e \in Range(entries)
      <4>1. Sound(v) /\ ProjectId(m.project) \in Nodes(v) /\ Resolved("npm", e) \in Nodes(v)
        BY <2>1, <3>1 DEF Locking
      <4>2. Locking(v, Direct(v, m, "npm", "npm-lock", e), m.project)
        BY <4>1, DirectIsLocked
      <4> QED
        BY <2>1, <4>2, LockingIsTransitive
    <3> QED
      BY <2>1, <3>1
  <2> QED
    BY <2>1, TargetIsEntry
<1>3. Locking(u, u, m.project)
  BY NothingDeclared
<1>4. Dwindles(DOMAIN roots) /\ \A t \in SUBSET DOMAIN roots : t # {} => Max(t) \in t
  BY ListsFold
<1>5. Locking(u, NpmRootsLaw!Fold(m, entries, 0, roots, u, DOMAIN roots), m.project)
  BY <1>2, <1>3, <1>4, NpmRootsLaw!FoldKeeps DEF Dwindles
<1> QED
  BY <1>1, <1>5 DEF f

(* package-lock.json: its entries, then its root, then the edges between   *)
(* them.                                                                   *)
LEMMA PackageLockLocks ==
  ASSUME NEW u, Sound(u), NEW m, ProjectId(m.project) \in Nodes(u),
         Listed(m.entries), Listed(m.roots)
  PROVE  Locking(u, PackageLock(u, m), m.project)
<1> DEFINE noted == Annotate(u, m.project, m.notes)
           named == [k \in DOMAIN m.entries |->
                        [m.entries[k] EXCEPT !.name = NpmLockName(m.entries[k])]]
           entries == Only(named, {e \in Range(named) : None \notin {e.name, e.version}})
           nodes == NpmNodes(noted, m, entries)
           rooted == NpmRoots(nodes, m, entries)
           links == Links(entries, LAMBDA e, dep : NpmLockTarget(entries, e.path, dep))
<1>1. PackageLock(u, m) =
          IF ~m.flat THEN Unknown(noted, "resolver.npm-lock-v1-unavailable", m)
          ELSE DependsOn(rooted, "npm", "npm-lock", links)
  BY DEF PackageLock
<1>2. \A l \in links : l[2] # None => l \in Range(entries) \X Range(entries)
  <2>1. \A l \in links : \E e \in Range(entries) : \E dep \in e.deps :
            l = <<e, NpmLockTarget(entries, e.path, dep)>>
    BY DEF Links
  <2> HIDE DEF links, entries
  <2> QED
    BY <2>1, TargetIsEntry
<1>3. Quiet(u, noted)
  BY Annotated
<1>4. Listed(entries)
  <2>1. Listed(named)
    <3>1. DOMAIN named = 1 .. Len(m.entries) /\ Len(m.entries) \in Nat
      BY ListsFold
    <3>2. \A k \in DOMAIN named : named[k] \in Range(named)
      BY DEF Range
    <3>3. named = [k \in 1 .. Len(m.entries) |-> named[k]]
      BY <3>1
    <3> HIDE DEF named
    <3>4. named \in [1 .. Len(m.entries) -> Range(named)]
      BY <3>1, <3>2, <3>3
    <3> QED
      BY <3>1, <3>4 DEF Listed
  <2> HIDE DEF named
  <2> QED
    BY <2>1, OnlyIsOf
<1> HIDE DEF noted, entries, links
<1>5. Sound(noted) /\ ProjectId(m.project) \in Nodes(noted)
  BY <1>3 DEF Quiet
<1>6. Quiet(noted, nodes) /\ \A e \in Range(entries) : Resolved("npm", e) \in Nodes(nodes)
  BY <1>4, <1>5, NpmNodesComeFirst
<1> HIDE DEF nodes
<1>7. Sound(nodes) /\ ProjectId(m.project) \in Nodes(nodes)
  BY <1>5, <1>6 DEF Quiet
<1>8. Locking(nodes, rooted, m.project)
  BY <1>6, <1>7, NpmRootsLock
<1> HIDE DEF rooted
<1>9. Sound(rooted) /\ \A e \in Range(entries) : Resolved("npm", e) \in Nodes(rooted)
  BY <1>6, <1>8 DEF Locking
<1>10. Quiet(rooted, DependsOn(rooted, "npm", "npm-lock", links))
  BY <1>2, <1>4, <1>9, DependsIsQuiet
<1>11. Locking(u, nodes, m.project)
  BY <1>3, <1>6, QuietIsTransitive, QuietIsEither
<1>12. Locking(u, rooted, m.project)
  BY <1>8, <1>11, LockingIsTransitive
<1>13. Locking(u, DependsOn(rooted, "npm", "npm-lock", links), m.project)
  BY <1>10, <1>12, QuietIsEither, LockingIsTransitive
<1>14. Locking(u, Unknown(noted, "resolver.npm-lock-v1-unavailable", m), m.project)
  BY <1>3, <1>5, Unknowns, QuietIsTransitive, QuietIsEither
<1> QED
  BY <1>1, <1>13, <1>14

FrameworksLaw == INSTANCE FoldLaws WITH
    Pick <- LAMBDA t : Max(t),
    Op <- LAMBDA p, q, r, s, i, v :
              LET node == ResolvedNode(v, p, "nuget", s[i])
              IN  IF s[i] \in r THEN Direct(node, p, "nuget", q, s[i]) ELSE node,
    Inv <- LAMBDA p, q, r, s, b, t, v :
               Locking(b, v, p.project) /\ \A k \in t : Resolved("nuget", s[k]) \in Nodes(v)

(* The entries of packages.lock.json become nodes, the direct ones locked. *)
LEMMA FrameworkNodesLock ==
  ASSUME NEW u, Sound(u), NEW m, ProjectId(m.project) \in Nodes(u), NEW resolver, NEW direct,
         NEW entries, Listed(entries)
  PROVE  LET d == FrameworkNodes(u, m, resolver, direct, entries)
         IN  /\ Locking(u, d, m.project)
             /\ \A e \in Range(entries) : Resolved("nuget", e) \in Nodes(d)
<1> DEFINE d == FrameworkNodes(u, m, resolver, direct, entries)
           Step(v, e) == LET node == ResolvedNode(v, m, "nuget", e)
                         IN  IF e \in direct THEN Direct(node, m, "nuget", resolver, e) ELSE node
<1>1. d = FrameworksLaw!Fold(m, resolver, direct, entries, u, DOMAIN entries)
  BY DEF FrameworkNodes, FoldLeft, MapThenFoldSet, FrameworksLaw!Fold
<1> HIDE DEF d
<1>2. \A i \in DOMAIN entries : \A t \in SUBSET DOMAIN entries : \A v :
          Locking(u, v, m.project) /\ (\A k \in t : Resolved("nuget", entries[k]) \in Nodes(v)) =>
              /\ Locking(u, Step(v, entries[i]), m.project)
              /\ \A k \in t \cup {i} :
                    Resolved("nuget", entries[k]) \in Nodes(Step(v, entries[i]))
  <2>1. ASSUME NEW v, NEW e, Locking(u, v, m.project)
        PROVE  /\ Locking(u, Step(v, e), m.project)
               /\ Nodes(v) \subseteq Nodes(Step(v, e))
               /\ Resolved("nuget", e) \in Nodes(Step(v, e))
    <3> DEFINE node == ResolvedNode(v, m, "nuget", e)
    <3>1. Sound(v) /\ ProjectId(m.project) \in Nodes(v)
      BY <2>1 DEF Locking
    <3>2. Quiet(v, node) /\ Resolved("nuget", e) \in Nodes(node)
      BY <3>1, ResolvedIsQuiet
    <3>3. Step(v, e) = IF e \in direct THEN Direct(node, m, "nuget", resolver, e) ELSE node
      OBVIOUS
    <3> HIDE DEF node, Step
    <3>4. Sound(node) /\ ProjectId(m.project) \in Nodes(node) /\ Nodes(v) \subseteq Nodes(node)
      BY <3>1, <3>2 DEF Quiet
    <3>5. Locking(node, Direct(node, m, "nuget", resolver, e), m.project)
      BY <3>2, <3>4, DirectIsLocked
    <3>6. Locking(u, node, m.project)
      BY <2>1, <3>2, QuietIsEither, LockingIsTransitive
    <3>7. Locking(u, Direct(node, m, "nuget", resolver, e), m.project)
      BY <3>5, <3>6, LockingIsTransitive
    <3>8. Nodes(node) \subseteq Nodes(Step(v, e))
      BY <3>3, <3>5 DEF Locking
    <3> QED
      BY <3>2, <3>3, <3>4, <3>6, <3>7, <3>8
  <2> HIDE DEF Step
  <2> QED
    BY <2>1
<1>3. Locking(u, u, m.project)
  BY NothingDeclared
<1>4. Dwindles(DOMAIN entries) /\ \A t \in SUBSET DOMAIN entries : t # {} => Max(t) \in t
  BY ListsFold
<1>5. LET f == FrameworksLaw!Fold(m, resolver, direct, entries, u, DOMAIN entries)
      IN  /\ Locking(u, f, m.project)
          /\ \A k \in DOMAIN entries : Resolved("nuget", entries[k]) \in Nodes(f)
  BY <1>2, <1>3, <1>4, FrameworksLaw!FoldKeeps DEF Dwindles
<1>6. Locking(u, d, m.project) /\ \A e \in Range(entries) : Resolved("nuget", e) \in Nodes(d)
  BY <1>1, <1>5 DEF Range
<1> QED
  BY <1>6 DEF d

(* packages.lock.json and its like: entries, then the edges between them.  *)
LEMMA FrameworksLock ==
  ASSUME NEW u, Sound(u), NEW m, ProjectId(m.project) \in Nodes(u), Listed(m.entries),
         NEW resolver, NEW direct
  PROVE  Locking(u, Frameworks(u, m, resolver, direct), m.project)
<1> DEFINE entries == Only(m.entries, {e \in Range(m.entries) : e.type # "project"})
           read == FrameworkNodes(u, m, resolver, direct, entries)
           links == Links(entries, LAMBDA e, dep : NugetTarget(entries, e, dep))
<1>1. Frameworks(u, m, resolver, direct) = DependsOn(read, "nuget", resolver, links)
  BY DEF Frameworks
<1>2. \A l \in links : l[2] # None => l \in Range(entries) \X Range(entries)
  <2>1. \A l \in links : \E e \in Range(entries) : \E dep \in e.deps :
            l = <<e, NugetTarget(entries, e, dep)>>
    BY DEF Links
  <2>2. \A e, dep : NugetTarget(entries, e, dep) \in {None} \cup Range(entries)
    BY DEF NugetTarget, Find
  <2> HIDE DEF links, entries
  <2> QED
    BY <2>1, <2>2
<1>3. Listed(entries)
  BY OnlyIsOf
<1> HIDE DEF entries, links
<1>4. Locking(u, read, m.project) /\ \A e \in Range(entries) : Resolved("nuget", e) \in Nodes(read)
  BY <1>3, FrameworkNodesLock
<1> HIDE DEF read
<1>5. Quiet(read, DependsOn(read, "nuget", resolver, links))
  BY <1>2, <1>3, <1>4, DependsIsQuiet DEF Locking
<1> QED
  BY <1>1, <1>4, <1>5, QuietIsEither, LockingIsTransitive

-----------------------------------------------------------------------------
(* A .csproj.                                                              *)
LEMMA SequencesAreListed ==
  ASSUME NEW S, NEW s \in Seq(S) PROVE Listed(s) /\ Range(s) \subseteq S
BY DEF Listed, Range

(* Part of a list is a list of some of its elements.                       *)
LEMMA PartIsListed ==
  ASSUME NEW s, Listed(s), NEW i \in Nat \ {0}, NEW n \in 0 .. Len(s)
  PROVE  Listed(SubSeq(s, i, n)) /\ Range(SubSeq(s, i, n)) \subseteq Range(s)
<1>1. SubSeq(s, i, n) \in Seq(Range(s))
  BY DEF Listed
<1> QED
  BY <1>1, SequencesAreListed

(* A project file of .NET becomes a node.                                  *)
LEMMA ProjectFileIsQuiet ==
  ASSUME NEW u, Sound(u), NEW m, NEW path, NEW notes
  PROVE  /\ Quiet(u, AddProjectFile(u, m, path, notes))
         /\ ProjectFile(path) \in Nodes(AddProjectFile(u, m, path, notes))
<1> DEFINE n == [Blank EXCEPT !.type = "project", !.project = m.project, !.path = path,
                              !.group = <<"msbuild">>, !.notes = notes]
<1>1. AddProjectFile(u, m, path, notes) = [u EXCEPT !.graph = AddNode(@, ProjectFile(path), n)]
  BY DEF AddProjectFile
<1> HIDE DEF n
<1>2. /\ Quiet(u, [u EXCEPT !.graph = AddNode(@, ProjectFile(path), n)])
      /\ ProjectFile(path) \in Nodes([u EXCEPT !.graph = AddNode(@, ProjectFile(path), n)])
  BY NodeIsQuiet
<1> QED
  BY <1>1, <1>2

(* A PackageReference declares.                                            *)
LEMMA ReferenceDeclares ==
  ASSUME NEW u, Sound(u), NEW m, ProjectId(m.project) \in Nodes(u), NEW ref
  PROVE  Declaring(u, PackageReference(u, m, ref), m.project)
<1> DEFINE central == Get(u.index.central, <<m.project, Normalize("nuget", ref.name)>>)
           told == IF ref.conditional THEN Unevaluated(u, m) ELSE u
           dep == [name |-> ref.name,
                   version |-> IF ref.version = None THEN central ELSE ref.version]
<1>1. PackageReference(u, m, ref) = IF ref.name = None THEN u ELSE AddPackage(told, m, "nuget", dep)
  BY DEF PackageReference
<1>2. Quiet(u, told)
  BY Unknowns, IndexIsQuiet DEF Unevaluated
<1> HIDE DEF told, dep
<1>3. Sound(told) /\ ProjectId(m.project) \in Nodes(told)
  BY <1>2 DEF Quiet
<1>4. Declaring(told, AddPackage(told, m, "nuget", dep), m.project)
  BY <1>3, PackageIsDeclared
<1>5. Declaring(u, AddPackage(told, m, "nuget", dep), m.project)
  BY <1>2, <1>4, QuietIsEither, DeclaringIsTransitive
<1> QED
  BY <1>1, <1>5, NothingDeclared

PackagesLaw == INSTANCE FoldLaws WITH
    Pick <- LAMBDA t : Max(t),
    Op <- LAMBDA p, q, r, s, i, v : PackageReference(v, p, s[i]),
    Inv <- LAMBDA p, q, r, s, b, t, v : Declaring(b, v, p.project)

(* All PackageReferences of a project file.                                *)
LEMMA ReferencesDeclare ==
  ASSUME NEW u, Sound(u), NEW m, ProjectId(m.project) \in Nodes(u), Listed(m.packages)
  PROVE  Declaring(u, PackageReferences(u, m), m.project)
<1> DEFINE refs == m.packages
<1>1. PackageReferences(u, m) = PackagesLaw!Fold(m, 0, 0, refs, u, DOMAIN refs)
  BY DEF PackageReferences, FoldLeft, MapThenFoldSet, PackagesLaw!Fold
<1>2. \A i \in DOMAIN refs : \A t \in SUBSET DOMAIN refs : \A v :
          Declaring(u, v, m.project) => Declaring(u, PackageReference(v, m, refs[i]), m.project)
  <2>1. ASSUME NEW v, NEW ref, Declaring(u, v, m.project)
        PROVE  Declaring(u, PackageReference(v, m, ref), m.project)
    <3>1. Sound(v) /\ ProjectId(m.project) \in Nodes(v)
      BY <2>1 DEF Declaring
    <3>2. Declaring(v, PackageReference(v, m, ref), m.project)
      BY <3>1, ReferenceDeclares
    <3> QED
      BY <2>1, <3>2, DeclaringIsTransitive
  <2> QED
    BY <2>1
<1>3. Declaring(u, u, m.project)
  BY NothingDeclared
<1>4. Dwindles(DOMAIN refs) /\ \A t \in SUBSET DOMAIN refs : t # {} => Max(t) \in t
  BY ListsFold
<1>5. Declaring(u, PackagesLaw!Fold(m, 0, 0, refs, u, DOMAIN refs), m.project)
  BY <1>2, <1>3, <1>4, PackagesLaw!FoldKeeps DEF Dwindles
<1> QED
  BY <1>1, <1>5

(* A ProjectReference draws an edge to a project file, which it adds.      *)
LEMMA ReferenceIsQuiet ==
  ASSUME NEW u, Sound(u), NEW m, ProjectFile(m.path) \in Nodes(u), NEW ref, NEW filenames
  PROVE  Quiet(u, ProjectReference(u, m, ref, filenames))
<1> DEFINE told == IF ref.conditional THEN Unevaluated(u, m) ELSE u
           key == Key(ProjectFile(m.path), ProjectFile(ref.target), "project-reference",
                      "source", "msbuild")
           placed == AddProjectFile(told, m, ref.target, {})
           out == ref.target \notin filenames
<1>1. ProjectReference(u, m, ref, filenames) =
          IF ref.expression THEN Unevaluated(u, m)
          ELSE [placed EXCEPT !.graph = AddEdge(@, key, out)]
  BY DEF ProjectReference
<1>2. Quiet(u, told) /\ Quiet(u, Unevaluated(u, m))
  BY Unknowns, IndexIsQuiet DEF Unevaluated
<1> HIDE DEF told
<1>3. Quiet(told, placed) /\ ProjectFile(ref.target) \in Nodes(placed)
  BY <1>2, ProjectFileIsQuiet DEF Quiet
<1>4. Sound(placed) /\ ProjectFile(m.path) \in Nodes(placed)
  BY <1>2, <1>3 DEF Quiet
<1> HIDE DEF placed
<1>5. \A z : Quiet(placed, [placed EXCEPT !.graph = AddEdge(@, key, z)])
  BY <1>3, <1>4, EdgeIsQuiet
<1> HIDE DEF key
<1>6. Quiet(placed, [placed EXCEPT !.graph = AddEdge(@, key, out)])
  BY <1>5
<1> QED
  BY <1>1, <1>2, <1>3, <1>6, QuietIsTransitive

ReferencesLaw == INSTANCE FoldLaws WITH
    Pick <- LAMBDA t : Max(t),
    Op <- LAMBDA p, q, r, s, i, v : ProjectReference(v, p, s[i], q),
    Inv <- LAMBDA p, q, r, s, b, t, v : Quiet(b, v)

(* All ProjectReferences of a project file.                                *)
LEMMA ReferencesAreQuiet ==
  ASSUME NEW u, Sound(u), NEW m, ProjectFile(m.path) \in Nodes(u), NEW refs, Listed(refs),
         NEW filenames
  PROVE  Quiet(u, ProjectReferences(u, m, refs, filenames))
<1>1. ProjectReferences(u, m, refs, filenames) =
          ReferencesLaw!Fold(m, filenames, 0, refs, u, DOMAIN refs)
  BY DEF ProjectReferences, FoldLeft, MapThenFoldSet, ReferencesLaw!Fold
<1>2. \A i \in DOMAIN refs : \A t \in SUBSET DOMAIN refs : \A v :
          Quiet(u, v) => Quiet(u, ProjectReference(v, m, refs[i], filenames))
  <2>1. ASSUME NEW v, NEW ref, Quiet(u, v)
        PROVE  Quiet(u, ProjectReference(v, m, ref, filenames))
    <3>1. Sound(v) /\ ProjectFile(m.path) \in Nodes(v)
      BY <2>1 DEF Quiet
    <3>2. Quiet(v, ProjectReference(v, m, ref, filenames))
      BY <3>1, ReferenceIsQuiet
    <3> QED
      BY <2>1, <3>2, QuietIsTransitive
  <2> QED
    BY <2>1
<1>3. Quiet(u, u)
  BY IndexIsQuiet
<1>4. Dwindles(DOMAIN refs) /\ \A t \in SUBSET DOMAIN refs : t # {} => Max(t) \in t
  BY ListsFold
<1>5. Quiet(u, ReferencesLaw!Fold(m, filenames, 0, refs, u, DOMAIN refs))
  BY <1>2, <1>3, <1>4, ReferencesLaw!FoldKeeps DEF Dwindles
<1> QED
  BY <1>1, <1>5

(* A .csproj: the file, its packages, its references.                      *)
LEMMA CsprojDeclares ==
  ASSUME NEW u, Sound(u), NEW m, ProjectId(m.project) \in Nodes(u),
         Listed(m.packages), Listed(m.references), NEW filenames
  PROVE  Declaring(u, Csproj(u, m, filenames), m.project)
<1> DEFINE told == IF m.expression THEN Unevaluated(u, m) ELSE u
           noted == Annotate(told, m.project, m.notes)
           own == AddProjectFile(noted, m, m.path, m.notes)
           key == Key(ProjectId(m.project), ProjectFile(m.path), "contains-project",
                      "source", "msbuild")
           placed == [own EXCEPT !.graph = AddEdge(@, key, FALSE)]
           packages == PackageReferences(placed, m)
           inside == SelectInSeq(m.references, LAMBDA r : r.target = None /\ ~r.expression)
           refs == IF inside = 0 THEN m.references ELSE SubSeq(m.references, 1, inside - 1)
           read == ProjectReferences(packages, m, refs, filenames)
<1>1. Csproj(u, m, filenames) = IF inside = 0 THEN read ELSE ParseError(read, m)
  BY DEF Csproj
<1>2. Listed(refs)
  <2> DEFINE I == {i \in 1 .. Len(m.references) :
                      m.references[i].target = None /\ ~m.references[i].expression}
  <2>1. inside = IF I # {} THEN Min(I) ELSE 0
    BY DEF SelectInSeq
  <2>2. Len(m.references) \in Nat
    BY ListsFold
  <2>3. inside = 0 \/ inside \in 1 .. Len(m.references)
    <3>1. I \subseteq Nat
      BY <2>2
    <3>2. I # {} => Min(I) \in I
      BY <3>1, FirstIsThere
    <3> QED
      BY <2>1, <3>2
  <2> HIDE DEF inside
  <2>4. CASE inside \in 1 .. Len(m.references)
    <3>1. inside - 1 \in 0 .. Len(m.references)
      BY <2>2, <2>4
    <3>2. Listed(SubSeq(m.references, 1, inside - 1))
      BY <3>1, PartIsListed
    <3> QED
      BY <2>4, <3>2
  <2> QED
    BY <2>3, <2>4
<1> HIDE DEF inside, refs
<1>3. Quiet(u, told)
  BY Unknowns, IndexIsQuiet DEF Unevaluated
<1> HIDE DEF told
<1>4. Quiet(told, noted)
  BY <1>3, Annotated DEF Quiet
<1> HIDE DEF noted
<1>5. Quiet(noted, own) /\ ProjectFile(m.path) \in Nodes(own)
  BY <1>4, ProjectFileIsQuiet DEF Quiet
<1>6. Quiet(u, own)
  BY <1>3, <1>4, <1>5, QuietIsTransitive
<1> HIDE DEF own
<1>7. Sound(own) /\ ProjectId(m.project) \in Nodes(own)
  BY <1>6 DEF Quiet
<1>8. Quiet(own, placed)
  <2>1. \A z : Quiet(own, [own EXCEPT !.graph = AddEdge(@, key, z)])
    BY <1>5, <1>7, EdgeIsQuiet
  <2> HIDE DEF key
  <2> QED
    BY <2>1
<1>9. Quiet(u, placed)
  BY <1>6, <1>8, QuietIsTransitive
<1>10. ProjectFile(m.path) \in Nodes(placed)
  BY <1>5, <1>8 DEF Quiet
<1> HIDE DEF placed
<1>11. Sound(placed) /\ ProjectId(m.project) \in Nodes(placed) /\ Declaring(u, placed, m.project)
  BY <1>9, QuietIsEither DEF Quiet
<1>12. Declaring(placed, packages, m.project)
  BY <1>11, ReferencesDeclare
<1>13. Declaring(u, packages, m.project)
  BY <1>11, <1>12, DeclaringIsTransitive
<1>14. Sound(packages) /\ ProjectFile(m.path) \in Nodes(packages)
  BY <1>10, <1>12 DEF Declaring
<1> HIDE DEF packages
<1>15. Quiet(packages, read)
  BY <1>2, <1>14, ReferencesAreQuiet
<1> HIDE DEF read
<1>16. Declaring(u, read, m.project)
  BY <1>13, <1>15, QuietIsEither, DeclaringIsTransitive
<1>17. Quiet(read, ParseError(read, m))
  BY <1>15, Unknowns DEF Quiet, ParseError
<1> QED
  BY <1>1, <1>16, <1>17, QuietIsEither, DeclaringIsTransitive

-----------------------------------------------------------------------------
(* A manifest.                                                             *)
LEMMA AdaptedKeeps ==
  ASSUME NEW u, Sound(u), NEW m, ManifestListed(m), ProjectId(m.project) \in Nodes(u),
         NEW filenames
  PROVE  IF Priority(m) <= 1 THEN Locking(u, Adapted(u, m, filenames), m.project)
         ELSE Declaring(u, Adapted(u, m, filenames), m.project)
<1> DEFINE d == Adapted(u, m, filenames)
<1>1. \A code : Quiet(u, Unknown(u, code, m))
  BY Unknowns
<1>2. Quiet(u, ParseError(u, m))
  BY <1>1 DEF ParseError
<1>3. /\ Quiet(u, TypescriptConfig(u, m)) /\ Quiet(u, GlobalJson(u, m))
      /\ Quiet(u, DirectoryPackagesProps(u, m))
  BY TypescriptIsQuiet, CentralIsQuiet, Annotated DEF GlobalJson, ManifestListed
<1>4. /\ Locking(u, PackageLock(u, m), m.project)
      /\ Locking(u, NugetLock(u, m), m.project) /\ Locking(u, ProjectAssets(u, m), m.project)
  BY PackageLockLocks, FrameworksLock DEF NugetLock, ProjectAssets, ManifestListed
<1>5. /\ Declaring(u, Pyproject(u, m), m.project) /\ Declaring(u, PackageJson(u, m), m.project)
      /\ Declaring(u, GoMod(u, m), m.project) /\ Declaring(u, Csproj(u, m, filenames), m.project)
      /\ Declaring(u, Pom(u, m), m.project) /\ Declaring(u, Requirements(u, m), m.project)
  BY PyprojectDeclares, PackageJsonDeclares, GoModDeclares, CsprojDeclares, DeclareDeclares
     DEF Pom, Requirements, ManifestListed
<1>6. CASE Quiet(u, d)
  BY <1>6, QuietIsEither
<1>7. CASE m.state \in {"missing", "broken"}
  <2>1. d = Unknown(u, "manifest.missing", m) \/ d = ParseError(u, m)
    BY <1>7 DEF Adapted
  <2> QED
    BY <1>1, <1>2, <1>6, <2>1
<1>8. CASE m.state \notin {"missing", "broken"} /\
           m.kind \in {"tsconfig.json", "global.json", "Directory.Packages.props"}
  BY <1>3, <1>6, <1>8 DEF Adapted, Read
<1>9. CASE m.state \notin {"missing", "broken"} /\
           m.kind \in {"package-lock.json", "packages.lock.json", "project.assets.json"}
  BY <1>4, <1>9 DEF Adapted, Read, Priority
<1>10. CASE m.state \notin {"missing", "broken"} /\
           m.kind \in {"pyproject.toml", "package.json", "pom.xml", "csproj", "go.mod",
                       "requirements.txt"}
  BY <1>5, <1>10 DEF Adapted, Read, Priority
<1>11. CASE /\ m.state \notin {"missing", "broken"}
            /\ m.kind \notin {"tsconfig.json", "global.json", "Directory.Packages.props",
                              "package-lock.json", "packages.lock.json", "project.assets.json",
                              "pyproject.toml", "package.json", "pom.xml", "csproj", "go.mod",
                              "requirements.txt"}
  BY <1>1, <1>6, <1>11 DEF Adapted, Read
<1> QED
  BY <1>7, <1>8, <1>9, <1>10, <1>11

-----------------------------------------------------------------------------
(* The edges and the nodes of source files.                                *)
LEMMA PlacedIsQuiet ==
  ASSUME NEW u, Sound(u), NEW id, NEW n, NEW source \in Nodes(u) \cup {id},
         NEW target \in Nodes(u) \cup {id}, NEW kind, NEW scope, NEW resolver, NEW unresolved,
         scope # "package" \/ kind \notin {"declares", "resolved-dependency"}
  PROVE  LET d == [u EXCEPT !.graph = AddEdge(AddNode(@, id, n),
                              Key(source, target, kind, scope, resolver), unresolved)]
         IN  Quiet(u, d) /\ id \in Nodes(d)
<1> DEFINE w == [u EXCEPT !.graph = AddNode(@, id, n)]
           k == Key(source, target, kind, scope, resolver)
           d == [w EXCEPT !.graph = AddEdge(@, k, unresolved)]
<1>1. Quiet(u, w) /\ id \in Nodes(w)
  BY NodeIsQuiet
<1>2. [u EXCEPT !.graph = AddEdge(AddNode(@, id, n), k, unresolved)] = d
  BY DEF Sound, Shaped
<1> HIDE DEF w
<1>3. Sound(w) /\ source \in Nodes(w) /\ target \in Nodes(w)
  BY <1>1 DEF Quiet
<1>4. Quiet(w, d)
  BY <1>3, EdgeIsQuiet
<1> HIDE DEF k, d
<1>5. Quiet(u, d) /\ id \in Nodes(d)
  BY <1>1, <1>4, QuietIsTransitive DEF Quiet
<1> QED
  BY <1>2, <1>5 DEF k

(* A module is put in its group.                                           *)
LEMMA GroupedIsQuiet ==
  ASSUME NEW u, Sound(u), NEW r, NEW group PROVE Quiet(u, Grouped(u, r, group))
<1> DEFINE d == Grouped(u, r, group)
<1>1. /\ Shaped(d) /\ d.index = u.index /\ DOMAIN d.graph.nodes = DOMAIN u.graph.nodes
      /\ d.graph.edges = u.graph.edges
  BY DEF Sound, Shaped, Grouped
<1> HIDE DEF d
<1>2. Quiet(u, d)
  BY <1>1 DEF Quiet, Sound, Filed, Integrity, Nodes, Edges, Declares, Locks
<1> QED
  BY <1>2 DEF d

(* An import of another file of the tree.                                  *)
LEMMA SourceIsQuiet ==
  ASSUME NEW u, Sound(u), NEW r, ModuleId(r) \in Nodes(u), NEW target \in Nodes(u)
  PROVE  Quiet(u, SourceEdge(u, r, target))
<1> DEFINE scope == IF r.test THEN "test" ELSE "source"
           k == Key(ModuleId(r), target, "imports", scope, r.language)
<1>1. SourceEdge(u, r, target) = IF target = ModuleId(r) THEN u
                                 ELSE [u EXCEPT !.graph = AddEdge(@, k, FALSE)]
  BY DEF SourceEdge
<1>2. scope # "package"
  OBVIOUS
<1> HIDE DEF scope
<1>3. \A z : Quiet(u, [u EXCEPT !.graph = AddEdge(@, k, z)])
  BY <1>2, EdgeIsQuiet
<1> HIDE DEF k
<1>4. Quiet(u, [u EXCEPT !.graph = AddEdge(@, k, FALSE)])
  BY <1>3
<1> QED
  BY <1>1, <1>4, IndexIsQuiet

(* An import of something that has a node.                                 *)
LEMMA PackageEdgeIsQuiet ==
  ASSUME NEW u, Sound(u), NEW r, ModuleId(r) \in Nodes(u), NEW id \in Nodes(u), NEW kind
  PROVE  Quiet(u, PackageEdge(u, r, id, kind))
<1> DEFINE k == Key(ModuleId(r), id, kind, "package-import", r.language)
<1>1. PackageEdge(u, r, id, kind) = [u EXCEPT !.graph = AddEdge(@, k, FALSE)]
  BY DEF PackageEdge
<1>2. \A z : Quiet(u, [u EXCEPT !.graph = AddEdge(@, k, z)])
  BY EdgeIsQuiet
<1> HIDE DEF k
<1>3. Quiet(u, [u EXCEPT !.graph = AddEdge(@, k, FALSE)])
  BY <1>2
<1> QED
  BY <1>1, <1>3

(* An import of a package that is not in the tree adds it and draws to it. *)
LEMMA ExternalIsQuiet ==
  ASSUME NEW u, Sound(u), NEW r, ModuleId(r) \in Nodes(u), NEW id, NEW group
  PROVE  Quiet(u, External(u, r, id, group, FALSE)) /\ Quiet(u, External(u, r, id, group, TRUE))
<1> DEFINE k == Key(ModuleId(r), id, "imports", "source-external", r.language)
           n == [Blank EXCEPT !.group = <<group>>, !.notes = {<<"importedBy", r.project>>}]
<1>1. /\ External(u, r, id, group, FALSE) =
             [u EXCEPT !.graph = AddEdge(AddNode(@, id, n), k, FALSE)]
      /\ External(u, r, id, group, TRUE) =
             [u EXCEPT !.graph = AddEdge(AddNode(@, id, n), k, TRUE)]
  BY DEF External
<1> HIDE DEF n
<1>2. \A z : Quiet(u, [u EXCEPT !.graph = AddEdge(AddNode(@, id, n), k, z)])
  BY PlacedIsQuiet
<1> HIDE DEF k
<1>3. Quiet(u, [u EXCEPT !.graph = AddEdge(AddNode(@, id, n), k, FALSE)])
  BY <1>2
<1>4. Quiet(u, [u EXCEPT !.graph = AddEdge(AddNode(@, id, n), k, TRUE)])
  BY <1>2
<1> QED
  BY <1>1, <1>3, <1>4

(* The same, under the name of an ecosystem.                               *)
LEMMA ImportIsQuiet ==
  ASSUME NEW u, Sound(u), NEW r, ModuleId(r) \in Nodes(u), NEW eco, NEW name
  PROVE  Quiet(u, ExternalEdge(u, r, eco, name))
BY ExternalIsQuiet DEF ExternalEdge

(* A namespace becomes a node.                                             *)
LEMMA NamespaceIsQuiet ==
  ASSUME NEW u, Sound(u), NEW r, NEW language, NEW name
  PROVE  /\ Quiet(u, AddNamespace(u, r, language, name))
         /\ <<"namespace", language, name>> \in Nodes(AddNamespace(u, r, language, name))
<1> DEFINE id == <<"namespace", language, name>>
           n == [Blank EXCEPT !.type = "namespace", !.project = r.project, !.group = name]
<1>1. AddNamespace(u, r, language, name) = [u EXCEPT !.graph = AddNode(@, id, n)]
  BY DEF AddNamespace
<1> HIDE DEF n, id
<1>2. /\ Quiet(u, [u EXCEPT !.graph = AddNode(@, id, n)])
      /\ id \in Nodes([u EXCEPT !.graph = AddNode(@, id, n)])
  BY NodeIsQuiet
<1> QED
  BY <1>1, <1>2 DEF id

(* A source file that is listed becomes a node of its project.             *)
LEMMA DiscoverIsQuiet ==
  ASSUME NEW u, Sound(u), NEW r, ProjectId(r.project) \in Nodes(u)
  PROVE  Quiet(u, Discover(u, r)) /\ (r.listed => ModuleId(r) \in Nodes(Discover(u, r)))
<1> DEFINE group == IF Within(r) = <<>> THEN <<r.project>> ELSE UpTo(Within(r), 2)
           n == [Blank EXCEPT !.type = IF r.test THEN "test" ELSE "module",
                              !.project = r.project, !.path = r.path, !.group = group]
           k == Key(ProjectId(r.project), ModuleId(r), "contains", "structure", "scope")
           id == ModuleId(r)
<1>1. Discover(u, r) = IF ~r.listed THEN u
                       ELSE [u EXCEPT !.graph = AddEdge(AddNode(@, id, n), k, FALSE)]
  BY DEF Discover
<1> HIDE DEF n, group
<1>2. \A z : /\ Quiet(u, [u EXCEPT !.graph = AddEdge(AddNode(@, id, n), k, z)])
             /\ id \in Nodes([u EXCEPT !.graph = AddEdge(AddNode(@, id, n), k, z)])
  BY PlacedIsQuiet
<1> HIDE DEF k, id
<1>3. /\ Quiet(u, [u EXCEPT !.graph = AddEdge(AddNode(@, id, n), k, FALSE)])
      /\ id \in Nodes([u EXCEPT !.graph = AddEdge(AddNode(@, id, n), k, FALSE)])
  BY <1>2
<1> QED
  BY <1>1, <1>3, IndexIsQuiet DEF id

DiscoverLaw == INSTANCE FoldLaws WITH
    Pick <- LAMBDA t : Max(t),
    Op <- LAMBDA p, q, r, s, i, v : Discover(v, s[i]),
    Inv <- LAMBDA p, q, r, s, b, t, v :
               Quiet(b, v) /\ \A k \in t : s[k].listed => ModuleId(s[k]) \in Nodes(v)

(* Every file that is listed has its node.                                 *)
LEMMA SourcesArePlaced ==
  ASSUME NEW u, Sound(u), NEW sources, Listed(sources),
         \A r \in Range(sources) : ProjectId(r.project) \in Nodes(u)
  PROVE  LET d == FoldLeft(Discover, u, sources)
         IN  Quiet(u, d) /\ \A r \in Range(sources) : r.listed => ModuleId(r) \in Nodes(d)
<1> DEFINE d == FoldLeft(Discover, u, sources)
<1>1. d = DiscoverLaw!Fold(0, 0, 0, sources, u, DOMAIN sources)
  BY DEF FoldLeft, MapThenFoldSet, DiscoverLaw!Fold
<1> HIDE DEF d
<1>2. \A i \in DOMAIN sources : \A t \in SUBSET DOMAIN sources : \A v :
          Quiet(u, v) /\ (\A k \in t : sources[k].listed => ModuleId(sources[k]) \in Nodes(v)) =>
              /\ Quiet(u, Discover(v, sources[i]))
              /\ \A k \in t \cup {i} :
                    sources[k].listed => ModuleId(sources[k]) \in Nodes(Discover(v, sources[i]))
  <2>1. ASSUME NEW v, NEW r \in Range(sources), Quiet(u, v)
        PROVE  /\ Quiet(u, Discover(v, r)) /\ Nodes(v) \subseteq Nodes(Discover(v, r))
               /\ r.listed => ModuleId(r) \in Nodes(Discover(v, r))
    <3>1. Sound(v) /\ ProjectId(r.project) \in Nodes(v)
      BY <2>1 DEF Quiet
    <3>2. Quiet(v, Discover(v, r)) /\ (r.listed => ModuleId(r) \in Nodes(Discover(v, r)))
      BY <3>1, DiscoverIsQuiet
    <3>3. Quiet(u, Discover(v, r))
      BY <2>1, <3>2, QuietIsTransitive
    <3> QED
      BY <3>2, <3>3 DEF Quiet
  <2>2. \A i \in DOMAIN sources : sources[i] \in Range(sources)
    BY DEF Range
  <2> QED
    BY <2>1, <2>2
<1>3. Quiet(u, u)
  BY IndexIsQuiet
<1>4. Dwindles(DOMAIN sources) /\ \A t \in SUBSET DOMAIN sources : t # {} => Max(t) \in t
  BY ListsFold
<1>5. LET f == DiscoverLaw!Fold(0, 0, 0, sources, u, DOMAIN sources)
      IN  Quiet(u, f) /\ \A k \in DOMAIN sources :
              sources[k].listed => ModuleId(sources[k]) \in Nodes(f)
  BY <1>2, <1>3, <1>4, DiscoverLaw!FoldKeeps DEF Dwindles
<1>6. Quiet(u, d) /\ \A r \in Range(sources) : r.listed => ModuleId(r) \in Nodes(d)
  BY <1>1, <1>5 DEF Range
<1> QED
  BY <1>6 DEF d

(* The longest prefix that is known is known, if it is a prefix at all.    *)
LEMMA PrefixIsKnown ==
  ASSUME NEW name, Listed(name), NEW known, LongestPrefix(name, known) # <<>>
  PROVE  LongestPrefix(name, known) \in known
<1> DEFINE D == {0} \cup {k \in 1 .. Len(name) : SubSeq(name, 1, k) \in known}
<1>1. Len(name) \in Nat
  BY ListsFold
<1>2. D \in SUBSET (0 .. Len(name)) /\ D # {}
  BY <1>1
<1>3. LongestPrefix(name, known) = SubSeq(name, 1, Max(D))
  BY DEF LongestPrefix
<1>4. Max(D) \in D
  <2> HIDE DEF D
  <2> QED
    BY <1>1, <1>2, LastIsThere
<1>5. CASE Max(D) = 0
  <2>1. SubSeq(name, 1, 0) = <<>>
    BY DEF Listed
  <2> QED
    BY <1>3, <1>5, <2>1
<1>6. CASE Max(D) # 0
  <2>1. SubSeq(name, 1, Max(D)) \in known
    BY <1>4, <1>6
  <2> QED
    BY <1>3, <2>1
<1> QED
  BY <1>5, <1>6

(* Files that have their nodes.                                            *)
Sited(u, S) == \A r \in S : ModuleId(r) \in Nodes(u) /\ SourceListed(r)

(* The modules that have a node keep it.                                   *)
LEMMA SitedStays ==
  ASSUME NEW u, NEW d, Quiet(u, d), NEW S, Sited(u, S) PROVE Sited(d, S)
BY DEF Sited, Quiet

(* Two lists, one after the other.                                         *)
LEMMA JoinedIsListed ==
  ASSUME NEW s, NEW v, Listed(s), Listed(v)
  PROVE  Listed(s \o v) /\ Range(s \o v) \subseteq Range(s) \cup Range(v)
<1> DEFINE S == Range(s) \cup Range(v)
<1>1. s \in Seq(S) /\ v \in Seq(S)
  BY DEF Listed
<1>2. s \o v \in Seq(S)
  BY <1>1
<1> HIDE DEF S
<1>3. Listed(s \o v) /\ Range(s \o v) \subseteq S
  BY <1>2, SequencesAreListed
<1> QED
  BY <1>3 DEF S

(* The empty list and the list of one.                                     *)
LEMMA SinglesAreListed ==
  ASSUME NEW x PROVE Listed(<<x>>) /\ Listed(<<>>)
BY SequencesAreListed, <<x>> \in Seq({x}), <<>> \in Seq({x})

(* A list and one element more.                                            *)
LEMMA LongerIsListed ==
  ASSUME NEW s, Listed(s), NEW x PROVE Listed(Append(s, x))
<1>1. s \in Seq(Range(s) \cup {x})
  BY DEF Listed
<1>2. Append(s, x) \in Seq(Range(s) \cup {x})
  BY <1>1
<1> QED
  BY <1>2, SequencesAreListed

-----------------------------------------------------------------------------
(* Python.                                                                 *)
LEMMA PythonModuleIsListed ==
  ASSUME NEW r, SourceListed(r), NEW filenames PROVE Listed(PythonModule(r, filenames))
<1> DEFINE stem == SubSeq(r.path, Len(r.root) + 1, Len(r.path) - 1)
           name == IF IsPackage(r) THEN Front(stem) ELSE stem
<1>1. PythonModule(r, filenames) =
          IF r.root \o <<"__init__", "py">> \in filenames THEN <<Last(r.root)>> \o name ELSE name
  BY DEF PythonModule
<1>2. /\ Listed(r.path) /\ Len(r.root) \in Nat /\ Len(r.path) \in Nat
      /\ Len(r.root) + 2 <= Len(r.path)
  BY ListsFold DEF SourceListed
<1>3. Listed(stem) /\ Len(stem) \in Nat /\ Len(stem) >= 1
  <2>1. Len(r.root) + 1 \in Nat \ {0} /\ Len(r.path) - 1 \in 0 .. Len(r.path)
    BY <1>2
  <2>2. Listed(stem)
    BY <1>2, <2>1, PartIsListed
  <2>3. /\ Len(r.path) - 1 >= Len(r.root) + 1 /\ Len(r.path) - 1 \in Int
        /\ Len(r.root) + 1 \in Int
    BY <1>2
  <2>3a. \A s \in Seq(Range(r.path)) : \A i, j \in Int :
            j >= i => Len(SubSeq(s, i, j)) = j - i + 1
    OBVIOUS
  <2>3b. Len(stem) = (Len(r.path) - 1) - (Len(r.root) + 1) + 1
    BY <1>2, <2>3, <2>3a DEF Listed
  <2> QED
    BY <1>2, <2>2, <2>3
<1> HIDE DEF stem
<1>4. Listed(Front(stem))
  <2>1. Listed(SubSeq(stem, 1, Len(stem) - 1))
    BY <1>3, PartIsListed
  <2> QED
    BY <2>1 DEF Front
<1>5. Listed(name)
  BY <1>3, <1>4
<1> HIDE DEF name
<1>6. Listed(<<Last(r.root)>> \o name)
  BY <1>5, SinglesAreListed, JoinedIsListed
<1> QED
  BY <1>1, <1>5, <1>6

(* The modules by their names: of files of the list, under names.          *)
Modules(f, S) ==
    /\ IsFiniteSet(DOMAIN f)
    /\ \A name \in DOMAIN f : Listed(name) /\ name # <<>> /\ f[name] \in S

(* One more module name, of one of the files.                              *)
LEMMA ModulesGrow ==
  ASSUME NEW f, NEW S, Modules(f, S), NEW name, Listed(name), name # <<>>, NEW r \in S
  PROVE  Modules(Put(f, name, r), S)
<1>1. DOMAIN Put(f, name, r) = {name} \cup DOMAIN f
  BY PutIn
<1>2. IsFiniteSet(DOMAIN f \cup {name})
  BY FS_AddElement DEF Modules
<1>3. {name} \cup DOMAIN f = DOMAIN f \cup {name}
  OBVIOUS
<1>4. IsFiniteSet(DOMAIN Put(f, name, r))
  BY <1>1, <1>2, <1>3
<1>5. \A x \in DOMAIN Put(f, name, r) : Put(f, name, r)[x] = IF x = name THEN r ELSE f[x]
  BY DEF Put
<1> QED
  BY <1>1, <1>4, <1>5 DEF Modules

ModuleLaw == INSTANCE FoldLaws WITH
    Pick <- LAMBDA t : Max(t),
    Op <- LAMBDA p, q, r, s, i, v : Put(v, PythonModule(s[i], p), s[i]),
    Inv <- LAMBDA p, q, r, s, b, t, v : Modules(v, q)

(* ModuleByName maps names to files of the list.                           *)
LEMMA ModulesAreFiles ==
  ASSUME NEW records, Listed(records), \A r \in Range(records) : SourceListed(r), NEW filenames
  PROVE  Modules(ModuleByName(records, filenames), Range(records))
<1> DEFINE some == {r \in Range(records) : PythonModule(r, filenames) # <<>>}
           named == Only(records, some)
           S == Range(records)
<1>1. ModuleByName(records, filenames) =
          FoldLeft(LAMBDA f, r : Put(f, PythonModule(r, filenames), r), <<>>, named)
  BY DEF ModuleByName
<1>2. Listed(named) /\ Range(named) \subseteq S \cap some
  BY OnlyIsOf
<1>3. \A r \in some : r \in S /\ PythonModule(r, filenames) # <<>> /\ Listed(PythonModule(r, filenames))
  BY PythonModuleIsListed
<1> HIDE DEF named, some, S
<1>4. FoldLeft(LAMBDA f, r : Put(f, PythonModule(r, filenames), r), <<>>, named)
        = ModuleLaw!Fold(filenames, S, 0, named, <<>>, DOMAIN named)
  BY DEF FoldLeft, MapThenFoldSet, ModuleLaw!Fold
<1>5. \A i \in DOMAIN named : \A t \in SUBSET DOMAIN named : \A v :
          Modules(v, S) => Modules(Put(v, PythonModule(named[i], filenames), named[i]), S)
  <2>1. \A i \in DOMAIN named : named[i] \in some
    BY <1>2 DEF Range
  <2> QED
    BY <1>3, <2>1, ModulesGrow
<1>6. Modules(<<>>, S)
  BY FS_EmptySet, DOMAIN <<>> = {} DEF Modules
<1>7. Dwindles(DOMAIN named) /\ \A t \in SUBSET DOMAIN named : t # {} => Max(t) \in t
  BY <1>2, ListsFold
<1>8. Modules(ModuleLaw!Fold(filenames, S, 0, named, <<>>, DOMAIN named), S)
  BY <1>5, <1>6, <1>7, ModuleLaw!FoldKeeps DEF Dwindles
<1> QED
  BY <1>1, <1>4, <1>8 DEF S

(* What `from` may mean are finitely many names.                           *)
LEMMA TargetsAreListed ==
  ASSUME NEW module, Listed(module), module # <<>>, NEW r, NEW ref, Listed(ref.name),
         IsFiniteSet(ref.names), ref.level \in Nat, NEW known
  PROVE  /\ IsFiniteSet(FromTargets(module, r, ref, known))
         /\ \A x \in FromTargets(module, r, ref, known) : Listed(x)
<1> DEFINE package == IF IsPackage(r) THEN module ELSE Front(module)
           climbs == ref.level > 0 /\ (package = <<>> \/ ref.level > Len(package))
           base == IF ref.level = 0 THEN ref.name
                   ELSE SubSeq(package, 1, Len(package) - ref.level + 1) \o ref.name
           target(n) == IF Append(base, n) \in known THEN Append(base, n)
                        ELSE IF base = <<>> THEN <<n>> ELSE base
<1>1. FromTargets(module, r, ref, known) =
          IF climbs THEN {ref.name} ELSE {target(n) : n \in ref.names}
  BY DEF FromTargets
<1>2. Listed(package)
  <2>1. Len(module) \in Nat /\ Len(module) # 0
    BY DEF Listed
  <2>2. Listed(SubSeq(module, 1, Len(module) - 1))
    BY <2>1, PartIsListed
  <2> QED
    BY <2>2 DEF Front
<1> HIDE DEF package
<1>3. ASSUME ~climbs PROVE Listed(base)
  <2>1. Len(package) \in Nat
    BY <1>2, ListsFold
  <2>2. CASE ref.level = 0
    BY <2>2
  <2>3. CASE ref.level # 0
    <3>1. Len(package) - ref.level + 1 \in 0 .. Len(package)
      BY <1>3, <2>1, <2>3
    <3>2. Listed(SubSeq(package, 1, Len(package) - ref.level + 1))
      BY <1>2, <3>1, PartIsListed
    <3> QED
      BY <2>3, <3>2, JoinedIsListed
  <2> QED
    BY <2>2, <2>3
<1> HIDE DEF base, climbs
<1>4. CASE climbs
  BY <1>1, <1>4, FS_Singleton
<1>5. CASE ~climbs
  <2>1. \A n \in ref.names : Listed(target(n))
    BY <1>3, <1>5, SinglesAreListed, LongerIsListed
  <2> DEFINE S == {target(n) : n \in ref.names}
             f == [n \in ref.names |-> target(n)]
  <2> HIDE DEF target
  <2>2. f \in Surjection(ref.names, S)
    BY DEF Surjection
  <2>3. IsFiniteSet(S)
    <3> HIDE DEF S, f
    <3> QED
      BY <2>2, FS_Surjection
  <2> QED
    BY <1>1, <1>5, <2>1, <2>3
<1> QED
  BY <1>4, <1>5

(* An import is drawn to a module of the tree by its longest known prefix, *)
(* or else to a package.                                                   *)
LEMMA PythonEdgeIsQuiet ==
  ASSUME NEW u, Sound(u), NEW r, ModuleId(r) \in Nodes(u), NEW imported, Listed(imported),
         NEW modules, \A name \in DOMAIN modules : ModuleId(modules[name]) \in Nodes(u)
  PROVE  Quiet(u, PythonEdge(u, r, imported, modules))
<1> DEFINE found == LongestPrefix(imported, DOMAIN modules)
           top == UpTo(imported, 1)
           d == IF found # <<>> THEN SourceEdge(u, r, ModuleId(modules[found]))
                ELSE IF top # <<>> /\ Range(top) \subseteq Stdlib
                THEN External(u, r, <<"package", "python-stdlib", top>>, "python-stdlib", FALSE)
                ELSE ExternalEdge(u, r, "python", top)
<1>1. PythonEdge(u, r, imported, modules) = d
  BY DEF PythonEdge
<1>2. ASSUME found # <<>> PROVE Quiet(u, SourceEdge(u, r, ModuleId(modules[found])))
  <2>1. found \in DOMAIN modules
    BY <1>2, PrefixIsKnown
  <2> QED
    BY <2>1, SourceIsQuiet
<1>3. Quiet(u, External(u, r, <<"package", "python-stdlib", top>>, "python-stdlib", FALSE))
  <2> DEFINE id == <<"package", "python-stdlib", top>>
  <2> HIDE DEF id
  <2>1. Quiet(u, External(u, r, id, "python-stdlib", FALSE))
    BY ExternalIsQuiet
  <2> QED
    BY <2>1 DEF id
<1>4. Quiet(u, ExternalEdge(u, r, "python", top))
  BY ImportIsQuiet
<1> HIDE DEF found, top
<1> QED
  BY <1>1, <1>2, <1>3, <1>4

(* A file knows the nodes of the modules it may mean.                      *)
Known(u, modules) == \A name \in DOMAIN modules : ModuleId(modules[name]) \in Nodes(u)

FromLaw == INSTANCE FoldLaws WITH
    Pick <- LAMBDA t : CHOOSE x \in t : TRUE,
    Op <- LAMBDA p, q, r, s, i, v : PythonEdge(v, p, i, q),
    Inv <- LAMBDA p, q, r, s, b, t, v : Quiet(b, v)

(* from X import a, b: one edge for each name, in any order.               *)
LEMMA FromIsQuiet ==
  ASSUME NEW u, Sound(u), NEW r, ModuleId(r) \in Nodes(u), NEW modules,
         Known(u, modules), NEW names, IsFiniteSet(names), \A x \in names : Listed(x)
  PROVE  Quiet(u, FromLaw!Fold(r, modules, 0, 0, u, names))
<1>1. \A i \in names : \A t \in SUBSET names : \A v :
          Quiet(u, v) => Quiet(u, PythonEdge(v, r, i, modules))
  <2>1. ASSUME NEW v, NEW i \in names, Quiet(u, v)
        PROVE  Quiet(u, PythonEdge(v, r, i, modules))
    <3>1. Sound(v) /\ Nodes(u) \subseteq Nodes(v)
      BY <2>1 DEF Quiet
    <3>2. Quiet(v, PythonEdge(v, r, i, modules))
      BY <3>1, PythonEdgeIsQuiet DEF Known
    <3> QED
      BY <2>1, <3>2, QuietIsTransitive
  <2> QED
    BY <2>1
<1>2. Quiet(u, u)
  BY IndexIsQuiet
<1>3. Dwindles(names) /\ \A t \in SUBSET names : t # {} => (CHOOSE x \in t : TRUE) \in t
  BY SetsFold
<1> QED
  BY <1>1, <1>2, <1>3, FromLaw!FoldKeeps DEF Dwindles

(* One import statement of Python.                                         *)
LEMMA PythonReferIsQuiet ==
  ASSUME NEW u, Sound(u), NEW r, ModuleId(r) \in Nodes(u), SourceListed(r),
         NEW module, Listed(module), module # <<>>, NEW ref \in Range(r.refs), NEW modules,
         Known(u, modules)
  PROVE  Quiet(u, PythonRefer(u, r, module, ref, modules))
<1> DEFINE names == FromTargets(module, r, ref, DOMAIN modules)
<1>1. CASE ref.kind = "import"
  <2>1. Quiet(u, PythonEdge(u, r, ref.name, modules))
    BY PythonEdgeIsQuiet DEF SourceListed, Known
  <2> QED
    BY <1>1, <2>1 DEF PythonRefer
<1>2. CASE ref.kind = "from"
  <2>1. IsFiniteSet(names) /\ \A x \in names : Listed(x)
    BY <1>2, TargetsAreListed DEF SourceListed
  <2>2. PythonRefer(u, r, module, ref, modules)
           = FoldSet(LAMBDA t, d : PythonEdge(d, r, t, modules), u, names)
    BY <1>2 DEF PythonRefer
  <2> HIDE DEF names
  <2>3. FoldSet(LAMBDA t, d : PythonEdge(d, r, t, modules), u, names)
           = FromLaw!Fold(r, modules, 0, 0, u, names)
    BY DEF FoldSet, MapThenFoldSet, FromLaw!Fold
  <2>4. Quiet(u, FromLaw!Fold(r, modules, 0, 0, u, names))
    BY <2>1, FromIsQuiet
  <2> QED
    BY <2>2, <2>3, <2>4
<1>3. CASE ref.kind \notin {"import", "from"}
  BY <1>3, Unknowns DEF PythonRefer, Dynamic
<1> QED
  BY <1>1, <1>2, <1>3

PythonFileLaw == INSTANCE FoldLaws WITH
    Pick <- LAMBDA t : Max(t),
    Op <- LAMBDA p, q, r, s, i, v : PythonRefer(v, p, q, s[i], r),
    Inv <- LAMBDA p, q, r, s, b, t, v : Quiet(b, v)

(* All of a file's.                                                        *)
LEMMA PythonRefersAreQuiet ==
  ASSUME NEW u, Sound(u), NEW r, ModuleId(r) \in Nodes(u), SourceListed(r),
         NEW module, Listed(module), module # <<>>, NEW modules, Known(u, modules),
         NEW refs, refs = r.refs, Listed(refs)
  PROVE  Quiet(u, PythonFileLaw!Fold(r, module, modules, refs, u, DOMAIN refs))
<1>1. \A i \in DOMAIN refs : \A t \in SUBSET DOMAIN refs : \A v :
          Quiet(u, v) => Quiet(u, PythonRefer(v, r, module, refs[i], modules))
  <2>1. ASSUME NEW v, NEW i \in DOMAIN refs, Quiet(u, v)
        PROVE  Quiet(u, PythonRefer(v, r, module, refs[i], modules))
    <3>1. Sound(v) /\ Nodes(u) \subseteq Nodes(v) /\ refs[i] \in Range(refs)
      BY <2>1 DEF Quiet, Range
    <3>2. Quiet(v, PythonRefer(v, r, module, refs[i], modules))
      BY <3>1, PythonReferIsQuiet DEF Known
    <3> QED
      BY <2>1, <3>2, QuietIsTransitive
  <2> QED
    BY <2>1
<1>2. Quiet(u, u)
  BY IndexIsQuiet
<1>3. Dwindles(DOMAIN refs) /\ \A t \in SUBSET DOMAIN refs : t # {} => Max(t) \in t
  BY ListsFold
<1> QED
  BY <1>1, <1>2, <1>3, PythonFileLaw!FoldKeeps DEF Dwindles

(* One Python file.                                                        *)
LEMMA PythonFileIsQuiet ==
  ASSUME NEW u, Sound(u), NEW r, ModuleId(r) \in Nodes(u), SourceListed(r),
         NEW module, Listed(module), module # <<>>, NEW modules, Known(u, modules)
  PROVE  Quiet(u, PythonFile(u, r, module, modules))
<1> DEFINE refs == r.refs
<1>1. CASE ~r.parses
  BY <1>1, Unknowns DEF PythonFile
<1>2. CASE r.parses
  <2>1. PythonFile(u, r, module, modules)
           = PythonFileLaw!Fold(r, module, modules, refs, u, DOMAIN refs)
    BY <1>2 DEF PythonFile, FoldLeft, MapThenFoldSet, PythonFileLaw!Fold
  <2>2. Listed(refs)
    BY DEF SourceListed
  <2>3. Quiet(u, PythonFileLaw!Fold(r, module, modules, refs, u, DOMAIN refs))
    BY <2>2, PythonRefersAreQuiet
  <2> QED
    BY <2>1, <2>3
<1> QED
  BY <1>1, <1>2

(* A Python file in the group of its package.                              *)
LEMMA PythonGroupIsQuiet ==
  ASSUME NEW u, Sound(u), NEW r, NEW filenames PROVE Quiet(u, PythonGroup(u, r, filenames))
<1> DEFINE group == UpTo(PythonModule(r, filenames), 2)
<1>1. PythonGroup(u, r, filenames) = IF PythonModule(r, filenames) = <<>> THEN u ELSE Grouped(u, r, group)
  BY DEF PythonGroup
<1> HIDE DEF group
<1>2. Quiet(u, Grouped(u, r, group))
  BY GroupedIsQuiet
<1>3. Quiet(u, u)
  BY IndexIsQuiet
<1> QED
  BY <1>1, <1>2, <1>3

PythonGroupLaw == INSTANCE FoldLaws WITH
    Pick <- LAMBDA t : Max(t),
    Op <- LAMBDA p, q, r, s, i, v : PythonGroup(v, s[i], p),
    Inv <- LAMBDA p, q, r, s, b, t, v : Quiet(b, v)

(* All of them.                                                            *)
LEMMA PythonGroupsAreQuiet ==
  ASSUME NEW u, Sound(u), NEW records, Listed(records), NEW filenames
  PROVE  Quiet(u, PythonGroupLaw!Fold(filenames, 0, 0, records, u, DOMAIN records))
<1>1. \A i \in DOMAIN records : \A t \in SUBSET DOMAIN records : \A v :
          Quiet(u, v) => Quiet(u, PythonGroup(v, records[i], filenames))
  <2>1. ASSUME NEW v, NEW i \in DOMAIN records, Quiet(u, v)
        PROVE  Quiet(u, PythonGroup(v, records[i], filenames))
    <3>1. Sound(v) /\ Nodes(u) \subseteq Nodes(v) /\ records[i] \in Range(records)
      BY <2>1 DEF Quiet, Range
    <3>2. Quiet(v, PythonGroup(v, records[i], filenames))
      BY <3>1, PythonGroupIsQuiet
    <3> QED
      BY <2>1, <3>2, QuietIsTransitive
  <2> QED
    BY <2>1
<1>2. Quiet(u, u)
  BY IndexIsQuiet
<1>3. Dwindles(DOMAIN records) /\ \A t \in SUBSET DOMAIN records : t # {} => Max(t) \in t
  BY ListsFold
<1> QED
  BY <1>1, <1>2, <1>3, PythonGroupLaw!FoldKeeps DEF Dwindles

PythonLaw == INSTANCE FoldLaws WITH
    Pick <- LAMBDA t : CHOOSE x \in t : TRUE,
    Op <- LAMBDA p, q, r, s, i, v : PythonFile(v, p[i], i, p),
    Inv <- LAMBDA p, q, r, s, b, t, v : Quiet(b, v)

(* Every Python file that has a module name.                               *)
LEMMA PythonFilesAreQuiet ==
  ASSUME NEW u, Sound(u), NEW S, Sited(u, S), NEW names, NEW modules,
         Modules(modules, S), names = DOMAIN modules
  PROVE  Quiet(u, PythonLaw!Fold(modules, 0, 0, 0, u, names))
<1>1. \A i \in names : \A t \in SUBSET names : \A v :
          Quiet(u, v) => Quiet(u, PythonFile(v, modules[i], i, modules))
  <2>1. ASSUME NEW v, NEW i \in names, Quiet(u, v)
        PROVE  Quiet(u, PythonFile(v, modules[i], i, modules))
    <3>1. Sound(v) /\ Nodes(u) \subseteq Nodes(v)
      BY <2>1 DEF Quiet
    <3>2. Quiet(v, PythonFile(v, modules[i], i, modules))
      BY <3>1, PythonFileIsQuiet DEF Sited, Known, Modules
    <3> QED
      BY <2>1, <3>2, QuietIsTransitive
  <2> QED
    BY <2>1
<1>2. Quiet(u, u)
  BY IndexIsQuiet
<1>3. Dwindles(names) /\ \A t \in SUBSET names : t # {} => (CHOOSE x \in t : TRUE) \in t
  BY SetsFold DEF Modules
<1> QED
  BY <1>1, <1>2, <1>3, PythonLaw!FoldKeeps DEF Dwindles

(* The Python reader: groups, module names, imports.                       *)
LEMMA PythonIsQuiet ==
  ASSUME NEW u, Sound(u), NEW records, Listed(records), Sited(u, Range(records)), NEW filenames
  PROVE  Quiet(u, Python(u, records, filenames))
<1> DEFINE modules == ModuleByName(records, filenames)
           S == Range(records)
           names == DOMAIN modules
           base == PythonGroupLaw!Fold(filenames, 0, 0, records, u, DOMAIN records)
<1>1. FoldLeft(LAMBDA d, r : PythonGroup(d, r, filenames), u, records) = base
  BY DEF FoldLeft, MapThenFoldSet, PythonGroupLaw!Fold
<1>2. Python(u, records, filenames)
        = FoldSet(LAMBDA module, d : PythonFile(d, modules[module], module, modules), base, names)
  BY <1>1 DEF Python
<1>3. Modules(modules, S)
  BY ModulesAreFiles DEF Sited
<1>4. Quiet(u, base)
  BY PythonGroupsAreQuiet
<1> HIDE DEF modules, base, S
<1>5. Sound(base) /\ Sited(base, S)
  BY <1>4, SitedStays DEF Quiet, S
<1> HIDE DEF names
<1>6. FoldSet(LAMBDA module, d : PythonFile(d, modules[module], module, modules), base, names)
        = PythonLaw!Fold(modules, 0, 0, 0, base, names)
  BY DEF FoldSet, MapThenFoldSet, PythonLaw!Fold
<1>7. Quiet(base, PythonLaw!Fold(modules, 0, 0, 0, base, names))
  BY <1>3, <1>5, PythonFilesAreQuiet DEF names
<1> QED
  BY <1>2, <1>4, <1>6, <1>7, QuietIsTransitive

-----------------------------------------------------------------------------
(* Java.                                                                   *)
Mapping(f, S) == \A name \in DOMAIN f : f[name] \in S

SymbolLaw == INSTANCE FoldLaws WITH
    Pick <- LAMBDA t : Max(t),
    Op <- LAMBDA p, q, r, s, i, v : AddTypes(v, s[i]),
    Inv <- LAMBDA p, q, r, s, b, t, v : Mapping(v, Range(s))

(* The types of Java map to files of the list.                             *)
LEMMA SymbolsAreFiles ==
  ASSUME NEW records, Listed(records) PROVE Mapping(JavaSymbols(records), Range(records))
<1>1. JavaSymbols(records) = SymbolLaw!Fold(0, 0, 0, records, <<>>, DOMAIN records)
  BY DEF JavaSymbols, FoldLeft, MapThenFoldSet, SymbolLaw!Fold
<1>2. \A i \in DOMAIN records : \A t \in SUBSET DOMAIN records : \A v :
          Mapping(v, Range(records)) => Mapping(AddTypes(v, records[i]), Range(records))
  BY DEF Mapping, Range, AddTypes
<1>3. Mapping(<<>>, Range(records))
  BY DOMAIN <<>> = {} DEF Mapping
<1>4. Dwindles(DOMAIN records) /\ \A t \in SUBSET DOMAIN records : t # {} => Max(t) \in t
  BY ListsFold
<1>5. Mapping(SymbolLaw!Fold(0, 0, 0, records, <<>>, DOMAIN records), Range(records))
  BY <1>2, <1>3, <1>4, SymbolLaw!FoldKeeps DEF Dwindles
<1> QED
  BY <1>1, <1>5

(* One import of Java: to a type of the tree, to a package of it, or out   *)
(* of it.                                                                  *)
LEMMA JavaReferIsQuiet ==
  ASSUME NEW u, Sound(u), NEW r, ModuleId(r) \in Nodes(u), NEW ref, Listed(ref.name),
         NEW symbols, Known(u, symbols), NEW packages
  PROVE  Quiet(u, JavaRefer(u, r, ref, symbols, packages))
<1> DEFINE found == LongestPrefix(ref.name, DOMAIN symbols)
           package == IF ref.kind = "wildcard" THEN ref.name ELSE Front(ref.name)
           w == AddNamespace(u, r, "java", package)
           id == <<"namespace", "java", package>>
<1>1. JavaRefer(u, r, ref, symbols, packages) =
          IF found # <<>> THEN SourceEdge(u, r, ModuleId(symbols[found]))
          ELSE IF package \in packages THEN SourceEdge(w, r, id)
          ELSE ExternalEdge(u, r, "java", ref.name)
  BY DEF JavaRefer
<1>2. ASSUME found # <<>> PROVE Quiet(u, SourceEdge(u, r, ModuleId(symbols[found])))
  <2>1. found \in DOMAIN symbols
    BY <1>2, PrefixIsKnown
  <2> QED
    BY <2>1, SourceIsQuiet DEF Known
<1>3. Quiet(u, SourceEdge(w, r, id))
  <2> HIDE DEF package
  <2>1. Quiet(u, w) /\ id \in Nodes(w)
    BY NamespaceIsQuiet
  <2> HIDE DEF w, id
  <2>2. Sound(w) /\ ModuleId(r) \in Nodes(w)
    BY <2>1 DEF Quiet
  <2>3. Quiet(w, SourceEdge(w, r, id))
    BY <2>1, <2>2, SourceIsQuiet
  <2> QED
    BY <2>1, <2>3, QuietIsTransitive
<1>4. Quiet(u, ExternalEdge(u, r, "java", ref.name))
  BY ImportIsQuiet
<1> HIDE DEF found, package, w, id
<1> QED
  BY <1>1, <1>2, <1>3, <1>4

JavaFileLaw == INSTANCE FoldLaws WITH
    Pick <- LAMBDA t : Max(t),
    Op <- LAMBDA p, q, r, s, i, v : JavaRefer(v, p, s[i], q, r),
    Inv <- LAMBDA p, q, r, s, b, t, v : Quiet(b, v)

(* All of a file's.                                                        *)
LEMMA JavaRefersAreQuiet ==
  ASSUME NEW u, Sound(u), NEW r, ModuleId(r) \in Nodes(u), SourceListed(r),
         NEW symbols, Known(u, symbols), NEW packages, NEW refs, refs = r.refs, Listed(refs)
  PROVE  Quiet(u, JavaFileLaw!Fold(r, symbols, packages, refs, u, DOMAIN refs))
<1>1. \A i \in DOMAIN refs : \A t \in SUBSET DOMAIN refs : \A v :
          Quiet(u, v) => Quiet(u, JavaRefer(v, r, refs[i], symbols, packages))
  <2>1. ASSUME NEW v, NEW i \in DOMAIN refs, Quiet(u, v)
        PROVE  Quiet(u, JavaRefer(v, r, refs[i], symbols, packages))
    <3>1. Sound(v) /\ Nodes(u) \subseteq Nodes(v) /\ refs[i] \in Range(refs)
      BY <2>1 DEF Quiet, Range
    <3>2. Quiet(v, JavaRefer(v, r, refs[i], symbols, packages))
      BY <3>1, JavaReferIsQuiet DEF Known, SourceListed
    <3> QED
      BY <2>1, <3>2, QuietIsTransitive
  <2> QED
    BY <2>1
<1>2. Quiet(u, u)
  BY IndexIsQuiet
<1>3. Dwindles(DOMAIN refs) /\ \A t \in SUBSET DOMAIN refs : t # {} => Max(t) \in t
  BY ListsFold
<1> QED
  BY <1>1, <1>2, <1>3, JavaFileLaw!FoldKeeps DEF Dwindles

(* One Java file.                                                          *)
LEMMA JavaFileIsQuiet ==
  ASSUME NEW u, Sound(u), NEW r, ModuleId(r) \in Nodes(u), SourceListed(r),
         NEW symbols, Known(u, symbols), NEW packages
  PROVE  Quiet(u, JavaFile(u, r, symbols, packages))
<1> DEFINE refs == r.refs
<1>1. JavaFile(u, r, symbols, packages) = JavaFileLaw!Fold(r, symbols, packages, refs, u, DOMAIN refs)
  BY DEF JavaFile, FoldLeft, MapThenFoldSet, JavaFileLaw!Fold
<1>2. Quiet(u, JavaFileLaw!Fold(r, symbols, packages, refs, u, DOMAIN refs))
  BY JavaRefersAreQuiet DEF SourceListed
<1> QED
  BY <1>1, <1>2

(* A Java file in the group of its package.                                *)
LEMMA JavaGroupIsQuiet ==
  ASSUME NEW u, Sound(u), NEW r PROVE Quiet(u, JavaGroup(u, r))
BY GroupedIsQuiet DEF JavaGroup

JavaGroupLaw == INSTANCE FoldLaws WITH
    Pick <- LAMBDA t : Max(t),
    Op <- LAMBDA p, q, r, s, i, v : JavaGroup(v, s[i]),
    Inv <- LAMBDA p, q, r, s, b, t, v : Quiet(b, v)

(* All of them.                                                            *)
LEMMA JavaGroupsAreQuiet ==
  ASSUME NEW u, Sound(u), NEW records, Listed(records)
  PROVE  Quiet(u, JavaGroupLaw!Fold(0, 0, 0, records, u, DOMAIN records))
<1>1. \A i \in DOMAIN records : \A t \in SUBSET DOMAIN records : \A v :
          Quiet(u, v) => Quiet(u, JavaGroup(v, records[i]))
  <2>1. ASSUME NEW v, NEW i \in DOMAIN records, Quiet(u, v)
        PROVE  Quiet(u, JavaGroup(v, records[i]))
    <3>1. Sound(v) /\ Nodes(u) \subseteq Nodes(v) /\ records[i] \in Range(records)
      BY <2>1 DEF Quiet, Range
    <3>2. Quiet(v, JavaGroup(v, records[i]))
      BY <3>1, JavaGroupIsQuiet
    <3> QED
      BY <2>1, <3>2, QuietIsTransitive
  <2> QED
    BY <2>1
<1>2. Quiet(u, u)
  BY IndexIsQuiet
<1>3. Dwindles(DOMAIN records) /\ \A t \in SUBSET DOMAIN records : t # {} => Max(t) \in t
  BY ListsFold
<1> QED
  BY <1>1, <1>2, <1>3, JavaGroupLaw!FoldKeeps DEF Dwindles

JavaLaw == INSTANCE FoldLaws WITH
    Pick <- LAMBDA t : Max(t),
    Op <- LAMBDA p, q, r, s, i, v : JavaFile(v, s[i], p, q),
    Inv <- LAMBDA p, q, r, s, b, t, v : Quiet(b, v)

(* Every Java file.                                                        *)
LEMMA JavaFilesAreQuiet ==
  ASSUME NEW u, Sound(u), NEW records, Listed(records), Sited(u, Range(records)),
         NEW symbols, Known(u, symbols), NEW packages
  PROVE  Quiet(u, JavaLaw!Fold(symbols, packages, 0, records, u, DOMAIN records))
<1>1. \A i \in DOMAIN records : \A t \in SUBSET DOMAIN records : \A v :
          Quiet(u, v) => Quiet(u, JavaFile(v, records[i], symbols, packages))
  <2>1. ASSUME NEW v, NEW i \in DOMAIN records, Quiet(u, v)
        PROVE  Quiet(u, JavaFile(v, records[i], symbols, packages))
    <3>1. Sound(v) /\ Nodes(u) \subseteq Nodes(v) /\ records[i] \in Range(records)
      BY <2>1 DEF Quiet, Range
    <3>2. Quiet(v, JavaFile(v, records[i], symbols, packages))
      BY <3>1, JavaFileIsQuiet DEF Sited, Known
    <3> QED
      BY <2>1, <3>2, QuietIsTransitive
  <2> QED
    BY <2>1
<1>2. Quiet(u, u)
  BY IndexIsQuiet
<1>3. Dwindles(DOMAIN records) /\ \A t \in SUBSET DOMAIN records : t # {} => Max(t) \in t
  BY ListsFold
<1> QED
  BY <1>1, <1>2, <1>3, JavaLaw!FoldKeeps DEF Dwindles

(* The Java reader.                                                        *)
LEMMA JavaIsQuiet ==
  ASSUME NEW u, Sound(u), NEW records, Listed(records), Sited(u, Range(records))
  PROVE  Quiet(u, Java(u, records))
<1> DEFINE symbols == JavaSymbols(records)
           packages == {r.decl : r \in Range(records)}
           base == JavaGroupLaw!Fold(0, 0, 0, records, u, DOMAIN records)
<1>1. FoldLeft(JavaGroup, u, records) = base
  BY DEF FoldLeft, MapThenFoldSet, JavaGroupLaw!Fold
<1>2. Java(u, records) = FoldLeft(LAMBDA d, r : JavaFile(d, r, symbols, packages), base, records)
  BY <1>1 DEF Java
<1>3. Mapping(symbols, Range(records))
  BY SymbolsAreFiles
<1>4. Quiet(u, base)
  BY JavaGroupsAreQuiet
<1> HIDE DEF symbols, base, packages
<1>5. Sound(base) /\ Sited(base, Range(records))
  BY <1>4, SitedStays DEF Quiet
<1>6. FoldLeft(LAMBDA d, r : JavaFile(d, r, symbols, packages), base, records)
        = JavaLaw!Fold(symbols, packages, 0, records, base, DOMAIN records)
  BY DEF FoldLeft, MapThenFoldSet, JavaLaw!Fold
<1>7. Known(base, symbols)
  BY <1>3, <1>5 DEF Mapping, Known, Sited
<1>8. Quiet(base, JavaLaw!Fold(symbols, packages, 0, records, base, DOMAIN records))
  BY <1>5, <1>7, JavaFilesAreQuiet
<1> QED
  BY <1>2, <1>4, <1>6, <1>8, QuietIsTransitive

-----------------------------------------------------------------------------
(* C#.                                                                     *)
LEMMA CsharpGroupIsQuiet ==
  ASSUME NEW u, Sound(u), NEW r
  PROVE  /\ Quiet(u, CsharpGroup(u, r))
         /\ r.decl # <<>> => <<"namespace", "csharp", r.decl>> \in Nodes(CsharpGroup(u, r))
<1> DEFINE w == Grouped(u, r, r.decl)
<1>1. CsharpGroup(u, r) = IF r.decl = <<>> THEN Grouped(u, r, <<r.project>>)
                          ELSE AddNamespace(w, r, "csharp", r.decl)
  BY DEF CsharpGroup
<1>2. Quiet(u, Grouped(u, r, <<r.project>>)) /\ Quiet(u, w)
  BY GroupedIsQuiet
<1> HIDE DEF w
<1>3. Sound(w)
  BY <1>2 DEF Quiet
<1>4. /\ Quiet(w, AddNamespace(w, r, "csharp", r.decl))
      /\ <<"namespace", "csharp", r.decl>> \in Nodes(AddNamespace(w, r, "csharp", r.decl))
  BY <1>3, NamespaceIsQuiet
<1>5. Quiet(u, AddNamespace(w, r, "csharp", r.decl))
  BY <1>2, <1>4, QuietIsTransitive
<1> QED
  BY <1>1, <1>2, <1>4, <1>5

CsharpGroupLaw == INSTANCE FoldLaws WITH
    Pick <- LAMBDA t : Max(t),
    Op <- LAMBDA p, q, r, s, i, v : CsharpGroup(v, s[i]),
    Inv <- LAMBDA p, q, r, s, b, t, v :
               /\ Quiet(b, v)
               /\ \A k \in t : s[k].decl # <<>> => <<"namespace", "csharp", s[k].decl>> \in Nodes(v)

(* Every namespace that is declared has its node.                          *)
LEMMA NamespacesAreThere ==
  ASSUME NEW u, Sound(u), NEW records, Listed(records)
  PROVE  LET d == CsharpGroupLaw!Fold(0, 0, 0, records, u, DOMAIN records)
         IN  /\ Quiet(u, d)
             /\ \A k \in DOMAIN records :
                    records[k].decl # <<>> => <<"namespace", "csharp", records[k].decl>> \in Nodes(d)
<1> DEFINE Spaced(t, v) == \A k \in t : records[k].decl # <<>> =>
                              <<"namespace", "csharp", records[k].decl>> \in Nodes(v)
<1>1. \A i \in DOMAIN records : \A t \in SUBSET DOMAIN records : \A v :
          Quiet(u, v) /\ Spaced(t, v) =>
              Quiet(u, CsharpGroup(v, records[i])) /\ Spaced(t \cup {i}, CsharpGroup(v, records[i]))
  <2>1. ASSUME NEW v, NEW r, Quiet(u, v)
        PROVE  /\ Quiet(u, CsharpGroup(v, r)) /\ Nodes(v) \subseteq Nodes(CsharpGroup(v, r))
               /\ r.decl # <<>> => <<"namespace", "csharp", r.decl>> \in Nodes(CsharpGroup(v, r))
    <3>1. Sound(v)
      BY <2>1 DEF Quiet
    <3>2. /\ Quiet(v, CsharpGroup(v, r))
          /\ r.decl # <<>> => <<"namespace", "csharp", r.decl>> \in Nodes(CsharpGroup(v, r))
      BY <3>1, CsharpGroupIsQuiet
    <3>3. Quiet(u, CsharpGroup(v, r))
      BY <2>1, <3>2, QuietIsTransitive
    <3> QED
      BY <3>2, <3>3 DEF Quiet
  <2> QED
    BY <2>1
<1>2. Quiet(u, u) /\ Spaced({}, u)
  BY IndexIsQuiet
<1>3. Dwindles(DOMAIN records) /\ \A t \in SUBSET DOMAIN records : t # {} => Max(t) \in t
  BY ListsFold
<1> QED
  BY <1>1, <1>2, <1>3, CsharpGroupLaw!FoldKeeps DEF Dwindles

(* A file knows the nodes of the namespaces it may mean.                   *)
Spaces(u, language, namespaces) == \A x \in namespaces : <<"namespace", language, x>> \in Nodes(u)

(* One using of C#: to a namespace of the tree, which has a node, or out   *)
(* of it.                                                                  *)
LEMMA CsharpReferIsQuiet ==
  ASSUME NEW u, Sound(u), NEW r, ModuleId(r) \in Nodes(u), NEW ref, Listed(ref.name),
         NEW namespaces, Spaces(u, "csharp", namespaces)
  PROVE  Quiet(u, CsharpRefer(u, r, ref, namespaces))
<1> DEFINE found == LongestPrefix(ref.name, namespaces)
           id == <<"namespace", "csharp", found>>
<1>1. CsharpRefer(u, r, ref, namespaces) =
          IF found # <<>> THEN SourceEdge(u, r, id) ELSE ExternalEdge(u, r, "nuget-namespace", ref.name)
  BY DEF CsharpRefer
<1>2. found # <<>> => id \in Nodes(u)
  BY PrefixIsKnown DEF Spaces
<1> HIDE DEF found, id
<1>3. id \in Nodes(u) => Quiet(u, SourceEdge(u, r, id))
  BY SourceIsQuiet
<1>4. Quiet(u, ExternalEdge(u, r, "nuget-namespace", ref.name))
  BY ImportIsQuiet
<1> QED
  BY <1>1, <1>2, <1>3, <1>4

CsharpFileLaw == INSTANCE FoldLaws WITH
    Pick <- LAMBDA t : Max(t),
    Op <- LAMBDA p, q, r, s, i, v : CsharpRefer(v, p, s[i], q),
    Inv <- LAMBDA p, q, r, s, b, t, v : Quiet(b, v)

(* All of a file's.                                                        *)
LEMMA CsharpRefersAreQuiet ==
  ASSUME NEW u, Sound(u), NEW r, ModuleId(r) \in Nodes(u), SourceListed(r),
         NEW namespaces, Spaces(u, "csharp", namespaces), NEW refs, refs = r.refs, Listed(refs)
  PROVE  Quiet(u, CsharpFileLaw!Fold(r, namespaces, 0, refs, u, DOMAIN refs))
<1>1. \A i \in DOMAIN refs : \A t \in SUBSET DOMAIN refs : \A v :
          Quiet(u, v) => Quiet(u, CsharpRefer(v, r, refs[i], namespaces))
  <2>1. ASSUME NEW v, NEW i \in DOMAIN refs, Quiet(u, v)
        PROVE  Quiet(u, CsharpRefer(v, r, refs[i], namespaces))
    <3>1. Sound(v) /\ Nodes(u) \subseteq Nodes(v) /\ refs[i] \in Range(refs)
      BY <2>1 DEF Quiet, Range
    <3>2. Quiet(v, CsharpRefer(v, r, refs[i], namespaces))
      BY <3>1, CsharpReferIsQuiet DEF Spaces, SourceListed
    <3> QED
      BY <2>1, <3>2, QuietIsTransitive
  <2> QED
    BY <2>1
<1>2. Quiet(u, u)
  BY IndexIsQuiet
<1>3. Dwindles(DOMAIN refs) /\ \A t \in SUBSET DOMAIN refs : t # {} => Max(t) \in t
  BY ListsFold
<1> QED
  BY <1>1, <1>2, <1>3, CsharpFileLaw!FoldKeeps DEF Dwindles

(* One C# file.                                                            *)
LEMMA CsharpFileIsQuiet ==
  ASSUME NEW u, Sound(u), NEW r, ModuleId(r) \in Nodes(u), SourceListed(r),
         NEW namespaces, Spaces(u, "csharp", namespaces)
  PROVE  Quiet(u, CsharpFile(u, r, namespaces))
<1> DEFINE refs == r.refs
<1>1. CsharpFile(u, r, namespaces) = CsharpFileLaw!Fold(r, namespaces, 0, refs, u, DOMAIN refs)
  BY DEF CsharpFile, FoldLeft, MapThenFoldSet, CsharpFileLaw!Fold
<1>2. Quiet(u, CsharpFileLaw!Fold(r, namespaces, 0, refs, u, DOMAIN refs))
  BY CsharpRefersAreQuiet DEF SourceListed
<1> QED
  BY <1>1, <1>2

CsharpLaw == INSTANCE FoldLaws WITH
    Pick <- LAMBDA t : Max(t),
    Op <- LAMBDA p, q, r, s, i, v : CsharpFile(v, s[i], p),
    Inv <- LAMBDA p, q, r, s, b, t, v : Quiet(b, v)

(* Every C# file.                                                          *)
LEMMA CsharpFilesAreQuiet ==
  ASSUME NEW u, Sound(u), NEW records, Listed(records), Sited(u, Range(records)),
         NEW namespaces, Spaces(u, "csharp", namespaces)
  PROVE  Quiet(u, CsharpLaw!Fold(namespaces, 0, 0, records, u, DOMAIN records))
<1>1. \A i \in DOMAIN records : \A t \in SUBSET DOMAIN records : \A v :
          Quiet(u, v) => Quiet(u, CsharpFile(v, records[i], namespaces))
  <2>1. ASSUME NEW v, NEW i \in DOMAIN records, Quiet(u, v)
        PROVE  Quiet(u, CsharpFile(v, records[i], namespaces))
    <3>1. Sound(v) /\ Nodes(u) \subseteq Nodes(v) /\ records[i] \in Range(records)
      BY <2>1 DEF Quiet, Range
    <3>2. Quiet(v, CsharpFile(v, records[i], namespaces))
      BY <3>1, CsharpFileIsQuiet DEF Sited, Spaces
    <3> QED
      BY <2>1, <3>2, QuietIsTransitive
  <2> QED
    BY <2>1
<1>2. Quiet(u, u)
  BY IndexIsQuiet
<1>3. Dwindles(DOMAIN records) /\ \A t \in SUBSET DOMAIN records : t # {} => Max(t) \in t
  BY ListsFold
<1> QED
  BY <1>1, <1>2, <1>3, CsharpLaw!FoldKeeps DEF Dwindles

(* The C# reader: namespaces first, then usings.                           *)
LEMMA CsharpIsQuiet ==
  ASSUME NEW u, Sound(u), NEW records, Listed(records), Sited(u, Range(records))
  PROVE  Quiet(u, Csharp(u, records))
<1> DEFINE namespaces == {r.decl : r \in Range(records)} \ {<<>>}
           base == CsharpGroupLaw!Fold(0, 0, 0, records, u, DOMAIN records)
<1>1. FoldLeft(CsharpGroup, u, records) = base
  BY DEF FoldLeft, MapThenFoldSet, CsharpGroupLaw!Fold
<1>2. Csharp(u, records) = FoldLeft(LAMBDA d, r : CsharpFile(d, r, namespaces), base, records)
  BY <1>1 DEF Csharp
<1>3. Quiet(u, base) /\ Spaces(base, "csharp", namespaces)
  <2>1. /\ Quiet(u, base)
        /\ \A k \in DOMAIN records :
              records[k].decl # <<>> => <<"namespace", "csharp", records[k].decl>> \in Nodes(base)
    BY NamespacesAreThere
  <2> HIDE DEF base
  <2>2. \A x \in namespaces : x # <<>> /\ \E k \in DOMAIN records : x = records[k].decl
    BY DEF Range
  <2> HIDE DEF namespaces
  <2> QED
    BY <2>1, <2>2 DEF Spaces
<1> HIDE DEF namespaces, base
<1>5. Sound(base) /\ Sited(base, Range(records))
  BY <1>3, SitedStays DEF Quiet
<1>6. FoldLeft(LAMBDA d, r : CsharpFile(d, r, namespaces), base, records)
        = CsharpLaw!Fold(namespaces, 0, 0, records, base, DOMAIN records)
  BY DEF FoldLeft, MapThenFoldSet, CsharpLaw!Fold
<1>8. Quiet(base, CsharpLaw!Fold(namespaces, 0, 0, records, base, DOMAIN records))
  BY <1>3, <1>5, CsharpFilesAreQuiet
<1> QED
  BY <1>2, <1>3, <1>6, <1>8, QuietIsTransitive

-----------------------------------------------------------------------------
(* A package that is found is a node.                                      *)
LEMMA PackageIsThere ==
  ASSUME NEW u, Sound(u), NEW project, NEW eco, NEW name, NEW other
  PROVE  /\ AnyPackage(u.index, eco, name) # {} => The(AnyPackage(u.index, eco, name), other) \in Nodes(u)
         /\ Package(u.index, project, eco, name) # {} =>
                The(Package(u.index, project, eco, name), other) \in Nodes(u)
<1>1. ASSUME NEW S, S # {}, S \subseteq Nodes(u) PROVE The(S, other) \in Nodes(u)
  BY <1>1 DEF The
<1>2. AnyPackage(u.index, eco, name) \subseteq Nodes(u)
  BY DEF AnyPackage, Registered, Sound, Filed
<1>3. Package(u.index, project, eco, name) \subseteq Nodes(u)
  BY DEF Package, Registered, Sound, Filed
<1> QED
  BY <1>1, <1>2, <1>3

(* Go.                                                                     *)
LEMMA GoGroupIsQuiet ==
  ASSUME NEW u, Sound(u), NEW r, NEW go
  PROVE  /\ Quiet(u, GoGroup(u, r, go))
         /\ InModule(go, r) => <<"namespace", "go", ImportPath(go, r)>> \in Nodes(GoGroup(u, r, go))
<1> DEFINE w == Grouped(u, r, Dir(r.path))
           name == ImportPath(go, r)
<1>1. GoGroup(u, r, go) = IF InModule(go, r) THEN AddNamespace(w, r, "go", name) ELSE w
  BY DEF GoGroup
<1>2. Quiet(u, w)
  BY GroupedIsQuiet
<1> HIDE DEF w, name
<1>3. Sound(w)
  BY <1>2 DEF Quiet
<1>4. /\ Quiet(w, AddNamespace(w, r, "go", name))
      /\ <<"namespace", "go", name>> \in Nodes(AddNamespace(w, r, "go", name))
  BY <1>3, NamespaceIsQuiet
<1>5. Quiet(u, AddNamespace(w, r, "go", name))
  BY <1>2, <1>4, QuietIsTransitive
<1> QED
  BY <1>1, <1>2, <1>4, <1>5 DEF name

GoGroupLaw == INSTANCE FoldLaws WITH
    Pick <- LAMBDA t : Max(t),
    Op <- LAMBDA p, q, r, s, i, v : GoGroup(v, s[i], p),
    Inv <- LAMBDA p, q, r, s, b, t, v :
               /\ Quiet(b, v)
               /\ \A k \in t : InModule(p, s[k]) => <<"namespace", "go", ImportPath(p, s[k])>> \in Nodes(v)

(* Every directory of the module has its namespace.                        *)
LEMMA DirectoriesAreThere ==
  ASSUME NEW u, Sound(u), NEW records, Listed(records), NEW go
  PROVE  LET d == GoGroupLaw!Fold(go, 0, 0, records, u, DOMAIN records)
         IN  /\ Quiet(u, d)
             /\ \A k \in DOMAIN records : InModule(go, records[k]) =>
                    <<"namespace", "go", ImportPath(go, records[k])>> \in Nodes(d)
<1> DEFINE Spaced(t, v) == \A k \in t : InModule(go, records[k]) =>
                              <<"namespace", "go", ImportPath(go, records[k])>> \in Nodes(v)
<1>1. \A i \in DOMAIN records : \A t \in SUBSET DOMAIN records : \A v :
          Quiet(u, v) /\ Spaced(t, v) =>
              Quiet(u, GoGroup(v, records[i], go)) /\ Spaced(t \cup {i}, GoGroup(v, records[i], go))
  <2>1. ASSUME NEW v, NEW r, Quiet(u, v)
        PROVE  /\ Quiet(u, GoGroup(v, r, go)) /\ Nodes(v) \subseteq Nodes(GoGroup(v, r, go))
               /\ InModule(go, r) => <<"namespace", "go", ImportPath(go, r)>> \in Nodes(GoGroup(v, r, go))
    <3>1. Sound(v)
      BY <2>1 DEF Quiet
    <3>2. /\ Quiet(v, GoGroup(v, r, go))
          /\ InModule(go, r) => <<"namespace", "go", ImportPath(go, r)>> \in Nodes(GoGroup(v, r, go))
      BY <3>1, GoGroupIsQuiet
    <3>3. Quiet(u, GoGroup(v, r, go))
      BY <2>1, <3>2, QuietIsTransitive
    <3> QED
      BY <3>2, <3>3 DEF Quiet
  <2> QED
    BY <2>1
<1>2. Quiet(u, u) /\ Spaced({}, u)
  BY IndexIsQuiet
<1>3. Dwindles(DOMAIN records) /\ \A t \in SUBSET DOMAIN records : t # {} => Max(t) \in t
  BY ListsFold
<1> QED
  BY <1>1, <1>2, <1>3, GoGroupLaw!FoldKeeps DEF Dwindles

Directories(u, go, records) ==
    \A r \in Range(records) : InModule(go, r) => <<"namespace", "go", ImportPath(go, r)>> \in Nodes(u)

(* One import of Go: to a package of the module, which has a node, or out  *)
(* of it.                                                                  *)
LEMMA GoReferIsQuiet ==
  ASSUME NEW u, Sound(u), NEW r, ModuleId(r) \in Nodes(u), NEW ref, NEW go, NEW records,
         Directories(u, go, records)
  PROVE  Quiet(u, GoRefer(u, r, ref, go, records))
<1> DEFINE local == {ImportPath(go, o) : o \in {o \in Range(records) :
                                            o.project = r.project /\ InModule(go, o)}}
           package == AnyPackage(u.index, "go", ref.name)
           id == <<"namespace", "go", ref.name>>
           other == The(package, None)
<1>1. GoRefer(u, r, ref, go, records) =
          IF ref.name \in local THEN SourceEdge(u, r, id)
          ELSE IF package # {} THEN PackageEdge(u, r, other, "imports")
          ELSE ExternalEdge(u, r, "go", ref.name)
  BY DEF GoRefer
<1>2. ref.name \in local => id \in Nodes(u)
  BY DEF Directories
<1>3. package # {} => other \in Nodes(u)
  BY PackageIsThere
<1> HIDE DEF local, package, id, other
<1>4. id \in Nodes(u) => Quiet(u, SourceEdge(u, r, id))
  BY SourceIsQuiet
<1>5. other \in Nodes(u) => Quiet(u, PackageEdge(u, r, other, "imports"))
  BY PackageEdgeIsQuiet
<1>6. Quiet(u, ExternalEdge(u, r, "go", ref.name))
  BY ImportIsQuiet
<1> QED
  BY <1>1, <1>2, <1>3, <1>4, <1>5, <1>6

GoFileLaw == INSTANCE FoldLaws WITH
    Pick <- LAMBDA t : Max(t),
    Op <- LAMBDA p, q, r, s, i, v : GoRefer(v, p, s[i], q, r),
    Inv <- LAMBDA p, q, r, s, b, t, v : Quiet(b, v)

(* All of a file's.                                                        *)
LEMMA GoRefersAreQuiet ==
  ASSUME NEW u, Sound(u), NEW r, ModuleId(r) \in Nodes(u), NEW go,
         NEW records, Directories(u, go, records), NEW refs, Listed(refs)
  PROVE  Quiet(u, GoFileLaw!Fold(r, go, records, refs, u, DOMAIN refs))
<1>1. \A i \in DOMAIN refs : \A t \in SUBSET DOMAIN refs : \A v :
          Quiet(u, v) => Quiet(u, GoRefer(v, r, refs[i], go, records))
  <2>1. ASSUME NEW v, NEW i \in DOMAIN refs, Quiet(u, v)
        PROVE  Quiet(u, GoRefer(v, r, refs[i], go, records))
    <3>1. Sound(v) /\ Nodes(u) \subseteq Nodes(v) /\ refs[i] \in Range(refs)
      BY <2>1 DEF Quiet, Range
    <3>2. Quiet(v, GoRefer(v, r, refs[i], go, records))
      BY <3>1, GoReferIsQuiet DEF Directories
    <3> QED
      BY <2>1, <3>2, QuietIsTransitive
  <2> QED
    BY <2>1
<1>2. Quiet(u, u)
  BY IndexIsQuiet
<1>3. Dwindles(DOMAIN refs) /\ \A t \in SUBSET DOMAIN refs : t # {} => Max(t) \in t
  BY ListsFold
<1> QED
  BY <1>1, <1>2, <1>3, GoFileLaw!FoldKeeps DEF Dwindles

(* One Go file.                                                            *)
LEMMA GoFileIsQuiet ==
  ASSUME NEW u, Sound(u), NEW r, ModuleId(r) \in Nodes(u), SourceListed(r), NEW go,
         NEW records, Directories(u, go, records)
  PROVE  Quiet(u, GoFile(u, r, go, records))
<1> DEFINE refs == r.refs
<1>1. GoFile(u, r, go, records) = GoFileLaw!Fold(r, go, records, refs, u, DOMAIN refs)
  BY DEF GoFile, FoldLeft, MapThenFoldSet, GoFileLaw!Fold
<1>2. Quiet(u, GoFileLaw!Fold(r, go, records, refs, u, DOMAIN refs))
  BY GoRefersAreQuiet DEF SourceListed
<1> QED
  BY <1>1, <1>2

GoLaw == INSTANCE FoldLaws WITH
    Pick <- LAMBDA t : Max(t),
    Op <- LAMBDA p, q, r, s, i, v : GoFile(v, s[i], p, q),
    Inv <- LAMBDA p, q, r, s, b, t, v : Quiet(b, v)

(* Every Go file.                                                          *)
LEMMA GoFilesAreQuiet ==
  ASSUME NEW u, Sound(u), NEW records, Listed(records), Sited(u, Range(records)),
         NEW go, NEW all, Directories(u, go, all)
  PROVE  Quiet(u, GoLaw!Fold(go, all, 0, records, u, DOMAIN records))
<1>1. \A i \in DOMAIN records : \A t \in SUBSET DOMAIN records : \A v :
          Quiet(u, v) => Quiet(u, GoFile(v, records[i], go, all))
  <2>1. ASSUME NEW v, NEW i \in DOMAIN records, Quiet(u, v)
        PROVE  Quiet(u, GoFile(v, records[i], go, all))
    <3>1. Sound(v) /\ Nodes(u) \subseteq Nodes(v) /\ records[i] \in Range(records)
      BY <2>1 DEF Quiet, Range
    <3>2. Quiet(v, GoFile(v, records[i], go, all))
      BY <3>1, GoFileIsQuiet DEF Sited, Directories
    <3> QED
      BY <2>1, <3>2, QuietIsTransitive
  <2> QED
    BY <2>1
<1>2. Quiet(u, u)
  BY IndexIsQuiet
<1>3. Dwindles(DOMAIN records) /\ \A t \in SUBSET DOMAIN records : t # {} => Max(t) \in t
  BY ListsFold
<1> QED
  BY <1>1, <1>2, <1>3, GoLaw!FoldKeeps DEF Dwindles

(* The Go reader: packages first, then imports.                            *)
LEMMA GoIsQuiet ==
  ASSUME NEW u, Sound(u), NEW records, Listed(records), Sited(u, Range(records))
  PROVE  Quiet(u, Go(u, records))
<1> DEFINE go == u.index.go
           base == GoGroupLaw!Fold(go, 0, 0, records, u, DOMAIN records)
<1>1. FoldLeft(LAMBDA d, r : GoGroup(d, r, go), u, records) = base
  BY DEF FoldLeft, MapThenFoldSet, GoGroupLaw!Fold
<1>2. Go(u, records) = FoldLeft(LAMBDA d, r : GoFile(d, r, go, records), base, records)
  BY <1>1 DEF Go
<1> HIDE DEF go
<1>3. Quiet(u, base) /\ Directories(base, go, records)
  <2>1. /\ Quiet(u, base)
        /\ \A k \in DOMAIN records : InModule(go, records[k]) =>
              <<"namespace", "go", ImportPath(go, records[k])>> \in Nodes(base)
    BY DirectoriesAreThere
  <2> HIDE DEF base
  <2> QED
    BY <2>1 DEF Directories, Range
<1> HIDE DEF base
<1>5. Sound(base) /\ Sited(base, Range(records))
  BY <1>3, SitedStays DEF Quiet
<1>6. FoldLeft(LAMBDA d, r : GoFile(d, r, go, records), base, records)
        = GoLaw!Fold(go, records, 0, records, base, DOMAIN records)
  BY DEF FoldLeft, MapThenFoldSet, GoLaw!Fold
<1>8. Quiet(base, GoLaw!Fold(go, records, 0, records, base, DOMAIN records))
  BY <1>3, <1>5, GoFilesAreQuiet
<1> QED
  BY <1>2, <1>3, <1>6, <1>8, QuietIsTransitive

-----------------------------------------------------------------------------
(* JavaScript and TypeScript.                                              *)
LEMMA CandidatesAreListed ==
  ASSUME NEW base, Listed(NodeSuffixes) PROVE Listed(Candidates(base))
<1> DEFINE f == [k \in DOMAIN NodeSuffixes |-> Append(base, NodeSuffixes[k])]
           g == [k \in DOMAIN NodeSuffixes |-> base \o <<"index", NodeSuffixes[k]>>]
<1>1. Candidates(base) = IF Last(base) \in AnySuffix THEN <<base>>
                         ELSE f \o g
  BY DEF Candidates
<1>2. DOMAIN NodeSuffixes = 1 .. Len(NodeSuffixes) /\ Len(NodeSuffixes) \in Nat
  BY ListsFold
<1>3. ASSUME NEW h, h = [k \in DOMAIN NodeSuffixes |-> h[k]] PROVE Listed(h)
  <2>1. h \in [1 .. Len(NodeSuffixes) -> Range(h)]
    BY <1>2, <1>3 DEF Range
  <2>2. h \in Seq(Range(h))
    BY <1>2, <2>1
  <2> QED
    BY <2>2 DEF Listed
<1>4. Listed(f)
  <2>1. f = [k \in DOMAIN NodeSuffixes |-> f[k]]
    OBVIOUS
  <2> HIDE DEF f
  <2> QED
    BY <1>3, <2>1
<1>5. Listed(g)
  <2>1. g = [k \in DOMAIN NodeSuffixes |-> g[k]]
    OBVIOUS
  <2> HIDE DEF g
  <2> QED
    BY <1>3, <2>1
<1> HIDE DEF f, g
<1> QED
  BY <1>1, <1>4, <1>5, JoinedIsListed, SinglesAreListed

(* The file a relative specifier finds by its suffixes is one of the list. *)
LEMMA TargetIsFile ==
  ASSUME NEW base, Listed(NodeSuffixes), NEW records, FirstNodeTarget(base, records) # None
  PROVE  FirstNodeTarget(base, records) \in Range(records)
<1> DEFINE list == Candidates(base)
           at == {k \in DOMAIN list : \E r \in Range(records) : r.path = list[k]}
<1>1. FirstNodeTarget(base, records) =
          IF base \in {None, <<>>} \/ at = {} THEN None
          ELSE CHOOSE r \in Range(records) : r.path = list[Min(at)]
  BY DEF FirstNodeTarget
<1>2. at # {} /\ FirstNodeTarget(base, records) = CHOOSE r \in Range(records) : r.path = list[Min(at)]
  BY <1>1
<1>3. DOMAIN list \subseteq Nat
  BY CandidatesAreListed, ListsFold
<1>4. Min(at) \in at
  <2> HIDE DEF list
  <2>1. at \in SUBSET Nat
    BY <1>3
  <2> HIDE DEF at
  <2> QED
    BY <1>2, <2>1, FirstIsThere
<1>5. \E r \in Range(records) : r.path = list[Min(at)]
  BY <1>4
<1> HIDE DEF list, at
<1> QED
  BY <1>2, <1>5

(* The file a mapped path finds is one of the list.                        *)
LEMMA MappedIsFile ==
  ASSUME NEW index, NEW r, NEW spec, Listed(NodeSuffixes), NEW records,
         Mapped(index, r, spec, records) # None
  PROVE  Mapped(index, r, spec, records) \in Range(records)
<1>1. \E base : Mapped(index, r, spec, records) \in {None, FirstNodeTarget(base, records)}
  BY DEF Mapped
<1> QED
  BY <1>1, TargetIsFile

(* One specifier of JavaScript: relative, mapped, or a package.            *)
LEMMA SpecifierIsQuiet ==
  ASSUME NEW u, Sound(u), NEW r, ModuleId(r) \in Nodes(u), NEW ref, Listed(NodeSuffixes),
         NEW records, Sited(u, Range(records))
  PROVE  Quiet(u, JavascriptSpecifier(u, r, ref, records))
<1> DEFINE spec == ref.name
           mapped == Mapped(u.index, r, spec, records)
           near == FirstNodeTarget(Resolve(Dir(r.path) \o spec), records)
           builtin == <<"namespace", "node", Tail(spec)>>
           package == Package(u.index, r.project, "npm", <<Head(spec)>>)
           other == The(package, None)
           kind == IF ref.kind = "dynamic" THEN "dynamic-imports" ELSE "imports"
           n == [Blank EXCEPT !.type = "namespace", !.group = <<"node-builtin">>]
           w == [u EXCEPT !.graph = AddNode(@, builtin, n)]
           single == <<Head(spec)>>
<1>1. JavascriptSpecifier(u, r, ref, records) =
          IF mapped # None THEN SourceEdge(u, r, ModuleId(mapped))
          ELSE IF Head(spec) \in {".", ".."}
          THEN IF near # None THEN SourceEdge(u, r, ModuleId(near))
               ELSE ExternalEdge(u, r, "javascript-relative", spec)
          ELSE IF Head(spec) = "node:" THEN PackageEdge(w, r, builtin, kind)
          ELSE IF package # {} THEN PackageEdge(u, r, other, kind)
          ELSE ExternalEdge(u, r, "npm", single)
  BY DEF JavascriptSpecifier
<1>2. mapped # None => mapped \in Range(records)
  BY MappedIsFile
<1>3. near # None => near \in Range(records)
  BY TargetIsFile
<1>4. package # {} => other \in Nodes(u)
  BY PackageIsThere
<1>5. Quiet(u, w) /\ builtin \in Nodes(w)
  <2> HIDE DEF builtin, n
  <2> QED
    BY NodeIsQuiet
<1> HIDE DEF spec, mapped, near, builtin, package, other, kind, w, single
<1>6. mapped # None => Quiet(u, SourceEdge(u, r, ModuleId(mapped)))
  BY <1>2, SourceIsQuiet DEF Sited
<1>7. near # None => Quiet(u, SourceEdge(u, r, ModuleId(near)))
  BY <1>3, SourceIsQuiet DEF Sited
<1>8. Quiet(u, PackageEdge(w, r, builtin, kind))
  <2>1. Sound(w) /\ ModuleId(r) \in Nodes(w)
    BY <1>5 DEF Quiet
  <2>2. Quiet(w, PackageEdge(w, r, builtin, kind))
    BY <1>5, <2>1, PackageEdgeIsQuiet
  <2> QED
    BY <1>5, <2>2, QuietIsTransitive
<1>9. package # {} => Quiet(u, PackageEdge(u, r, other, kind))
  BY <1>4, PackageEdgeIsQuiet
<1>10. Quiet(u, ExternalEdge(u, r, "npm", single))
  BY ImportIsQuiet
<1>11. Quiet(u, ExternalEdge(u, r, "javascript-relative", spec))
  BY ImportIsQuiet
<1> QED
  BY <1>1, <1>6, <1>7, <1>8, <1>9, <1>10, <1>11

(* One reference, if it has a specifier.                                   *)
LEMMA JavascriptReferIsQuiet ==
  ASSUME NEW u, Sound(u), NEW r, ModuleId(r) \in Nodes(u), NEW ref, Listed(NodeSuffixes),
         NEW records, Sited(u, Range(records))
  PROVE  Quiet(u, JavascriptRefer(u, r, ref, records))
<1>1. Quiet(u, JavascriptSpecifier(u, r, ref, records))
  BY SpecifierIsQuiet
<1>2. Quiet(u, Dynamic(u, r))
  BY Unknowns DEF Dynamic
<1> QED
  BY <1>1, <1>2 DEF JavascriptRefer

JavascriptFileLaw == INSTANCE FoldLaws WITH
    Pick <- LAMBDA t : Max(t),
    Op <- LAMBDA p, q, r, s, i, v : JavascriptRefer(v, p, s[i], q),
    Inv <- LAMBDA p, q, r, s, b, t, v : Quiet(b, v)

(* All of a file's.                                                        *)
LEMMA JavascriptRefersAreQuiet ==
  ASSUME NEW u, Sound(u), NEW r, ModuleId(r) \in Nodes(u), Listed(NodeSuffixes),
         NEW records, Sited(u, Range(records)), NEW refs, Listed(refs)
  PROVE  Quiet(u, JavascriptFileLaw!Fold(r, records, 0, refs, u, DOMAIN refs))
<1>1. \A i \in DOMAIN refs : \A t \in SUBSET DOMAIN refs : \A v :
          Quiet(u, v) => Quiet(u, JavascriptRefer(v, r, refs[i], records))
  <2>1. ASSUME NEW v, NEW i \in DOMAIN refs, Quiet(u, v)
        PROVE  Quiet(u, JavascriptRefer(v, r, refs[i], records))
    <3>1. Sound(v) /\ Nodes(u) \subseteq Nodes(v) /\ refs[i] \in Range(refs)
      BY <2>1 DEF Quiet, Range
    <3>2. Quiet(v, JavascriptRefer(v, r, refs[i], records))
      BY <3>1, JavascriptReferIsQuiet DEF Sited
    <3> QED
      BY <2>1, <3>2, QuietIsTransitive
  <2> QED
    BY <2>1
<1>2. Quiet(u, u)
  BY IndexIsQuiet
<1>3. Dwindles(DOMAIN refs) /\ \A t \in SUBSET DOMAIN refs : t # {} => Max(t) \in t
  BY ListsFold
<1> QED
  BY <1>1, <1>2, <1>3, JavascriptFileLaw!FoldKeeps DEF Dwindles

(* One JavaScript or TypeScript file.                                      *)
LEMMA JavascriptFileIsQuiet ==
  ASSUME NEW u, Sound(u), NEW r, ModuleId(r) \in Nodes(u), SourceListed(r),
         Listed(NodeSuffixes), NEW records, Sited(u, Range(records))
  PROVE  Quiet(u, JavascriptFile(u, r, records))
<1> DEFINE refs == r.refs
<1>1. JavascriptFile(u, r, records) = JavascriptFileLaw!Fold(r, records, 0, refs, u, DOMAIN refs)
  BY DEF JavascriptFile, FoldLeft, MapThenFoldSet, JavascriptFileLaw!Fold
<1>2. Quiet(u, JavascriptFileLaw!Fold(r, records, 0, refs, u, DOMAIN refs))
  BY JavascriptRefersAreQuiet DEF SourceListed
<1> QED
  BY <1>1, <1>2

(* A file in the group of its directory.                                   *)
LEMMA JavascriptGroupIsQuiet ==
  ASSUME NEW u, Sound(u), NEW r PROVE Quiet(u, JavascriptGroup(u, r))
BY GroupedIsQuiet DEF JavascriptGroup

JavascriptGroupLaw == INSTANCE FoldLaws WITH
    Pick <- LAMBDA t : Max(t),
    Op <- LAMBDA p, q, r, s, i, v : JavascriptGroup(v, s[i]),
    Inv <- LAMBDA p, q, r, s, b, t, v : Quiet(b, v)

(* All of them.                                                            *)
LEMMA JavascriptGroupsAreQuiet ==
  ASSUME NEW u, Sound(u), NEW records, Listed(records)
  PROVE  Quiet(u, JavascriptGroupLaw!Fold(0, 0, 0, records, u, DOMAIN records))
<1>1. \A i \in DOMAIN records : \A t \in SUBSET DOMAIN records : \A v :
          Quiet(u, v) => Quiet(u, JavascriptGroup(v, records[i]))
  <2>1. ASSUME NEW v, NEW i \in DOMAIN records, Quiet(u, v)
        PROVE  Quiet(u, JavascriptGroup(v, records[i]))
    <3>1. Sound(v) /\ Nodes(u) \subseteq Nodes(v) /\ records[i] \in Range(records)
      BY <2>1 DEF Quiet, Range
    <3>2. Quiet(v, JavascriptGroup(v, records[i]))
      BY <3>1, JavascriptGroupIsQuiet
    <3> QED
      BY <2>1, <3>2, QuietIsTransitive
  <2> QED
    BY <2>1
<1>2. Quiet(u, u)
  BY IndexIsQuiet
<1>3. Dwindles(DOMAIN records) /\ \A t \in SUBSET DOMAIN records : t # {} => Max(t) \in t
  BY ListsFold
<1> QED
  BY <1>1, <1>2, <1>3, JavascriptGroupLaw!FoldKeeps DEF Dwindles

JavascriptLaw == INSTANCE FoldLaws WITH
    Pick <- LAMBDA t : Max(t),
    Op <- LAMBDA p, q, r, s, i, v : JavascriptFile(v, s[i], p),
    Inv <- LAMBDA p, q, r, s, b, t, v : Quiet(b, v)

(* Every JavaScript or TypeScript file.                                    *)
LEMMA JavascriptFilesAreQuiet ==
  ASSUME NEW u, Sound(u), NEW records, Listed(records), Listed(NodeSuffixes),
         Sited(u, Range(records)), NEW all, Sited(u, Range(all))
  PROVE  Quiet(u, JavascriptLaw!Fold(all, 0, 0, records, u, DOMAIN records))
<1>1. \A i \in DOMAIN records : \A t \in SUBSET DOMAIN records : \A v :
          Quiet(u, v) => Quiet(u, JavascriptFile(v, records[i], all))
  <2>1. ASSUME NEW v, NEW i \in DOMAIN records, Quiet(u, v)
        PROVE  Quiet(u, JavascriptFile(v, records[i], all))
    <3>1. Sound(v) /\ Nodes(u) \subseteq Nodes(v) /\ records[i] \in Range(records)
      BY <2>1 DEF Quiet, Range
    <3>2. Quiet(v, JavascriptFile(v, records[i], all))
      BY <3>1, JavascriptFileIsQuiet DEF Sited
    <3> QED
      BY <2>1, <3>2, QuietIsTransitive
  <2> QED
    BY <2>1
<1>2. Quiet(u, u)
  BY IndexIsQuiet
<1>3. Dwindles(DOMAIN records) /\ \A t \in SUBSET DOMAIN records : t # {} => Max(t) \in t
  BY ListsFold
<1> QED
  BY <1>1, <1>2, <1>3, JavascriptLaw!FoldKeeps DEF Dwindles

(* The JavaScript reader.                                                  *)
LEMMA JavascriptIsQuiet ==
  ASSUME NEW u, Sound(u), NEW records, Listed(records), Sited(u, Range(records)),
         Listed(NodeSuffixes)
  PROVE  Quiet(u, Javascript(u, records))
<1> DEFINE base == JavascriptGroupLaw!Fold(0, 0, 0, records, u, DOMAIN records)
<1>1. FoldLeft(JavascriptGroup, u, records) = base
  BY DEF FoldLeft, MapThenFoldSet, JavascriptGroupLaw!Fold
<1>2. Javascript(u, records) = FoldLeft(LAMBDA d, r : JavascriptFile(d, r, records), base, records)
  BY <1>1 DEF Javascript
<1>4. Quiet(u, base)
  BY JavascriptGroupsAreQuiet
<1> HIDE DEF base
<1>5. Sound(base) /\ Sited(base, Range(records))
  BY <1>4, SitedStays DEF Quiet
<1>6. FoldLeft(LAMBDA d, r : JavascriptFile(d, r, records), base, records)
        = JavascriptLaw!Fold(records, 0, 0, records, base, DOMAIN records)
  BY DEF FoldLeft, MapThenFoldSet, JavascriptLaw!Fold
<1>8. Quiet(base, JavascriptLaw!Fold(records, 0, 0, records, base, DOMAIN records))
  BY <1>5, JavascriptFilesAreQuiet
<1> QED
  BY <1>2, <1>4, <1>6, <1>8, QuietIsTransitive

-----------------------------------------------------------------------------
(* The files of a tree.                                                    *)
LEMMA OverlayIsQuiet ==
  ASSUME NEW u, Sound(u), NEW code, NEW o PROVE Quiet(u, Overlay(u, code, o))
BY UnknownIsQuiet DEF Overlay

(* Other values for the nodes there are.                                   *)
LEMMA NodesAreReplaced ==
  ASSUME NEW u, Sound(u), NEW f, DOMAIN f = Nodes(u)
  PROVE  Quiet(u, [u EXCEPT !.graph.nodes = f])
<1> DEFINE d == [u EXCEPT !.graph.nodes = f]
<1>1. /\ Shaped(d) /\ d.index = u.index /\ d.graph.nodes = f /\ d.graph.edges = u.graph.edges
  BY DEF Sound, Shaped
<1> HIDE DEF d
<1>2. Quiet(u, d)
  BY <1>1 DEF Quiet, Sound, Filed, Integrity, Nodes, Edges, Declares, Locks
<1> QED
  BY <1>2 DEF d

(* A node of the runtime overlay.                                          *)
LEMMA RuntimeNodeIsQuiet ==
  ASSUME NEW u, Sound(u), NEW id, NEW type, NEW project, NEW group
  PROVE  /\ Quiet(u, RuntimeNode(u, id, type, project, group))
         /\ id \in Nodes(RuntimeNode(u, id, type, project, group))
<1> DEFINE n == [Blank EXCEPT !.type = type, !.project = project, !.group = <<group>>]
<1>1. RuntimeNode(u, id, type, project, group) = [u EXCEPT !.graph = AddNode(@, id, n)]
  BY DEF RuntimeNode
<1> HIDE DEF n
<1>2. /\ Quiet(u, [u EXCEPT !.graph = AddNode(@, id, n)])
      /\ id \in Nodes([u EXCEPT !.graph = AddNode(@, id, n)])
  BY NodeIsQuiet
<1> QED
  BY <1>1, <1>2

(* A service it lists.                                                     *)
LEMMA ServiceIsQuiet ==
  ASSUME NEW u, Sound(u), NEW n PROVE Quiet(u, RuntimeService(u, n))
<1> DEFINE id == n.id
           type == n.type
           project == n.project
<1>1. RuntimeService(u, n) = RuntimeNode(u, id, type, project, "runtime")
  BY DEF RuntimeService
<1> HIDE DEF id, type, project
<1> QED
  BY <1>1, RuntimeNodeIsQuiet

EndsLaw == INSTANCE FoldLaws WITH
    Pick <- LAMBDA t : Max(t),
    Op <- LAMBDA p, q, r, s, i, v :
              IF s[i] \in DOMAIN v.graph.nodes THEN v
              ELSE RuntimeNode(v, s[i], "unknown", None, "runtime-unmapped"),
    Inv <- LAMBDA p, q, r, s, b, t, v : Quiet(b, v) /\ \A k \in t : s[k] \in Nodes(v)

(* An edge has its ends.                                                   *)
LEMMA EndsAreThere ==
  ASSUME NEW u, Sound(u), NEW e
  PROVE  Quiet(u, Ends(u, e)) /\ {e.source, e.target} \subseteq Nodes(Ends(u, e))
<1> DEFINE ids == <<e.source, e.target>>
<1>0. Ends(u, e) = EndsLaw!Fold(0, 0, 0, ids, u, DOMAIN ids)
  BY DEF Ends, FoldLeft, MapThenFoldSet, EndsLaw!Fold
<1>1. \A i \in DOMAIN ids : \A t \in SUBSET DOMAIN ids : \A v :
          Quiet(u, v) /\ (\A k \in t : ids[k] \in Nodes(v)) =>
              LET d == IF ids[i] \in DOMAIN v.graph.nodes THEN v
                       ELSE RuntimeNode(v, ids[i], "unknown", None, "runtime-unmapped")
              IN  Quiet(u, d) /\ \A k \in t \cup {i} : ids[k] \in Nodes(d)
  <2>1. ASSUME NEW v, NEW id, Quiet(u, v)
        PROVE  LET d == RuntimeNode(v, id, "unknown", None, "runtime-unmapped")
               IN  Quiet(u, d) /\ Nodes(v) \subseteq Nodes(d) /\ id \in Nodes(d)
    <3> DEFINE d == RuntimeNode(v, id, "unknown", None, "runtime-unmapped")
    <3>1. Sound(v)
      BY <2>1 DEF Quiet
    <3>2. Quiet(v, d) /\ id \in Nodes(d)
      BY <3>1, RuntimeNodeIsQuiet
    <3> HIDE DEF d
    <3>3. Quiet(u, d)
      BY <2>1, <3>2, QuietIsTransitive
    <3>4. Nodes(v) \subseteq Nodes(d)
      BY <3>2 DEF Quiet
    <3> QED
      BY <3>2, <3>3, <3>4 DEF d
  <2> HIDE DEF ids
  <2>2. ASSUME NEW i \in DOMAIN ids, NEW t \in SUBSET DOMAIN ids, NEW v, Quiet(u, v),
               \A k \in t : ids[k] \in Nodes(v), ids[i] \in DOMAIN v.graph.nodes
        PROVE  \A k \in t \cup {i} : ids[k] \in Nodes(v)
    BY <2>2 DEF Nodes
  <2>3. ASSUME NEW i \in DOMAIN ids, NEW t \in SUBSET DOMAIN ids, NEW v, Quiet(u, v),
               \A k \in t : ids[k] \in Nodes(v)
        PROVE  LET d == RuntimeNode(v, ids[i], "unknown", None, "runtime-unmapped")
               IN  Quiet(u, d) /\ \A k \in t \cup {i} : ids[k] \in Nodes(d)
    BY <2>1, <2>3
  <2> QED
    BY <2>2, <2>3
<1>2. Quiet(u, u)
  BY IndexIsQuiet
<1>3. Dwindles(DOMAIN ids) /\ \A t \in SUBSET DOMAIN ids : t # {} => Max(t) \in t
  <2>1. ids \in Seq({e.source, e.target})
    OBVIOUS
  <2> HIDE DEF ids
  <2> QED
    BY <2>1, SequencesAreListed, ListsFold
<1>4. DOMAIN ids = 1 .. 2 /\ ids[1] = e.source /\ ids[2] = e.target
  OBVIOUS
<1> HIDE DEF ids
<1>5. LET d == EndsLaw!Fold(0, 0, 0, ids, u, DOMAIN ids)
      IN  Quiet(u, d) /\ \A k \in DOMAIN ids : ids[k] \in Nodes(d)
  BY <1>1, <1>2, <1>3, EndsLaw!FoldKeeps DEF Dwindles
<1> QED
  BY <1>0, <1>4, <1>5

(* An observed call: its ends are added if they are not there.             *)
LEMMA RuntimeEdgeIsQuiet ==
  ASSUME NEW u, Sound(u), NEW e PROVE Quiet(u, RuntimeEdge(u, e))
<1> DEFINE w == Ends(u, e)
           k == Key(e.source, e.target, e.kind, "runtime", "runtime-evidence")
<1>1. RuntimeEdge(u, e) = [w EXCEPT !.graph = AddEdge(@, k, FALSE)]
  BY DEF RuntimeEdge
<1>2. Quiet(u, w) /\ e.source \in Nodes(w) /\ e.target \in Nodes(w)
  BY EndsAreThere
<1> HIDE DEF w
<1>3. Sound(w)
  BY <1>2 DEF Quiet
<1>4. \A z : Quiet(w, [w EXCEPT !.graph = AddEdge(@, k, z)])
  <2> DEFINE source == e.source
             target == e.target
             kind == e.kind
  <2>1. source \in Nodes(w) /\ target \in Nodes(w)
    BY <1>2
  <2>2. k = Key(source, target, kind, "runtime", "runtime-evidence")
    OBVIOUS
  <2> HIDE DEF source, target, kind, k
  <2> QED
    BY <1>3, <2>1, <2>2, EdgeIsQuiet
<1> HIDE DEF k
<1>5. Quiet(w, [w EXCEPT !.graph = AddEdge(@, k, FALSE)])
  BY <1>4
<1> QED
  BY <1>1, <1>2, <1>5, QuietIsTransitive

ServiceLaw == INSTANCE FoldLaws WITH
    Pick <- LAMBDA t : Max(t),
    Op <- LAMBDA p, q, r, s, i, v : RuntimeService(v, s[i]),
    Inv <- LAMBDA p, q, r, s, b, t, v : Quiet(b, v)

(* All services of an overlay.                                             *)
LEMMA ServicesAreQuiet ==
  ASSUME NEW u, Sound(u), NEW nodes, Listed(nodes)
  PROVE  Quiet(u, ServiceLaw!Fold(0, 0, 0, nodes, u, DOMAIN nodes))
<1>1. \A i \in DOMAIN nodes : \A t \in SUBSET DOMAIN nodes : \A v :
          Quiet(u, v) => Quiet(u, RuntimeService(v, nodes[i]))
  <2>1. ASSUME NEW v, NEW i \in DOMAIN nodes, Quiet(u, v)
        PROVE  Quiet(u, RuntimeService(v, nodes[i]))
    <3>1. Sound(v) /\ Nodes(u) \subseteq Nodes(v) /\ nodes[i] \in Range(nodes)
      BY <2>1 DEF Quiet, Range
    <3>2. Quiet(v, RuntimeService(v, nodes[i]))
      BY <3>1, ServiceIsQuiet
    <3> QED
      BY <2>1, <3>2, QuietIsTransitive
  <2> QED
    BY <2>1
<1>2. Quiet(u, u)
  BY IndexIsQuiet
<1>3. Dwindles(DOMAIN nodes) /\ \A t \in SUBSET DOMAIN nodes : t # {} => Max(t) \in t
  BY ListsFold
<1> QED
  BY <1>1, <1>2, <1>3, ServiceLaw!FoldKeeps DEF Dwindles

RuntimeEdgeLaw == INSTANCE FoldLaws WITH
    Pick <- LAMBDA t : Max(t),
    Op <- LAMBDA p, q, r, s, i, v : RuntimeEdge(v, s[i]),
    Inv <- LAMBDA p, q, r, s, b, t, v : Quiet(b, v)

(* All calls of it.                                                        *)
LEMMA RuntimeEdgesAreQuiet ==
  ASSUME NEW u, Sound(u), NEW edges, Listed(edges)
  PROVE  Quiet(u, RuntimeEdgeLaw!Fold(0, 0, 0, edges, u, DOMAIN edges))
<1>1. \A i \in DOMAIN edges : \A t \in SUBSET DOMAIN edges : \A v :
          Quiet(u, v) => Quiet(u, RuntimeEdge(v, edges[i]))
  <2>1. ASSUME NEW v, NEW i \in DOMAIN edges, Quiet(u, v)
        PROVE  Quiet(u, RuntimeEdge(v, edges[i]))
    <3>1. Sound(v) /\ Nodes(u) \subseteq Nodes(v) /\ edges[i] \in Range(edges)
      BY <2>1 DEF Quiet, Range
    <3>2. Quiet(v, RuntimeEdge(v, edges[i]))
      BY <3>1, RuntimeEdgeIsQuiet
    <3> QED
      BY <2>1, <3>2, QuietIsTransitive
  <2> QED
    BY <2>1
<1>2. Quiet(u, u)
  BY IndexIsQuiet
<1>3. Dwindles(DOMAIN edges) /\ \A t \in SUBSET DOMAIN edges : t # {} => Max(t) \in t
  BY ListsFold
<1> QED
  BY <1>1, <1>2, <1>3, RuntimeEdgeLaw!FoldKeeps DEF Dwindles

(* A runtime overlay, in whatever state.                                   *)
LEMMA RuntimeIsQuiet ==
  ASSUME NEW u, Sound(u), NEW o, Listed(o.nodes), Listed(o.edges) PROVE Quiet(u, Runtime(u, o))
<1> DEFINE nodes == o.nodes
           edges == o.edges
           base == ServiceLaw!Fold(0, 0, 0, nodes, u, DOMAIN nodes)
           d == RuntimeEdgeLaw!Fold(0, 0, 0, edges, base, DOMAIN edges)
<1>1. FoldLeft(RuntimeService, u, nodes) = base
  BY DEF FoldLeft, MapThenFoldSet, ServiceLaw!Fold
<1>2. FoldLeft(RuntimeEdge, base, edges) = d
  BY DEF FoldLeft, MapThenFoldSet, RuntimeEdgeLaw!Fold
<1>3. Quiet(u, Overlay(u, "overlay.runtime-missing", o)) /\
      Quiet(u, Overlay(u, "overlay.runtime-invalid", o))
  BY OverlayIsQuiet
<1>4. Quiet(u, base)
  BY ServicesAreQuiet
<1>5. Runtime(u, o) \in {Overlay(u, "overlay.runtime-missing", o),
                         Overlay(u, "overlay.runtime-invalid", o), d}
  BY <1>1, <1>2 DEF Runtime
<1> HIDE DEF base
<1>6. Quiet(base, d)
  BY <1>4, RuntimeEdgesAreQuiet DEF Quiet
<1> HIDE DEF d
<1>7. Quiet(u, d)
  BY <1>4, <1>6, QuietIsTransitive
<1> QED
  BY <1>3, <1>5, <1>7

-----------------------------------------------------------------------------
(* A bill of materials.                                                    *)
LEMMA ComponentIsQuiet ==
  ASSUME NEW u, Sound(u), NEW p
  PROVE  Quiet(u, AddComponent(u, p)) /\ ComponentId(u, p) \in Nodes(AddComponent(u, p))
<1> DEFINE id == ComponentId(u, p)
           n == [Blank EXCEPT !.version = p.version, !.licenses = p.licenses,
                              !.group = <<IF p.eco = None THEN "cyclonedx" ELSE p.eco>>]
           x == [versions |-> {p.version} \ {None}, licenses |-> p.licenses]
           w == [u EXCEPT !.graph = AddNode(@, id, n)]
           l == Put(w.index.licenses, id, x)
<1>1. AddComponent(u, p) = [u EXCEPT !.graph = AddNode(@, id, n), !.index.licenses = Put(@, id, x)]
  BY DEF AddComponent
<1> HIDE DEF id, n, x
<1>2. AddComponent(u, p) = [w EXCEPT !.index.licenses = l]
  BY <1>1 DEF Sound, Shaped
<1>3. Quiet(u, w) /\ id \in Nodes(w)
  BY NodeIsQuiet
<1> HIDE DEF w, l
<1>4. Sound(w)
  BY <1>3 DEF Quiet
<1>5. Quiet(w, [w EXCEPT !.index.licenses = l])
  BY <1>4, IndexIsQuiet
<1>6. Quiet(u, AddComponent(u, p)) /\ id \in Nodes(AddComponent(u, p))
  BY <1>2, <1>3, <1>5, QuietIsTransitive DEF Quiet
<1> QED
  BY <1>6 DEF id

(* The steps of an overlay leave a component its identifier.               *)
LEMMA ComponentStays ==
  ASSUME NEW u, NEW d, Quiet(u, d), NEW p PROVE ComponentId(d, p) = ComponentId(u, p)
<1>1. d.index.packages = u.index.packages
  BY DEF Quiet
<1>2. AnyPackage(d.index, p.eco, p.name) = AnyPackage(u.index, p.eco, p.name)
  BY <1>1 DEF AnyPackage, Registered
<1> QED
  BY <1>2 DEF ComponentId

ComponentLaw == INSTANCE FoldLaws WITH
    Pick <- LAMBDA t : Max(t),
    Op <- LAMBDA p, q, r, s, i, v : AddComponent(v, s[i]),
    Inv <- LAMBDA p, q, r, s, b, t, v :
               Quiet(b, v) /\ \A k \in t : ComponentId(b, s[k]) \in Nodes(v)

(* All components of a bill of materials have a node, under the identity   *)
(* that resolves them.                                                     *)
LEMMA ComponentsAreThere ==
  ASSUME NEW u, Sound(u), NEW parts, Listed(parts)
  PROVE  LET d == ComponentLaw!Fold(0, 0, 0, parts, u, DOMAIN parts)
         IN  Quiet(u, d) /\ \A k \in DOMAIN parts : ComponentId(u, parts[k]) \in Nodes(d)
<1>1. \A i \in DOMAIN parts : \A t \in SUBSET DOMAIN parts : \A v :
          Quiet(u, v) /\ (\A k \in t : ComponentId(u, parts[k]) \in Nodes(v)) =>
              /\ Quiet(u, AddComponent(v, parts[i]))
              /\ \A k \in t \cup {i} : ComponentId(u, parts[k]) \in Nodes(AddComponent(v, parts[i]))
  <2>1. ASSUME NEW v, NEW p, Quiet(u, v)
        PROVE  /\ Quiet(u, AddComponent(v, p)) /\ Nodes(v) \subseteq Nodes(AddComponent(v, p))
               /\ ComponentId(u, p) \in Nodes(AddComponent(v, p))
    <3>1. Sound(v)
      BY <2>1 DEF Quiet
    <3>2. Quiet(v, AddComponent(v, p)) /\ ComponentId(v, p) \in Nodes(AddComponent(v, p))
      BY <3>1, ComponentIsQuiet
    <3>3. Quiet(u, AddComponent(v, p))
      BY <2>1, <3>2, QuietIsTransitive
    <3>4. ComponentId(v, p) = ComponentId(u, p)
      BY <2>1, ComponentStays
    <3> QED
      BY <3>2, <3>3, <3>4 DEF Quiet
  <2> QED
    BY <2>1
<1>2. Quiet(u, u)
  BY IndexIsQuiet
<1>3. Dwindles(DOMAIN parts) /\ \A t \in SUBSET DOMAIN parts : t # {} => Max(t) \in t
  BY ListsFold
<1> QED
  BY <1>1, <1>2, <1>3, ComponentLaw!FoldKeeps DEF Dwindles

(* A dependency between two of its components.                             *)
LEMMA LinkIsQuiet ==
  ASSUME NEW u, Sound(u), NEW l, NEW a, NEW o, NEW parts, Listed(parts),
         \A k \in DOMAIN parts : ComponentId(a, parts[k]) \in Nodes(u)
  PROVE  Quiet(u, LinkComponents(u, l, a, o, parts))
<1> DEFINE refs == {p.ref : p \in Range(parts)}
           at(ref) == {k \in DOMAIN parts : parts[k].ref = ref}
           id(ref) == ComponentId(a, parts[Max(at(ref))])
           key == Key(id(l[1]), id(l[2]), "depends-on", "sbom", "cyclonedx-json")
<1>1. LinkComponents(u, l, a, o, parts) =
          IF l[1] \notin refs THEN u
          ELSE IF l[2] \notin refs THEN Overlay(u, "overlay.sbom-unmapped-ref", o)
          ELSE [u EXCEPT !.graph = AddEdge(@, key, FALSE)]
  BY DEF LinkComponents
<1>2. \A ref \in refs : id(ref) \in Nodes(u)
  <2> SUFFICES ASSUME NEW ref \in refs PROVE id(ref) \in Nodes(u)
    OBVIOUS
  <2>1. at(ref) # {} /\ at(ref) \subseteq DOMAIN parts
    BY DEF Range
  <2> HIDE DEF at
  <2>2. Max(at(ref)) \in at(ref)
    BY <2>1, ListsFold
  <2> QED
    BY <2>1, <2>2
<1>3. ASSUME l[1] \in refs, l[2] \in refs
      PROVE  Quiet(u, [u EXCEPT !.graph = AddEdge(@, key, FALSE)])
  <2> DEFINE source == id(l[1])
             target == id(l[2])
  <2>1. source \in Nodes(u) /\ target \in Nodes(u)
    BY <1>2, <1>3
  <2>2. key = Key(source, target, "depends-on", "sbom", "cyclonedx-json")
    OBVIOUS
  <2> HIDE DEF source, target, key
  <2>3. \A z : Quiet(u, [u EXCEPT !.graph = AddEdge(@, key, z)])
    BY <2>1, <2>2, EdgeIsQuiet
  <2> QED
    BY <2>3
<1>4. Quiet(u, Overlay(u, "overlay.sbom-unmapped-ref", o))
  BY OverlayIsQuiet
<1>5. Quiet(u, u)
  BY IndexIsQuiet
<1> HIDE DEF refs, key
<1> QED
  BY <1>1, <1>3, <1>4, <1>5

LinkLaw == INSTANCE FoldLaws WITH
    Pick <- LAMBDA t : Max(t),
    Op <- LAMBDA p, q, r, s, i, v : LinkComponents(v, s[i], p, q, r),
    Inv <- LAMBDA p, q, r, s, b, t, v : Quiet(b, v)

(* All of them.                                                            *)
LEMMA LinksAreQuiet ==
  ASSUME NEW u, Sound(u), NEW links, Listed(links), NEW a, NEW o, NEW parts, Listed(parts),
         \A k \in DOMAIN parts : ComponentId(a, parts[k]) \in Nodes(u)
  PROVE  Quiet(u, LinkLaw!Fold(a, o, parts, links, u, DOMAIN links))
<1>1. \A i \in DOMAIN links : \A t \in SUBSET DOMAIN links : \A v :
          Quiet(u, v) => Quiet(u, LinkComponents(v, links[i], a, o, parts))
  <2>1. ASSUME NEW v, NEW i \in DOMAIN links, Quiet(u, v)
        PROVE  Quiet(u, LinkComponents(v, links[i], a, o, parts))
    <3>1. Sound(v) /\ Nodes(u) \subseteq Nodes(v) /\ links[i] \in Range(links)
      BY <2>1 DEF Quiet, Range
    <3>2. Quiet(v, LinkComponents(v, links[i], a, o, parts))
      BY <3>1, LinkIsQuiet
    <3> QED
      BY <2>1, <3>2, QuietIsTransitive
  <2> QED
    BY <2>1
<1>2. Quiet(u, u)
  BY IndexIsQuiet
<1>3. Dwindles(DOMAIN links) /\ \A t \in SUBSET DOMAIN links : t # {} => Max(t) \in t
  BY ListsFold
<1> QED
  BY <1>1, <1>2, <1>3, LinkLaw!FoldKeeps DEF Dwindles

(* A bill of materials: components first, then dependencies.               *)
LEMMA CyclonedxIsQuiet ==
  ASSUME NEW u, Sound(u), NEW o, Listed(o.components), Listed(o.links) PROVE Quiet(u, Cyclonedx(u, o))
<1> DEFINE parts == Only(o.components, {p \in Range(o.components) : p.name # None})
           links == o.links
           base == ComponentLaw!Fold(0, 0, 0, parts, u, DOMAIN parts)
           d == LinkLaw!Fold(u, o, parts, links, base, DOMAIN links)
<1>1. FoldLeft(AddComponent, u, parts) = base
  BY DEF FoldLeft, MapThenFoldSet, ComponentLaw!Fold
<1>2. FoldLeft(LAMBDA x, l : LinkComponents(x, l, u, o, parts), base, links) = d
  <2> HIDE DEF parts, base, links
  <2> QED
    BY DEF FoldLeft, MapThenFoldSet, LinkLaw!Fold
<1>3. Quiet(u, Overlay(u, "overlay.sbom-missing", o)) /\
      Quiet(u, Overlay(u, "overlay.sbom-invalid-json", o)) /\
      Quiet(u, Overlay(u, "overlay.sbom-unsupported", o))
  BY OverlayIsQuiet
<1>4. Listed(parts)
  BY OnlyIsOf
<1>5. Cyclonedx(u, o) \in {Overlay(u, "overlay.sbom-missing", o),
                           Overlay(u, "overlay.sbom-invalid-json", o),
                           Overlay(u, "overlay.sbom-unsupported", o), d}
  BY <1>1, <1>2 DEF Cyclonedx
<1> HIDE DEF parts
<1>6. Quiet(u, base) /\ \A k \in DOMAIN parts : ComponentId(u, parts[k]) \in Nodes(base)
  BY <1>4, ComponentsAreThere
<1> HIDE DEF base
<1>7. Quiet(base, d)
  <2>1. Sound(base)
    BY <1>6 DEF Quiet
  <2> QED
    BY <1>4, <1>6, <2>1, LinksAreQuiet
<1> HIDE DEF d
<1>8. Quiet(u, d)
  BY <1>6, <1>7, QuietIsTransitive
<1> QED
  BY <1>3, <1>5, <1>8

-----------------------------------------------------------------------------
(* What is said of nodes.                                                  *)
LEMMA CoverIsQuiet ==
  ASSUME NEW u, Sound(u), NEW k, NEW o PROVE Quiet(u, CoverClass(u, k, o))
<1> DEFINE ids == Covered(u.graph, k.file)
           id == CHOOSE x \in ids : TRUE
           d == [u EXCEPT !.graph.nodes[id].coverage = k.rate]
<1>1. CoverClass(u, k, o) \in {d, u, Overlay(u, "overlay.coverage-ambiguous-path", o)}
  BY DEF CoverClass
<1> HIDE DEF id
<1>2. /\ Shaped(d) /\ d.index = u.index /\ DOMAIN d.graph.nodes = DOMAIN u.graph.nodes
      /\ d.graph.edges = u.graph.edges
  BY DEF Sound, Shaped
<1> HIDE DEF d
<1>3. Quiet(u, d)
  BY <1>2 DEF Quiet, Sound, Filed, Integrity, Nodes, Edges, Declares, Locks
<1>4. Quiet(u, u)
  BY IndexIsQuiet
<1>5. Quiet(u, Overlay(u, "overlay.coverage-ambiguous-path", o))
  BY OverlayIsQuiet
<1> QED
  BY <1>1, <1>3, <1>4, <1>5

CoverLaw == INSTANCE FoldLaws WITH
    Pick <- LAMBDA t : Max(t),
    Op <- LAMBDA p, q, r, s, i, v : CoverClass(v, s[i], p),
    Inv <- LAMBDA p, q, r, s, b, t, v : Quiet(b, v)

(* All classes of a coverage report.                                       *)
LEMMA CoversAreQuiet ==
  ASSUME NEW u, Sound(u), NEW classes, Listed(classes), NEW o
  PROVE  Quiet(u, CoverLaw!Fold(o, 0, 0, classes, u, DOMAIN classes))
<1>1. \A i \in DOMAIN classes : \A t \in SUBSET DOMAIN classes : \A v :
          Quiet(u, v) => Quiet(u, CoverClass(v, classes[i], o))
  <2>1. ASSUME NEW v, NEW i \in DOMAIN classes, Quiet(u, v)
        PROVE  Quiet(u, CoverClass(v, classes[i], o))
    <3>1. Sound(v) /\ Nodes(u) \subseteq Nodes(v) /\ classes[i] \in Range(classes)
      BY <2>1 DEF Quiet, Range
    <3>2. Quiet(v, CoverClass(v, classes[i], o))
      BY <3>1, CoverIsQuiet
    <3> QED
      BY <2>1, <3>2, QuietIsTransitive
  <2> QED
    BY <2>1
<1>2. Quiet(u, u)
  BY IndexIsQuiet
<1>3. Dwindles(DOMAIN classes) /\ \A t \in SUBSET DOMAIN classes : t # {} => Max(t) \in t
  BY ListsFold
<1> QED
  BY <1>1, <1>2, <1>3, CoverLaw!FoldKeeps DEF Dwindles

(* A coverage report, in whatever state.                                   *)
LEMMA CoverageIsQuiet ==
  ASSUME NEW u, Sound(u), NEW o, Listed(o.classes) PROVE Quiet(u, Coverage(u, o))
<1> DEFINE classes == o.classes
           d == CoverLaw!Fold(o, 0, 0, classes, u, DOMAIN classes)
<1>1. FoldLeft(LAMBDA x, k : CoverClass(x, k, o), u, classes) = d
  BY DEF FoldLeft, MapThenFoldSet, CoverLaw!Fold
<1>2. Coverage(u, o) \in {Overlay(u, "overlay.coverage-missing", o),
                          Overlay(u, "overlay.coverage-invalid", o), d}
  BY <1>1 DEF Coverage
<1>3. Quiet(u, d)
  BY CoversAreQuiet
<1> HIDE DEF d
<1>4. Quiet(u, Overlay(u, "overlay.coverage-missing", o)) /\
      Quiet(u, Overlay(u, "overlay.coverage-invalid", o))
  BY OverlayIsQuiet
<1> QED
  BY <1>2, <1>3, <1>4

(* The first CODEOWNERS file there is.                                     *)
LEMMA CodeownersIsQuiet ==
  ASSUME NEW u, Sound(u), NEW candidates PROVE Quiet(u, Codeowners(u, candidates))
<1> DEFINE present == Existing(candidates)
           o == Head(present)
           rules == Only(o.rules, {r \in Range(o.rules) : ~r.escaped})
           told == IF \E r \in Range(o.rules) : r.escaped
                   THEN Overlay(u, "overlay.codeowners-escaped-space", o) ELSE u
           missing == Overlay(u, "overlay.codeowners-missing", [path |-> None])
           f == Owned(told.graph.nodes, rules)
<1>1. Codeowners(u, candidates) \in {u, missing, [told EXCEPT !.graph.nodes = f]}
  BY DEF Codeowners
<1>2. DOMAIN f = DOMAIN told.graph.nodes
  BY DEF Owned
<1>3. Quiet(u, told) /\ Quiet(u, missing) /\ Quiet(u, u)
  BY OverlayIsQuiet, IndexIsQuiet
<1> HIDE DEF told, missing, f
<1>4. Quiet(told, [told EXCEPT !.graph.nodes = f])
  BY <1>2, <1>3, NodesAreReplaced DEF Quiet, Nodes
<1>5. Quiet(u, [told EXCEPT !.graph.nodes = f])
  BY <1>3, <1>4, QuietIsTransitive
<1> QED
  BY <1>1, <1>3, <1>5

(* The change counts.                                                      *)
LEMMA HistoryIsQuiet ==
  ASSUME NEW u, Sound(u), NEW h PROVE Quiet(u, ChangeHistory(u, h))
<1> DEFINE missing == Overlay(u, h.reason, [path |-> None])
           f == CountChanges(u.graph.nodes, h.counts)
<1>1. ChangeHistory(u, h) \in {missing, [u EXCEPT !.graph.nodes = f]}
  BY DEF ChangeHistory
<1>2. DOMAIN f = DOMAIN u.graph.nodes
  BY DEF CountChanges
<1>3. Quiet(u, missing)
  BY OverlayIsQuiet
<1> HIDE DEF missing, f
<1>4. Quiet(u, [u EXCEPT !.graph.nodes = f])
  BY <1>2, NodesAreReplaced DEF Nodes
<1> QED
  BY <1>1, <1>3, <1>4

-----------------------------------------------------------------------------
(* The order the manifests are read in.                                    *)
Early(m) == Priority(m) <= 1
(* What is early comes before all else of its project.                     *)
Sequenced(s) ==
    \A i, j \in DOMAIN s :
        i < j /\ Early(s[j]) /\ s[i].project = s[j].project => Early(s[i])

(* Two lists in which lock files come first, if the second has none of a   *)
(* project the first declares for.                                         *)
LEMMA JoinIsSequenced ==
  ASSUME NEW s, Listed(s), Sequenced(s), NEW v, Listed(v), Sequenced(v),
         \A a \in Range(s) : \A b \in Range(v) : Early(b) /\ a.project = b.project => Early(a)
  PROVE  Sequenced(s \o v)
<1> DEFINE w == s \o v
           n == Len(s)
<1>1. /\ n \in Nat /\ Len(v) \in Nat /\ DOMAIN s = 1 .. n /\ DOMAIN v = 1 .. Len(v)
  BY ListsFold
<1>2. /\ DOMAIN w = 1 .. (n + Len(v))
      /\ \A i \in 1 .. n : w[i] = s[i]
      /\ \A i \in (n + 1) .. (n + Len(v)) : w[i] = v[i - n]
  <2>1. s \in Seq(Range(s) \cup Range(v)) /\ v \in Seq(Range(s) \cup Range(v))
    BY DEF Listed
  <2> QED
    BY <1>1, <2>1
<1> HIDE DEF w, n
<1>3. ASSUME NEW i \in DOMAIN w, NEW j \in DOMAIN w, i < j, Early(w[j]), w[i].project = w[j].project
      PROVE  Early(w[i])
  <2>1. CASE j <= n
    BY <1>1, <1>2, <1>3, <2>1 DEF Sequenced
  <2>2. CASE i > n
    <3>1. i - n \in DOMAIN v /\ j - n \in DOMAIN v /\ i - n < j - n /\ w[i] = v[i - n] /\ w[j] = v[j - n]
      BY <1>1, <1>2, <1>3, <2>2
    <3> QED
      BY <1>3, <3>1 DEF Sequenced
  <2>3. CASE i <= n /\ j > n
    <3>1. i \in DOMAIN s /\ j - n \in DOMAIN v /\ w[i] = s[i] /\ w[j] = v[j - n]
      BY <1>1, <1>2, <1>3, <2>3
    <3>2. w[i] \in Range(s) /\ w[j] \in Range(v)
      BY <3>1 DEF Range
    <3> QED
      BY <1>3, <3>2
  <2> QED
    BY <1>1, <1>2, <1>3, <2>1, <2>2, <2>3
<1>4. Sequenced(w)
  BY <1>3 DEF Sequenced
<1> QED
  BY <1>4 DEF w

(* What is left of such a list when its head is read.                      *)
LEMMA RestIsSequenced ==
  ASSUME NEW s, Listed(s), s # <<>>, Sequenced(s)
  PROVE  /\ Head(s) \in Range(s) /\ Listed(Tail(s)) /\ Range(Tail(s)) \subseteq Range(s)
         /\ Sequenced(Tail(s))
         /\ \A m \in Range(Tail(s)) : Early(m) /\ m.project = Head(s).project => Early(Head(s))
<1>1. /\ Len(s) \in Nat \ {0} /\ DOMAIN s = 1 .. Len(s) /\ Head(s) = s[1]
      /\ Tail(s) \in Seq(Range(s))
      /\ DOMAIN Tail(s) = 1 .. (Len(s) - 1)
      /\ \A i \in 1 .. (Len(s) - 1) : Tail(s)[i] = s[i + 1]
  BY DEF Listed
<1>2. \A i \in DOMAIN Tail(s) : i + 1 \in DOMAIN s /\ Tail(s)[i] = s[i + 1] /\ 1 < i + 1
  BY <1>1
<1>3. Sequenced(Tail(s))
  <2>1. \A i, j \in DOMAIN Tail(s) : i < j => i + 1 < j + 1
    BY <1>1
  <2> QED
    BY <1>2, <2>1 DEF Sequenced
<1>4. \A m \in Range(Tail(s)) : Early(m) /\ m.project = Head(s).project => Early(Head(s))
  <2> SUFFICES ASSUME NEW i \in DOMAIN Tail(s), Early(Tail(s)[i]), Tail(s)[i].project = Head(s).project
               PROVE  Early(Head(s))
    BY DEF Range
  <2>1. 1 \in DOMAIN s /\ i + 1 \in DOMAIN s /\ 1 < i + 1 /\ Tail(s)[i] = s[i + 1]
    BY <1>1, <1>2
  <2> QED
    BY <1>1, <2>1 DEF Sequenced
<1>5. Head(s) \in Range(s)
  BY <1>1 DEF Range
<1>6. Listed(Tail(s)) /\ Range(Tail(s)) \subseteq Range(s)
  BY <1>1, SequencesAreListed
<1> QED
  BY <1>3, <1>4, <1>5, <1>6

(* The manifests of one project in the order they are read: lock files     *)
(* first.                                                                  *)
LEMMA OrderIsSequenced ==
  ASSUME NEW manifests, Listed(manifests), NEW p
  PROVE  LET s == OfProject(manifests, p)
         IN  /\ Listed(s) /\ Sequenced(s)
             /\ \A m \in Range(s) : m \in Range(manifests) /\ m.project = p
<1> DEFINE own == {m \in Range(manifests) : m.project = p}
           list == Only(manifests, own)
           rank(k) == Only(list, {m \in Range(list) : Priority(m) = k})
<1>1. Listed(list) /\ Range(list) \subseteq own
  BY OnlyIsOf
<1>2. OfProject(manifests, p) = rank(0) \o rank(1) \o rank(2) \o rank(3)
  BY DEF OfProject, InOrder
<1>2a. own \subseteq Range(manifests) /\ \A m \in own : m.project = p
  OBVIOUS
<1> HIDE DEF own, list
<1>3. \A k : Listed(rank(k)) /\ \A m \in Range(rank(k)) : m \in Range(list) /\ Priority(m) = k
  BY <1>1, OnlyIsOf
<1> HIDE DEF rank
<1>4. \A k \in {0, 1} : \A m \in Range(rank(k)) : Early(m)
  BY <1>3 DEF Early
<1>5. \A k \in {2, 3} : \A m \in Range(rank(k)) : ~Early(m)
  BY <1>3 DEF Early
<1>6. \A k \in {0, 1, 2, 3} : Sequenced(rank(k))
  BY <1>4, <1>5 DEF Sequenced, Range
<1> DEFINE a == rank(0) \o rank(1)
           b == a \o rank(2)
           d == b \o rank(3)
<1>7. Listed(a) /\ Sequenced(a) /\ Range(a) \subseteq Range(rank(0)) \cup Range(rank(1))
  BY <1>3, <1>4, <1>6, JoinedIsListed, JoinIsSequenced
<1> HIDE DEF a
<1>8. Listed(b) /\ Sequenced(b) /\ Range(b) \subseteq Range(a) \cup Range(rank(2))
  BY <1>3, <1>5, <1>6, <1>7, JoinedIsListed, JoinIsSequenced
<1> HIDE DEF b
<1>9. Listed(d) /\ Sequenced(d) /\ Range(d) \subseteq Range(b) \cup Range(rank(3))
  BY <1>3, <1>5, <1>6, <1>8, JoinedIsListed, JoinIsSequenced
<1>10. OfProject(manifests, p) = d
  BY <1>2 DEF a, b
<1> HIDE DEF d
<1>11. \A m \in Range(d) : m \in Range(manifests) /\ m.project = p
  BY <1>1, <1>2a, <1>3, <1>7, <1>8, <1>9
<1> QED
  BY <1>9, <1>10, <1>11

(* What is read for the projects k of t.                                   *)
Reading(v, manifests, projects, t) ==
    /\ Listed(v) /\ Sequenced(v)
    /\ \A m \in Range(v) : m \in Range(manifests) /\ \E k \in t : m.project = projects[k]

InOrderLaw == INSTANCE FoldLaws WITH
    Pick <- LAMBDA t : Max(t),
    Op <- LAMBDA p, q, r, s, i, v : v \o OfProject(p, s[i]),
    Inv <- LAMBDA p, q, r, s, b, t, v : Reading(v, p, s, t)

(* One project after the other.                                            *)
LEMMA AllAreSequenced ==
  ASSUME NEW manifests, Listed(manifests), NEW projects, Listed(projects), IsInjective(projects)
  PROVE  Reading(InOrderLaw!Fold(manifests, 0, 0, projects, <<>>, DOMAIN projects),
                 manifests, projects, DOMAIN projects)
<1>1. \A i \in DOMAIN projects : \A t \in SUBSET DOMAIN projects : \A v :
          i \notin t /\ Reading(v, manifests, projects, t) =>
              Reading(v \o OfProject(manifests, projects[i]), manifests, projects, t \cup {i})
  <2> SUFFICES ASSUME NEW i \in DOMAIN projects, NEW t \in SUBSET DOMAIN projects, NEW v,
                      i \notin t, Reading(v, manifests, projects, t)
               PROVE  Reading(v \o OfProject(manifests, projects[i]), manifests, projects, t \cup {i})
    OBVIOUS
  <2> DEFINE s == OfProject(manifests, projects[i])
  <2>1. /\ Listed(s) /\ Sequenced(s)
        /\ \A m \in Range(s) : m \in Range(manifests) /\ m.project = projects[i]
    BY OrderIsSequenced
  <2> HIDE DEF s
  <2>2. Listed(v) /\ Sequenced(v) /\
        \A m \in Range(v) : m \in Range(manifests) /\ \E k \in t : m.project = projects[k]
    BY DEF Reading
  <2>3. \A k \in t : projects[k] # projects[i]
    BY DEF IsInjective
  <2>4. \A x \in Range(v) : \A y \in Range(s) : x.project # y.project
    BY <2>1, <2>2, <2>3
  <2>5. Sequenced(v \o s)
    BY <2>1, <2>2, <2>4, JoinIsSequenced
  <2>6. Listed(v \o s) /\ Range(v \o s) \subseteq Range(v) \cup Range(s)
    BY <2>1, <2>2, JoinedIsListed
  <2>7. Reading(v \o s, manifests, projects, t \cup {i})
    BY <2>1, <2>2, <2>5, <2>6 DEF Reading
  <2> QED
    BY <2>7 DEF s
<1>2. Reading(<<>>, manifests, projects, {})
  <2>1. DOMAIN <<>> = {} /\ Range(<<>>) = {}
    BY DEF Range
  <2> QED
    BY <2>1, SinglesAreListed DEF Reading, Sequenced
<1>3. Dwindles(DOMAIN projects) /\ \A t \in SUBSET DOMAIN projects : t # {} => Max(t) \in t
  BY ListsFold
<1> QED
  BY <1>1, <1>2, <1>3, InOrderLaw!FoldKeeps DEF Dwindles

(* The projects have their nodes before anything else is read.             *)
LEMMA EmptyIsHonest == Sound(EmptyCollection) /\ Honest(EmptyCollection) /\ Declares(EmptyCollection) = {}
<1>1. /\ DOMAIN EmptyCollection.graph.nodes = {} /\ DOMAIN EmptyCollection.graph.edges = {}
      /\ DOMAIN EmptyCollection.index.packages = {} /\ DOMAIN EmptyCollection.index.scoped = {}
  BY DOMAIN <<>> = {} DEF EmptyCollection, EmptyGraph, EmptyIndex
<1>2. Shaped(EmptyCollection)
  BY DEF Shaped, EmptyCollection, EmptyGraph, EmptyIndex
<1>3. Sound(EmptyCollection)
  BY <1>1, <1>2, FS_EmptySet DEF Sound, Filed, Integrity, Edges
<1>4. Declares(EmptyCollection) = {} /\ Locks(EmptyCollection) = {}
  BY <1>1 DEF Declares, Locks, Edges
<1> QED
  BY <1>1, <1>3, <1>4 DEF Honest, Registers, LocksRegister

(* A configured project becomes a node.                                    *)
LEMMA ProjectIsAdded ==
  ASSUME NEW u, Sound(u), NEW p
  PROVE  LET d == Annotate(u, p, {<<"roots", p>>}) IN Quiet(u, d) /\ ProjectId(p) \in Nodes(d)
<1> DEFINE n == [Blank EXCEPT !.type = "project", !.project = p, !.group = <<p>>,
                              !.notes = {<<"roots", p>>}]
<1>1. Annotate(u, p, {<<"roots", p>>}) = [u EXCEPT !.graph = AddNode(@, ProjectId(p), n)]
  BY DEF Annotate
<1> HIDE DEF n
<1>2. /\ Quiet(u, [u EXCEPT !.graph = AddNode(@, ProjectId(p), n)])
      /\ ProjectId(p) \in Nodes([u EXCEPT !.graph = AddNode(@, ProjectId(p), n)])
  BY NodeIsQuiet
<1> QED
  BY <1>1, <1>2

ProjectLaw == INSTANCE FoldLaws WITH
    Pick <- LAMBDA t : Max(t),
    Op <- LAMBDA p, q, r, s, i, v : Annotate(v, s[i], {<<"roots", s[i]>>}),
    Inv <- LAMBDA p, q, r, s, b, t, v : Quiet(b, v) /\ \A k \in t : ProjectId(s[k]) \in Nodes(v)

(* All of them do before a manifest is read.                               *)
LEMMA ProjectsAreThere ==
  ASSUME NEW u, Sound(u), NEW projects, Listed(projects)
  PROVE  LET d == ProjectLaw!Fold(0, 0, 0, projects, u, DOMAIN projects)
         IN  Quiet(u, d) /\ \A k \in DOMAIN projects : ProjectId(projects[k]) \in Nodes(d)
<1>1. \A i \in DOMAIN projects : \A t \in SUBSET DOMAIN projects : \A v :
          Quiet(u, v) /\ (\A k \in t : ProjectId(projects[k]) \in Nodes(v)) =>
              LET d == Annotate(v, projects[i], {<<"roots", projects[i]>>})
              IN  Quiet(u, d) /\ \A k \in t \cup {i} : ProjectId(projects[k]) \in Nodes(d)
  <2>1. ASSUME NEW v, NEW p, Quiet(u, v)
        PROVE  LET d == Annotate(v, p, {<<"roots", p>>})
               IN  Quiet(u, d) /\ Nodes(v) \subseteq Nodes(d) /\ ProjectId(p) \in Nodes(d)
    <3> DEFINE d == Annotate(v, p, {<<"roots", p>>})
    <3>1. Sound(v)
      BY <2>1 DEF Quiet
    <3>2. Quiet(v, d) /\ ProjectId(p) \in Nodes(d)
      BY <3>1, ProjectIsAdded
    <3> HIDE DEF d
    <3>3. Quiet(u, d) /\ Nodes(v) \subseteq Nodes(d)
      BY <2>1, <3>2, QuietIsTransitive DEF Quiet
    <3> QED
      BY <3>2, <3>3 DEF d
  <2> QED
    BY <2>1
<1>2. Quiet(u, u)
  BY IndexIsQuiet
<1>3. Dwindles(DOMAIN projects) /\ \A t \in SUBSET DOMAIN projects : t # {} => Max(t) \in t
  BY ListsFold
<1> QED
  BY <1>1, <1>2, <1>3, ProjectLaw!FoldKeeps DEF Dwindles

-----------------------------------------------------------------------------
(* The overlays, each list of them in its order.                           *)

RuntimesLaw == INSTANCE FoldLaws WITH
    Pick <- LAMBDA t : Max(t),
    Op <- LAMBDA p, q, r, s, i, v : Runtime(v, s[i]),
    Inv <- LAMBDA p, q, r, s, b, t, v : Quiet(b, v)

(* All runtime overlays.                                                   *)
LEMMA RuntimesAreQuiet ==
  ASSUME NEW u, Sound(u), NEW list, Listed(list),
         \A o \in Range(list) : Listed(o.nodes) /\ Listed(o.edges)
  PROVE  Quiet(u, RuntimesLaw!Fold(0, 0, 0, list, u, DOMAIN list))
<1>1. \A i \in DOMAIN list : \A t \in SUBSET DOMAIN list : \A v :
          Quiet(u, v) => Quiet(u, Runtime(v, list[i]))
  <2>1. ASSUME NEW v, NEW i \in DOMAIN list, Quiet(u, v)
        PROVE  Quiet(u, Runtime(v, list[i]))
    <3>1. Sound(v) /\ Nodes(u) \subseteq Nodes(v) /\ list[i] \in Range(list)
      BY <2>1 DEF Quiet, Range
    <3>2. Quiet(v, Runtime(v, list[i]))
      BY <3>1, RuntimeIsQuiet
    <3> QED
      BY <2>1, <3>2, QuietIsTransitive
  <2> QED
    BY <2>1
<1>2. Quiet(u, u)
  BY IndexIsQuiet
<1>3. Dwindles(DOMAIN list) /\ \A t \in SUBSET DOMAIN list : t # {} => Max(t) \in t
  BY ListsFold
<1> QED
  BY <1>1, <1>2, <1>3, RuntimesLaw!FoldKeeps DEF Dwindles

CyclonedxLaw == INSTANCE FoldLaws WITH
    Pick <- LAMBDA t : Max(t),
    Op <- LAMBDA p, q, r, s, i, v : Cyclonedx(v, s[i]),
    Inv <- LAMBDA p, q, r, s, b, t, v : Quiet(b, v)

(* All bills of materials.                                                 *)
LEMMA CyclonedxsAreQuiet ==
  ASSUME NEW u, Sound(u), NEW list, Listed(list),
         \A o \in Range(list) : Listed(o.components) /\ Listed(o.links)
  PROVE  Quiet(u, CyclonedxLaw!Fold(0, 0, 0, list, u, DOMAIN list))
<1>1. \A i \in DOMAIN list : \A t \in SUBSET DOMAIN list : \A v :
          Quiet(u, v) => Quiet(u, Cyclonedx(v, list[i]))
  <2>1. ASSUME NEW v, NEW i \in DOMAIN list, Quiet(u, v)
        PROVE  Quiet(u, Cyclonedx(v, list[i]))
    <3>1. Sound(v) /\ Nodes(u) \subseteq Nodes(v) /\ list[i] \in Range(list)
      BY <2>1 DEF Quiet, Range
    <3>2. Quiet(v, Cyclonedx(v, list[i]))
      BY <3>1, CyclonedxIsQuiet
    <3> QED
      BY <2>1, <3>2, QuietIsTransitive
  <2> QED
    BY <2>1
<1>2. Quiet(u, u)
  BY IndexIsQuiet
<1>3. Dwindles(DOMAIN list) /\ \A t \in SUBSET DOMAIN list : t # {} => Max(t) \in t
  BY ListsFold
<1> QED
  BY <1>1, <1>2, <1>3, CyclonedxLaw!FoldKeeps DEF Dwindles

CoverageLaw == INSTANCE FoldLaws WITH
    Pick <- LAMBDA t : Max(t),
    Op <- LAMBDA p, q, r, s, i, v : Coverage(v, s[i]),
    Inv <- LAMBDA p, q, r, s, b, t, v : Quiet(b, v)

(* All coverage reports.                                                   *)
LEMMA CoveragesAreQuiet ==
  ASSUME NEW u, Sound(u), NEW list, Listed(list), \A o \in Range(list) : Listed(o.classes)
  PROVE  Quiet(u, CoverageLaw!Fold(0, 0, 0, list, u, DOMAIN list))
<1>1. \A i \in DOMAIN list : \A t \in SUBSET DOMAIN list : \A v :
          Quiet(u, v) => Quiet(u, Coverage(v, list[i]))
  <2>1. ASSUME NEW v, NEW i \in DOMAIN list, Quiet(u, v)
        PROVE  Quiet(u, Coverage(v, list[i]))
    <3>1. Sound(v) /\ Nodes(u) \subseteq Nodes(v) /\ list[i] \in Range(list)
      BY <2>1 DEF Quiet, Range
    <3>2. Quiet(v, Coverage(v, list[i]))
      BY <3>1, CoverageIsQuiet
    <3> QED
      BY <2>1, <3>2, QuietIsTransitive
  <2> QED
    BY <2>1
<1>2. Quiet(u, u)
  BY IndexIsQuiet
<1>3. Dwindles(DOMAIN list) /\ \A t \in SUBSET DOMAIN list : t # {} => Max(t) \in t
  BY ListsFold
<1> QED
  BY <1>1, <1>2, <1>3, CoverageLaw!FoldKeeps DEF Dwindles

(* The overlays of a tree, owners and history included.                    *)
LEMMA OverlaidIsQuiet == ASSUME tree \in DOMAIN Tree, Sound(c) PROVE Quiet(c, Overlaid)
<1> DEFINE runtime == T.runtime
           sbom == T.sbom
           coverage == T.coverage
           observed == RuntimesLaw!Fold(0, 0, 0, runtime, c, DOMAIN runtime)
           listed == CyclonedxLaw!Fold(0, 0, 0, sbom, observed, DOMAIN sbom)
           covered == CoverageLaw!Fold(0, 0, 0, coverage, listed, DOMAIN coverage)
           owned == Codeowners(covered, T.codeowners)
           told == ChangeHistory(owned, T.history)
<1>1. /\ FoldLeft(Runtime, c, runtime) = observed
      /\ FoldLeft(Cyclonedx, observed, sbom) = listed
      /\ FoldLeft(Coverage, listed, coverage) = covered
  BY DEF FoldLeft, MapThenFoldSet, RuntimesLaw!Fold, CyclonedxLaw!Fold, CoverageLaw!Fold
<1>2. Overlaid = IF T.history = None THEN owned ELSE told
  BY <1>1 DEF Overlaid
<1>3. /\ Listed(runtime) /\ \A o \in Range(runtime) : Listed(o.nodes) /\ Listed(o.edges)
      /\ Listed(sbom) /\ \A o \in Range(sbom) : Listed(o.components) /\ Listed(o.links)
      /\ Listed(coverage) /\ \A o \in Range(coverage) : Listed(o.classes)
  BY TreeAssumption DEF T
<1> HIDE DEF runtime, sbom, coverage
<1>4. Quiet(c, observed)
  BY <1>3, RuntimesAreQuiet
<1> HIDE DEF observed
<1>5. Quiet(observed, listed)
  BY <1>3, <1>4, CyclonedxsAreQuiet DEF Quiet
<1> HIDE DEF listed
<1>6. Quiet(listed, covered)
  BY <1>3, <1>5, CoveragesAreQuiet DEF Quiet
<1> HIDE DEF covered
<1>7. Quiet(covered, owned)
  <2>1. Sound(covered)
    BY <1>6 DEF Quiet
  <2> QED
    BY <2>1, CodeownersIsQuiet
<1> HIDE DEF owned
<1>8. Quiet(owned, told)
  <2>1. Sound(owned)
    BY <1>7 DEF Quiet
  <2> QED
    BY <2>1, HistoryIsQuiet
<1> HIDE DEF told
<1>9. Quiet(c, owned)
  BY <1>4, <1>5, <1>6, <1>7, QuietIsTransitive
<1> QED
  BY <1>2, <1>8, <1>9, QuietIsTransitive

(* The files of the configured roots.                                      *)
LEMMA SourcedIsQuiet ==
  ASSUME tree \in DOMAIN Tree, Sound(c), \A p \in Range(T.projects) : ProjectId(p) \in Nodes(c)
  PROVE  Quiet(c, Sourced)
<1> DEFINE found == FoldLeft(Discover, c, T.sources)
           python == Python(found, Records({"python"}), T.files)
           java == Java(python, Records({"java"}))
           csharp == Csharp(java, Records({"csharp"}))
           node == Javascript(csharp, Records(NodeLanguages))
           go == Go(node, Records({"go"}))
           sources == T.sources
           filenames == T.files
<1>1. Sourced = go
  BY DEF Sourced
<1>2. /\ Listed(sources) /\ Listed(NodeSuffixes)
      /\ \A r \in Range(sources) : SourceListed(r) /\ ProjectId(r.project) \in Nodes(c)
  BY TreeAssumption DEF T
<1>3. \A S : /\ Listed(Records(S))
             /\ \A r \in Range(Records(S)) : r \in Range(sources) /\ r.listed
  <2> SUFFICES ASSUME NEW S
               PROVE  /\ Listed(Records(S))
                      /\ \A r \in Range(Records(S)) : r \in Range(sources) /\ r.listed
    OBVIOUS
  <2> DEFINE some == {r \in Range(sources) : r.listed /\ r.language \in S}
  <2>1. Records(S) = Only(sources, some)
    BY DEF Records
  <2>2. \A r \in some : r \in Range(sources) /\ r.listed
    OBVIOUS
  <2> HIDE DEF some, sources
  <2>3. Listed(Only(sources, some)) /\ Range(Only(sources, some)) \subseteq Range(sources) \cap some
    BY <1>2, OnlyIsOf
  <2> QED
    BY <2>1, <2>2, <2>3
<1>4. Quiet(c, found) /\ \A r \in Range(sources) : r.listed => ModuleId(r) \in Nodes(found)
  <2>1. found = FoldLeft(Discover, c, sources)
    OBVIOUS
  <2> HIDE DEF sources, found
  <2> QED
    BY <1>2, <2>1, SourcesArePlaced
<1> HIDE DEF found, sources
<1>5. Sound(found) /\ \A S : Sited(found, Range(Records(S)))
  BY <1>2, <1>3, <1>4 DEF Quiet, Sited
<1>6. ASSUME NEW u, NEW d, Sound(u) => Quiet(u, d), Quiet(found, u)
      PROVE  Quiet(found, d)
  <2>1. Quiet(u, d)
    BY <1>6 DEF Quiet
  <2> QED
    BY <1>6, <2>1, QuietIsTransitive
<1>7. ASSUME NEW u, Quiet(found, u) PROVE Sound(u) /\ \A S : Sited(u, Range(Records(S)))
  BY <1>5, <1>7 DEF Quiet, Sited
<1> HIDE DEF filenames
<1>8. Quiet(found, python)
  <2>1. python = Python(found, Records({"python"}), filenames)
    BY DEF filenames
  <2> HIDE DEF python
  <2> QED
    BY <1>3, <1>5, <2>1, PythonIsQuiet
<1> HIDE DEF python
<1>9. Quiet(python, java)
  BY <1>3, <1>7, <1>8, JavaIsQuiet
<1>10. Quiet(found, java)
  BY <1>8, <1>9, QuietIsTransitive
<1> HIDE DEF java
<1>11. Quiet(java, csharp)
  BY <1>3, <1>7, <1>10, CsharpIsQuiet
<1>12. Quiet(found, csharp)
  BY <1>10, <1>11, QuietIsTransitive
<1> HIDE DEF csharp
<1>13. Quiet(csharp, node)
  BY <1>2, <1>3, <1>7, <1>12, JavascriptIsQuiet
<1>14. Quiet(found, node)
  BY <1>12, <1>13, QuietIsTransitive
<1> HIDE DEF node
<1>15. Quiet(node, go)
  BY <1>3, <1>7, <1>14, GoIsQuiet
<1> HIDE DEF go
<1> QED
  BY <1>1, <1>4, <1>14, <1>15, QuietIsTransitive

-----------------------------------------------------------------------------
(* The search for cycles: states of the search.                            *)

(* The second sequence begins with the first.                              *)
Longer(p, q) == Len(p) <= Len(q) /\ \A i \in 1 .. Len(p) : q[i] = p[i]

(* What is true of any state of the search: no node is twice on the stack  *)
(* or in the order of discovery, and what is on the stack was visited.     *)
LEMMA SearchIs ==
  ASSUME NEW N, NEW s \in Search(N)
  PROVE  /\ s.stack \in Seq(N) /\ s.order \in Seq(N) /\ s.low \in [N -> Nat]
         /\ s.components \in SUBSET SUBSET N
         /\ Len(s.stack) \in Nat /\ DOMAIN s.stack = 1 .. Len(s.stack)
         /\ Len(s.order) \in Nat /\ DOMAIN s.order = 1 .. Len(s.order)
         /\ Range(s.stack) \subseteq Visited(s) /\ Visited(s) \subseteq N
         /\ \A i \in 1 .. Len(s.stack) : s.stack[i] \in Range(s.stack)
         /\ \A i, j \in 1 .. Len(s.stack) : s.stack[i] = s.stack[j] => i = j
         /\ \A i \in 1 .. Len(s.order) : s.order[i] \in Visited(s)
         /\ \A i, j \in 1 .. Len(s.order) : s.order[i] = s.order[j] => i = j
<1>1. /\ s.stack \in Seq(N) /\ s.order \in Seq(N) /\ s.low \in [N -> Nat]
      /\ s.components \in SUBSET SUBSET N
      /\ IsInjective(s.stack) /\ IsInjective(s.order) /\ Range(s.stack) \subseteq Visited(s)
  BY DEF Search
<1>2. /\ Len(s.stack) \in Nat /\ DOMAIN s.stack = 1 .. Len(s.stack)
      /\ Len(s.order) \in Nat /\ DOMAIN s.order = 1 .. Len(s.order)
      /\ \A i \in 1 .. Len(s.order) : s.order[i] \in N
  BY <1>1
<1>3. /\ \A i \in 1 .. Len(s.stack) : s.stack[i] \in Range(s.stack)
      /\ \A i \in 1 .. Len(s.order) : s.order[i] \in Visited(s)
  BY <1>2 DEF Visited, Range
<1>4. Visited(s) \subseteq N
  BY <1>2 DEF Visited, Range
<1>5. /\ \A i, j \in 1 .. Len(s.stack) : s.stack[i] = s.stack[j] => i = j
      /\ \A i, j \in 1 .. Len(s.order) : s.order[i] = s.order[j] => i = j
  BY <1>1, <1>2 DEF IsInjective
<1> QED
  BY <1>1, <1>2, <1>3, <1>4, <1>5

(* What makes a state of the search.                                       *)
LEMMA IsSearch ==
  ASSUME NEW N, NEW s, s \in [stack : Seq(N), order : Seq(N), low : [N -> Nat],
                              components : SUBSET SUBSET N],
         \A i, j \in 1 .. Len(s.stack) : s.stack[i] = s.stack[j] => i = j,
         \A i, j \in 1 .. Len(s.order) : s.order[i] = s.order[j] => i = j,
         \A i \in 1 .. Len(s.stack) : s.stack[i] \in Visited(s)
  PROVE  s \in Search(N)
<1>1. /\ DOMAIN s.stack = 1 .. Len(s.stack) /\ DOMAIN s.order = 1 .. Len(s.order)
  OBVIOUS
<1>2. IsInjective(s.stack) /\ IsInjective(s.order) /\ Range(s.stack) \subseteq Visited(s)
  BY <1>1 DEF IsInjective, Range
<1> QED
  BY <1>2 DEF Search

(* A visited node has one place in the order of discovery.                 *)
LEMMA IndexIs ==
  ASSUME NEW N, NEW s \in Search(N), NEW x \in Visited(s)
  PROVE  /\ Index(s, x) \in 1 .. Len(s.order) /\ Index(s, x) \in Nat /\ s.order[Index(s, x)] = x
         /\ \A i \in 1 .. Len(s.order) : s.order[i] = x => i = Index(s, x)
<1>1. \E i \in DOMAIN s.order : s.order[i] = x
  BY DEF Visited, Range
<1>2. Index(s, x) \in DOMAIN s.order /\ s.order[Index(s, x)] = x
  BY <1>1 DEF Index
<1> QED
  BY <1>2, SearchIs

(* A search that goes on keeps the places, and gives later ones to the     *)
(* nodes it discovers.                                                     *)
LEMMA IndexKept ==
  ASSUME NEW N, NEW s \in Search(N), NEW u \in Search(N), Longer(s.order, u.order)
  PROVE  /\ \A x \in Visited(s) : x \in Visited(u) /\ Index(u, x) = Index(s, x)
         /\ \A x \in Visited(u) \ Visited(s) : Index(u, x) > Len(s.order)
<1>1. /\ Len(s.order) \in Nat /\ Len(u.order) \in Nat /\ Len(s.order) <= Len(u.order)
      /\ \A i \in 1 .. Len(s.order) : u.order[i] = s.order[i] /\ i \in 1 .. Len(u.order)
                                       /\ u.order[i] \in Visited(u) /\ s.order[i] \in Visited(s)
  BY SearchIs DEF Longer
<1>2. ASSUME NEW x \in Visited(s) PROVE x \in Visited(u) /\ Index(u, x) = Index(s, x)
  <2>1. Index(s, x) \in 1 .. Len(s.order) /\ s.order[Index(s, x)] = x
    BY IndexIs
  <2>2. x \in Visited(u) /\ Index(s, x) \in 1 .. Len(u.order) /\ u.order[Index(s, x)] = x
    BY <1>1, <2>1
  <2> QED
    BY <2>2, IndexIs
<1>3. ASSUME NEW x \in Visited(u) \ Visited(s) PROVE Index(u, x) > Len(s.order)
  <2>1. Index(u, x) \in 1 .. Len(u.order) /\ Index(u, x) \in Nat /\ u.order[Index(u, x)] = x
    BY IndexIs
  <2>2. Index(u, x) \notin 1 .. Len(s.order)
    BY <1>1, <2>1
  <2> QED
    BY <1>1, <2>1, <2>2
<1> QED
  BY <1>2, <1>3

(* A sequence without repetition, and one that stays so with v.            *)
Once(p) == \A i, j \in 1 .. Len(p) : p[i] = p[j] => i = j
Fresh(p, v) == Once(p) /\ v \notin Range(p)
(* One more element.                                                       *)
LEMMA OneMore ==
  ASSUME NEW N, NEW p \in Seq(N), NEW v \in N, NEW q, q = Append(p, v)
  PROVE  /\ q \in Seq(N) /\ Len(q) = Len(p) + 1 /\ q[Len(p) + 1] = v
         /\ Longer(p, q)
         /\ Fresh(p, v) => Once(q)
<1> DEFINE n == Len(p)
<1>1. /\ n \in Nat /\ DOMAIN p = 1 .. n /\ q \in Seq(N) /\ Len(q) = n + 1
      /\ DOMAIN q = 1 .. n + 1 /\ q[n + 1] = v /\ \A i \in 1 .. n : q[i] = p[i]
  OBVIOUS
<1> HIDE DEF n
<1>2. \A i \in 1 .. n + 1 : i \in 1 .. n \/ i = n + 1
  BY <1>1
<1>6. ASSUME Fresh(p, v) PROVE Once(q)
  <2>1. \A i \in 1 .. n : q[i] # v
    BY <1>1, <1>6 DEF Range, Fresh
  <2>2. \A i, j \in 1 .. n : p[i] = p[j] => i = j
    BY <1>6 DEF Fresh, Once, n
  <2>3. \A i, j \in 1 .. n + 1 : q[i] = q[j] => i = j
    BY <1>1, <1>2, <2>1, <2>2
  <2> QED
    BY <1>1, <2>3 DEF Once
<1>7. Longer(p, q)
  BY <1>1 DEF Longer, n
<1> QED
  BY <1>1, <1>6, <1>7 DEF n

(* The elements of a sequence with one more.                               *)
LEMMA OneMoreInRange ==
  ASSUME NEW N, NEW p \in Seq(N), NEW v \in N
  PROVE  Range(Append(p, v)) = Range(p) \cup {v}
<1> DEFINE q == Append(p, v)
           n == Len(p)
<1>1. /\ n \in Nat /\ DOMAIN p = 1 .. n
      /\ DOMAIN q = 1 .. n + 1 /\ q[n + 1] = v /\ \A i \in 1 .. n : q[i] = p[i]
  OBVIOUS
<1> HIDE DEF q, n
<1>2. \A i \in 1 .. n + 1 : i \in 1 .. n \/ i = n + 1
  BY <1>1
<1>3. 1 .. n \subseteq 1 .. n + 1 /\ n + 1 \in 1 .. n + 1
  BY <1>1
<1>4. Range(q) \subseteq Range(p) \cup {v}
  BY <1>1, <1>2 DEF Range
<1>5. Range(p) \cup {v} \subseteq Range(q)
  BY <1>1, <1>3 DEF Range
<1> QED
  BY <1>4, <1>5 DEF q

(* The beginning of a longer sequence.                                     *)
LEMMA Begins ==
  ASSUME NEW N, NEW p \in Seq(N), NEW q \in Seq(N), Longer(p, q)
  PROVE  /\ SubSeq(q, 1, Len(p)) = p /\ Range(p) \subseteq Range(q)
         /\ 1 .. Len(p) \subseteq 1 .. Len(q)
<1>1. /\ Len(p) \in Nat /\ Len(q) \in Nat /\ Len(p) <= Len(q)
      /\ DOMAIN p = 1 .. Len(p) /\ DOMAIN q = 1 .. Len(q)
      /\ \A i \in 1 .. Len(p) : q[i] = p[i]
  BY DEF Longer
<1>2. 1 .. Len(p) \subseteq 1 .. Len(q)
  BY <1>1
<1>3. Range(p) \subseteq Range(q)
  BY <1>1, <1>2 DEF Range
<1> DEFINE r == SubSeq(q, 1, Len(p))
<1>4. /\ r \in Seq(N) /\ Len(r) = Len(p) /\ \A i \in 1 .. Len(p) : r[i] = q[i]
  BY <1>1
<1> HIDE DEF r
<1>5. r = p
  BY <1>1, <1>4
<1> QED
  BY <1>2, <1>3, <1>5 DEF r

(* Entering a node puts it on the stack and last in the order, with its    *)
(* place there for a low link.                                             *)
LEMMA EnterIs ==
  ASSUME NEW N, NEW s \in Search(N), NEW v \in N, v \notin Visited(s)
  PROVE  /\ Enter(s, v) \in Search(N)
         /\ Enter(s, v).stack = Append(s.stack, v)
         /\ Enter(s, v).order = Append(s.order, v)
         /\ Enter(s, v).components = s.components
         /\ Enter(s, v).low[v] = Len(s.order) + 1
         /\ \A x \in N : x # v => Enter(s, v).low[x] = s.low[x]
         /\ Visited(Enter(s, v)) = Visited(s) \cup {v}
         /\ Range(Enter(s, v).stack) = Range(s.stack) \cup {v}
         /\ Longer(s.order, Enter(s, v).order)
         /\ Index(Enter(s, v), v) = Len(s.order) + 1
<1> DEFINE e == Enter(s, v)
<1>1. /\ s \in [stack : Seq(N), order : Seq(N), low : [N -> Nat], components : SUBSET SUBSET N]
      /\ Len(s.order) + 1 \in Nat /\ Append(s.stack, v) \in Seq(N) /\ Append(s.order, v) \in Seq(N)
  BY SearchIs DEF Search
<1>2. /\ e.stack = Append(s.stack, v) /\ e.order = Append(s.order, v)
      /\ e.components = s.components
  BY <1>1 DEF Enter
<1>3. e.low = [s.low EXCEPT ![v] = Len(s.order) + 1]
  BY <1>1 DEF Enter
<1>4. /\ e \in [stack : Seq(N), order : Seq(N), low : [N -> Nat], components : SUBSET SUBSET N]
      /\ e.stack = Append(s.stack, v) /\ e.order = Append(s.order, v)
      /\ e.components = s.components /\ e.low = [s.low EXCEPT ![v] = Len(s.order) + 1]
  <2>1. [s.low EXCEPT ![v] = Len(s.order) + 1] \in [N -> Nat]
    BY <1>1
  <2>2. e = [s EXCEPT !.stack = Append(s.stack, v), !.order = Append(s.order, v),
                      !.low = [s.low EXCEPT ![v] = Len(s.order) + 1]]
    BY DEF Enter
  <2> QED
    BY <1>1, <1>2, <1>3, <2>1, <2>2
<1>5. e.low[v] = Len(s.order) + 1 /\ \A x \in N : x # v => e.low[x] = s.low[x]
  BY <1>1, <1>4
<1> HIDE DEF e
<1>6. /\ Visited(e) = Visited(s) \cup {v} /\ Range(e.stack) = Range(s.stack) \cup {v}
      /\ Longer(s.order, e.order) /\ Len(e.order) = Len(s.order) + 1
      /\ e.order[Len(s.order) + 1] = v
      /\ \A i, j \in 1 .. Len(e.stack) : e.stack[i] = e.stack[j] => i = j
      /\ \A i, j \in 1 .. Len(e.order) : e.order[i] = e.order[j] => i = j
  <2>1. /\ s.stack \in Seq(N) /\ s.order \in Seq(N)
        /\ v \notin Range(s.order) /\ v \notin Range(s.stack)
        /\ Fresh(s.stack, v) /\ Fresh(s.order, v)
    BY SearchIs DEF Visited, Fresh, Once
  <2>2. /\ Range(e.stack) = Range(s.stack) \cup {v}
        /\ Range(e.order) = Range(s.order) \cup {v}
    BY <1>2, <2>1, OneMoreInRange
  <2>3. Once(e.stack)
    BY <1>2, <2>1, OneMore
  <2>4. Longer(s.order, e.order)
    BY <1>2, <2>1 DEF Longer
  <2>4a. Len(e.order) = Len(s.order) + 1 /\ e.order[Len(s.order) + 1] = v
    BY <1>2, <2>1
  <2>5. Once(e.order)
    BY <1>2, <2>1, OneMore
  <2> QED
    BY <2>2, <2>3, <2>4, <2>4a, <2>5 DEF Visited, Once
<1>7. \A i \in 1 .. Len(e.stack) : e.stack[i] \in Visited(e)
  <2>1. e.stack \in Seq(N) /\ Range(s.stack) \subseteq Visited(s)
    BY <1>4, SearchIs
  <2>2. \A i \in 1 .. Len(e.stack) : e.stack[i] \in Range(e.stack)
    BY <2>1 DEF Range
  <2> QED
    BY <1>6, <2>1, <2>2
<1>8. e \in Search(N)
  BY <1>4, <1>6, <1>7, IsSearch
<1>9. Index(e, v) = Len(s.order) + 1
  <2>1. Len(s.order) + 1 \in 1 .. Len(e.order)
    BY <1>6, SearchIs
  <2> QED
    BY <1>6, <1>8, <2>1, IndexIs
<1> QED
  BY <1>4, <1>5, <1>6, <1>8, <1>9 DEF e

(* Lowering a link changes nothing but that link.                          *)
LEMMA LowerIs ==
  ASSUME NEW N, NEW s \in Search(N), NEW v \in N, NEW i \in Nat
  PROVE  /\ LowerLink(s, v, i) \in Search(N)
         /\ LowerLink(s, v, i).stack = s.stack /\ LowerLink(s, v, i).order = s.order
         /\ LowerLink(s, v, i).components = s.components
         /\ Visited(LowerLink(s, v, i)) = Visited(s)
         /\ \A x : Index(LowerLink(s, v, i), x) = Index(s, x)
         /\ \A x \in N : x # v => LowerLink(s, v, i).low[x] = s.low[x]
         /\ LowerLink(s, v, i).low[v] = IF i < s.low[v] THEN i ELSE s.low[v]
<1> DEFINE e == LowerLink(s, v, i)
<1>1. s \in [stack : Seq(N), order : Seq(N), low : [N -> Nat], components : SUBSET SUBSET N]
  BY DEF Search
<1>2. /\ e \in [stack : Seq(N), order : Seq(N), low : [N -> Nat], components : SUBSET SUBSET N]
      /\ e.stack = s.stack /\ e.order = s.order /\ e.components = s.components
      /\ e.low[v] = (IF i < s.low[v] THEN i ELSE s.low[v])
      /\ \A x \in N : x # v => e.low[x] = s.low[x]
  BY <1>1 DEF LowerLink
<1> HIDE DEF e
<1>3. Visited(e) = Visited(s) /\ \A x : Index(e, x) = Index(s, x)
  BY <1>2 DEF Visited, Index
<1>4. e \in Search(N)
  BY <1>2, <1>3 DEF Search
<1> QED
  BY <1>2, <1>3, <1>4 DEF e

(* Nor does it change the link of another node.                            *)
LEMMA LowersNoOther ==
  ASSUME NEW N, NEW s \in Search(N), NEW v \in N, NEW i \in Nat
  PROVE  \A x \in N : x # v => LowerLink(s, v, i).low[x] = s.low[x]
BY LowerIs

(* Leaving a node whose link is its own place pops the stack down to what  *)
(* was below it; leaving any other changes nothing.                        *)
LEMMA LeaveIs ==
  ASSUME NEW N, NEW t \in Search(N), NEW p \in Seq(N), NEW v \in N, Longer(Append(p, v), t.stack)
  PROVE  /\ Leave(t, v) \in Search(N)
         /\ Leave(t, v).order = t.order /\ Leave(t, v).low = t.low
         /\ Visited(Leave(t, v)) = Visited(t)
         /\ \A x : Index(Leave(t, v), x) = Index(t, x)
         /\ t.low[v] # Index(t, v) =>
               Leave(t, v).stack = t.stack /\ Leave(t, v).components = t.components
         /\ t.low[v] = Index(t, v) =>
               /\ Leave(t, v).stack = p
               /\ LET C == {t.stack[k] : k \in Len(p) + 1 .. Len(t.stack)}
                  IN  Leave(t, v).components =
                          t.components \cup {m \in {C} : Cardinality(m) > 1}
<1> DEFINE e == Leave(t, v)
           at == CHOOSE k \in DOMAIN t.stack : t.stack[k] = v
           C == {t.stack[k] : k \in Len(p) + 1 .. Len(t.stack)}
<1>1. /\ t \in [stack : Seq(N), order : Seq(N), low : [N -> Nat], components : SUBSET SUBSET N]
      /\ Len(t.stack) \in Nat /\ DOMAIN t.stack = 1 .. Len(t.stack) /\ Len(p) \in Nat
  BY SearchIs DEF Search
<1>1a. /\ Append(p, v) \in Seq(N) /\ Len(Append(p, v)) = Len(p) + 1
       /\ Append(p, v)[Len(p) + 1] = v /\ Longer(p, Append(p, v))
  BY OneMore
<1>2. /\ Len(p) + 1 <= Len(t.stack) /\ t.stack[Len(p) + 1] = v
      /\ Longer(p, t.stack) /\ 1 .. Len(p) \subseteq 1 .. Len(t.stack)
      /\ \A i \in 1 .. Len(p) : t.stack[i] = p[i]
  <2>1. /\ Len(p) + 1 <= Len(t.stack)
        /\ \A i \in 1 .. Len(p) + 1 : t.stack[i] = Append(p, v)[i]
    BY <1>1, <1>1a DEF Longer
  <2>2. \A i \in 1 .. Len(p) : i \in 1 .. Len(p) + 1 /\ Append(p, v)[i] = p[i]
    BY <1>1, <1>1a DEF Longer
  <2>3. Len(p) + 1 \in 1 .. Len(p) + 1
    BY <1>1
  <2>4. Longer(p, t.stack)
    BY <1>1, <2>1, <2>2 DEF Longer
  <2>5. 1 .. Len(p) \subseteq 1 .. Len(t.stack)
    BY <1>1, <2>1
  <2>6. t.stack[Len(p) + 1] = v
    BY <1>1, <2>1, <2>3
  <2> QED
    BY <2>1, <2>2, <2>4, <2>5, <2>6
<1>3. at = Len(p) + 1
  <2>1. at \in DOMAIN t.stack /\ t.stack[at] = v
    BY <1>1, <1>2
  <2> QED
    BY <1>1, <1>2, <2>1, SearchIs
<1>5. \A k \in Len(p) + 1 .. Len(t.stack) : t.stack[k] \in N
  BY <1>1
<1> HIDE DEF at
<1>4. SubSeq(t.stack, 1, at - 1) = p
  <2>1. t.stack \in Seq(N) /\ at - 1 = Len(p)
    BY <1>1, <1>3
  <2> QED
    BY <1>2, <2>1, Begins
<1>6. CASE t.low[v] # Index(t, v)
  BY <1>6 DEF Leave
<1>7. CASE t.low[v] = Index(t, v)
  <2>1. e = [t EXCEPT !.stack = p, !.components = t.components \cup {m \in {C} : Cardinality(m) > 1}]
    BY <1>3, <1>4, <1>7 DEF Leave, at
  <2>2. C \in SUBSET N
    BY <1>5
  <2> HIDE DEF e, C
  <2>3. /\ e \in [stack : Seq(N), order : Seq(N), low : [N -> Nat], components : SUBSET SUBSET N]
        /\ e.stack = p /\ e.order = t.order /\ e.low = t.low
        /\ e.components = t.components \cup {m \in {C} : Cardinality(m) > 1}
    BY <1>1, <2>1, <2>2
  <2>4. Visited(e) = Visited(t) /\ \A x : Index(e, x) = Index(t, x)
    BY <2>3 DEF Visited, Index
  <2>5. e \in Search(N)
    <3>1. \A i, j \in 1 .. Len(e.stack) : e.stack[i] = e.stack[j] => i = j
      <4>1. \A i, j \in 1 .. Len(t.stack) : t.stack[i] = t.stack[j] => i = j
        BY SearchIs
      <4> QED
        BY <1>2, <2>3, <4>1
    <3>2. \A i, j \in 1 .. Len(e.order) : e.order[i] = e.order[j] => i = j
      BY <2>3, SearchIs
    <3>3. \A i \in 1 .. Len(e.stack) : e.stack[i] \in Visited(e)
      <4>1. \A i \in 1 .. Len(t.stack) : t.stack[i] \in Visited(t)
        BY SearchIs
      <4> QED
        BY <1>2, <2>3, <2>4, <4>1
    <3> QED
      BY <2>3, <3>1, <3>2, <3>3, IsSearch
  <2> QED
    BY <1>7, <2>3, <2>4, <2>5 DEF e, C
<1> QED
  BY <1>6, <1>7
-----------------------------------------------------------------------------
(* y is reached from x, in any number of steps, when every closed set with *)
(* x holds it; the nodes that reach x and are reached from it are the      *)
(* component of x.                                                         *)
Leads(next, x, y) ==
    \A C \in SUBSET DOMAIN next : x \in C /\ (\A z \in C : next[z] \subseteq C) => y \in C
Mutual(next, x) == {y \in DOMAIN next : Leads(next, x, y) /\ Leads(next, y, x)}

(* Reaching is reflexive and transitive, and holds of the edges.           *)
LEMMA LeadsOn ==
  ASSUME NEW N, NEW next \in [N -> SUBSET N], NEW x \in N
  PROVE  /\ Leads(next, x, x)
         /\ \A y \in next[x] : Leads(next, x, y)
         /\ \A y, z : Leads(next, x, y) /\ Leads(next, y, z) => Leads(next, x, z)
         /\ \A y \in N : \A z \in next[y] : Leads(next, x, y) => Leads(next, x, z)
BY DEF Leads

(* Who reaches a node outside of a set leaves the set by an edge.          *)
LEMMA LeadsOut ==
  ASSUME NEW N, NEW next \in [N -> SUBSET N], NEW C \in SUBSET N, NEW x \in C, NEW y \in N \ C,
         Leads(next, x, y)
  PROVE  \E a \in C : \E b \in next[a] \ C : Leads(next, b, y)
<1> SUFFICES ASSUME \A a \in C : \A b \in next[a] \ C : ~Leads(next, b, y) PROVE FALSE
  OBVIOUS
<1> DEFINE D == C \cup {z \in N : ~Leads(next, z, y)}
<1>1. ASSUME NEW z \in D, NEW b \in next[z] PROVE b \in D
  <2>1. z \in N /\ b \in N
    BY <1>1
  <2>2. CASE z \in C
    BY <2>1, <2>2
  <2>3. CASE ~Leads(next, z, y)
    BY <2>1, <2>3, LeadsOn
  <2> QED
    BY <1>1, <2>2, <2>3
<1>2. y \notin D
  BY LeadsOn
<1>3. D \in SUBSET N /\ x \in D
  OBVIOUS
<1> HIDE DEF D
<1> QED
  BY <1>1, <1>2, <1>3 DEF Leads

(* A component is the component of each of its nodes.                      *)
LEMMA MutualSame ==
  ASSUME NEW N, NEW next \in [N -> SUBSET N], NEW x \in N, NEW y \in Mutual(next, x)
  PROVE  Mutual(next, y) = Mutual(next, x) /\ x \in Mutual(next, y) /\ x \in Mutual(next, x)
<1>1. y \in N /\ Leads(next, x, y) /\ Leads(next, y, x)
  BY DEF Mutual
<1>2. \A z \in N : Leads(next, y, z) /\ Leads(next, z, y) <=> Leads(next, x, z) /\ Leads(next, z, x)
  BY <1>1, LeadsOn
<1> QED
  BY <1>1, <1>2, LeadsOn DEF Mutual

-----------------------------------------------------------------------------
(* Tarjan's invariant, for the nodes K whose search is not over: the stack *)
(* is in the order of discovery, of two nodes on it the earlier reaches    *)
(* the later, each reaches an earlier one of K, every edge of a node that  *)
(* is not of K has been followed, and the components that are complete are *)
(* popped and, if they have more than one node, reported.                  *)
Done(s) == Visited(s) \ Range(s.stack)
Earlier(s, x, y) == Index(s, x) <= Index(s, y)
Stacked(next, s, K) ==
    /\ K \subseteq Range(s.stack)
    /\ \A i, j \in 1 .. Len(s.stack) : i < j => Index(s, s.stack[i]) < Index(s, s.stack[j])
    /\ \A x, y \in Range(s.stack) : Earlier(s, x, y) => Leads(next, x, y)
    /\ \A y \in Range(s.stack) : \E x \in K : Earlier(s, x, y) /\ Leads(next, y, x)
Settled(next, s) ==
    /\ \A x \in Done(s) : Mutual(next, x) \subseteq Done(s)
    /\ s.components = {m \in {Mutual(next, x) : x \in Done(s)} : Cardinality(m) > 1}
Searching(next, s, K) ==
    /\ s \in Search(DOMAIN next)
    /\ \A x \in Visited(s) \ K : next[x] \subseteq Visited(s)
    /\ Stacked(next, s, K) /\ Settled(next, s)

(* What a search that begins in s and ends in u leaves as it was.          *)
Kept(s, u) ==
    /\ Longer(s.stack, u.stack) /\ Longer(s.order, u.order)
    /\ \A x \in Visited(s) : u.low[x] = s.low[x]
(* The low link of v is the place of a node on the stack that v reaches,   *)
(* and no edge from what the search put on the stack leads to an earlier   *)
(* place of what was there.                                                *)
Low(next, u, v) ==
    \E y \in Range(u.stack) : u.low[v] = Index(u, y) /\ Leads(next, v, y)
Crossing(next, s, u, v) ==
    \A x \in Range(u.stack) \ Range(s.stack) : \A y \in next[x] \cap Range(s.stack) :
        u.low[v] <= Index(u, y)
(* What the search of a node promises, what it begins with, and what holds *)
(* while it goes through the node's edges, of which it has followed those  *)
(* to D.                                                                   *)
Found(next, s, K, v, u) ==
    /\ Searching(next, u, K) /\ Kept(s, u) /\ v \in Visited(u)
    /\ IF v \in Range(u.stack) THEN Low(next, u, v) ELSE u.low[v] = Index(u, v)
    /\ Crossing(next, s, u, v)
Pre(next, s, K, v) ==
    /\ Searching(next, s, K) /\ v \in DOMAIN next /\ v \notin Visited(s)
    /\ \A k \in K : Leads(next, k, v)
Looping(next, s, K, v, D, t) ==
    /\ Searching(next, t, K \cup {v}) /\ Kept(s, t)
    /\ Longer(Append(s.stack, v), t.stack) /\ Longer(Append(s.order, v), t.order)
    /\ D \subseteq Visited(t)
    /\ Low(next, t, v) /\ t.low[v] <= Len(s.order) + 1
    /\ \A x \in Range(t.stack) \ Range(s.stack) : \A y \in next[x] \cap Range(s.stack) :
           x # v \/ y \in D => t.low[v] <= Index(t, y)

(* The loop begins with no edge followed.                                  *)
LEMMA EnterLoops ==
  ASSUME NEW N, NEW next \in [N -> SUBSET N], NEW s, NEW K, NEW v, Pre(next, s, K, v)
  PROVE  Looping(next, s, K, v, {}, Enter(s, v))
<1> DEFINE e == Enter(s, v)
<1>1. /\ s \in Search(N) /\ v \in N /\ v \notin Visited(s)
      /\ \A k \in K : Leads(next, k, v)
      /\ \A x \in Visited(s) \ K : next[x] \subseteq Visited(s)
      /\ Stacked(next, s, K) /\ Settled(next, s)
  BY DEF Pre, Searching
<1>2. /\ e \in Search(N) /\ e.stack = Append(s.stack, v) /\ e.order = Append(s.order, v)
      /\ e.components = s.components
      /\ e.low[v] = Len(s.order) + 1
      /\ \A x \in N : x # v => e.low[x] = s.low[x]
      /\ Visited(e) = Visited(s) \cup {v}
      /\ Range(e.stack) = Range(s.stack) \cup {v}
      /\ Longer(s.order, e.order)
      /\ Index(e, v) = Len(s.order) + 1
  <2>1. /\ e \in Search(N) /\ e.stack = Append(s.stack, v) /\ e.order = Append(s.order, v)
        /\ e.components = s.components
    BY <1>1, EnterIs
  <2>2. /\ e.low[v] = Len(s.order) + 1 /\ Index(e, v) = Len(s.order) + 1
        /\ \A x \in N : x # v => e.low[x] = s.low[x]
    BY <1>1, EnterIs
  <2>3. Visited(e) = Visited(s) \cup {v}
    BY <1>1, EnterIs
  <2>4. Range(e.stack) = Range(s.stack) \cup {v}
    <3>1. s.stack \in Seq(N)
      BY <1>1, SearchIs
    <3> QED
      BY <1>1, <2>1, <3>1, OneMoreInRange
  <2>5. Longer(s.order, e.order)
    BY <1>1, EnterIs
  <2> QED
    BY <2>1, <2>2, <2>3, <2>4, <2>5
<1> HIDE DEF e
<1>3. /\ s.stack \in Seq(N) /\ s.order \in Seq(N) /\ Len(s.stack) \in Nat /\ Len(s.order) \in Nat
      /\ Range(s.stack) \subseteq Visited(s) /\ Visited(s) \subseteq N
  BY <1>1, SearchIs
<1>4. \A x \in Visited(s) : Index(e, x) = Index(s, x) /\ Index(e, x) \in Nat /\ Index(e, x) < Index(e, v)
  <2>1. \A x \in Visited(s) : Index(e, x) = Index(s, x)
    BY <1>1, <1>2, IndexKept
  <2>2. \A x \in Visited(s) : Index(s, x) \in 1 .. Len(s.order)
    BY <1>1, IndexIs
  <2> QED
    BY <1>2, <1>3, <2>1, <2>2
<1>5. /\ Longer(s.stack, e.stack) /\ Longer(Append(s.stack, v), e.stack)
      /\ Longer(Append(s.order, v), e.order)
  BY <1>1, <1>2, <1>3 DEF Longer
<1>6. Kept(s, e)
  BY <1>1, <1>2, <1>3, <1>5 DEF Kept
<1>7. \A y \in Range(s.stack) : Leads(next, y, v)
  <2> SUFFICES ASSUME NEW y \in Range(s.stack) PROVE Leads(next, y, v)
    OBVIOUS
  <2>1. PICK x \in K : Leads(next, y, x)
    BY <1>1 DEF Stacked
  <2> QED
    BY <1>1, <1>3, <2>1, LeadsOn
<1>8. Leads(next, v, v)
  BY <1>1, LeadsOn
<1>9. Stacked(next, e, K \cup {v})
  <2>1. K \cup {v} \subseteq Range(e.stack)
    BY <1>1, <1>2 DEF Stacked
  <2>2. ASSUME NEW i \in 1 .. Len(e.stack), NEW j \in 1 .. Len(e.stack), i < j
        PROVE  Index(e, e.stack[i]) < Index(e, e.stack[j])
    <3>1. i \in 1 .. Len(s.stack) /\ e.stack[i] = s.stack[i] /\ s.stack[i] \in Visited(s)
      <4>1. i \in 1 .. Len(s.stack) /\ e.stack[i] = s.stack[i]
        BY <1>1, <1>2, <1>3, <2>2
      <4> QED
        BY <1>1, <1>3, <4>1, SearchIs
    <3>2. CASE j \in 1 .. Len(s.stack)
      <4>1. e.stack[j] = s.stack[j] /\ s.stack[j] \in Visited(s)
        <5>1. e.stack[j] = s.stack[j]
          BY <1>2, <1>3, <3>2
        <5>2. s.stack[j] \in Range(s.stack)
          BY <1>3, <3>2 DEF Range
        <5> QED
          BY <1>3, <5>1, <5>2
      <4>2. Index(s, s.stack[i]) < Index(s, s.stack[j])
        BY <1>1, <2>2, <3>1, <3>2 DEF Stacked
      <4> QED
        BY <1>4, <3>1, <4>1, <4>2
    <3>3. CASE j = Len(s.stack) + 1
      <4>1. e.stack[j] = v
        BY <1>1, <1>2, <1>3, <3>3
      <4> QED
        BY <1>4, <3>1, <4>1
    <3> QED
      BY <1>1, <1>2, <1>3, <3>2, <3>3
  <2>3. ASSUME NEW x \in Range(e.stack), NEW y \in Range(e.stack), Earlier(e, x, y)
        PROVE  Leads(next, x, y)
    <3>1. CASE x \in Range(s.stack) /\ y \in Range(s.stack)
      <4>1. Earlier(s, x, y)
        BY <1>3, <1>4, <2>3, <3>1 DEF Earlier
      <4> QED
        BY <1>1, <3>1, <4>1 DEF Stacked
    <3>2. CASE y = v
      BY <1>2, <1>7, <1>8, <2>3, <3>2
    <3>3. CASE x = v /\ y \in Range(s.stack)
      <4>1. Index(e, y) \in Nat /\ Index(e, y) < Index(e, v) /\ Index(e, v) \in Nat
        BY <1>2, <1>3, <1>4, <3>3
      <4> QED
        BY <2>3, <3>3, <4>1 DEF Earlier
    <3> QED
      BY <1>2, <2>3, <3>1, <3>2, <3>3
  <2>4. ASSUME NEW y \in Range(e.stack)
        PROVE  \E x \in K \cup {v} : Earlier(e, x, y) /\ Leads(next, y, x)
    <3>1. CASE y = v
      BY <1>2, <1>3, <1>8, <3>1 DEF Earlier
    <3>2. CASE y \in Range(s.stack)
      <4>1. PICK x \in K : Earlier(s, x, y) /\ Leads(next, y, x)
        BY <1>1, <3>2 DEF Stacked
      <4>2. x \in Visited(s) /\ y \in Visited(s)
        BY <1>1, <1>3, <3>2 DEF Stacked
      <4> QED
        BY <1>4, <4>1, <4>2 DEF Earlier
    <3> QED
      BY <1>2, <2>4, <3>1, <3>2
  <2> QED
    BY <2>1, <2>2, <2>3, <2>4 DEF Stacked
<1>10. Settled(next, e)
  <2>1. Done(e) = Done(s)
    BY <1>1, <1>2, <1>3 DEF Done
  <2> QED
    BY <1>1, <1>2, <2>1 DEF Settled
<1>11. Searching(next, e, K \cup {v})
  <2>1. \A x \in Visited(e) \ (K \cup {v}) : next[x] \subseteq Visited(e)
    BY <1>1, <1>2
  <2> QED
    BY <1>2, <1>9, <1>10, <2>1 DEF Searching
<1>12. Low(next, e, v)
  BY <1>2, <1>8 DEF Low
<1>13. \A x \in Range(e.stack) \ Range(s.stack) : x = v
  BY <1>2
<1> QED
  BY <1>2, <1>3, <1>5, <1>6, <1>11, <1>12, <1>13 DEF Looping, e

(* Longer is transitive.                                                   *)
LEMMA LongerOn ==
  ASSUME NEW N, NEW p \in Seq(N), NEW q \in Seq(N), NEW r \in Seq(N), Longer(p, q), Longer(q, r)
  PROVE  Longer(p, r)
<1>1. /\ Len(p) \in Nat /\ Len(q) \in Nat /\ Len(r) \in Nat /\ Len(p) <= Len(q) /\ Len(q) <= Len(r)
      /\ \A i \in 1 .. Len(p) : i \in 1 .. Len(q) /\ q[i] = p[i]
      /\ \A i \in 1 .. Len(q) : r[i] = q[i]
  BY DEF Longer
<1> QED
  BY <1>1 DEF Longer

(* A low link does not matter to Tarjan's invariant.                       *)
LEMMA LowerSearches ==
  ASSUME NEW N, NEW next \in [N -> SUBSET N], NEW t, NEW K, Searching(next, t, K),
         NEW v \in N, NEW i \in Nat
  PROVE  Searching(next, LowerLink(t, v, i), K)
<1> DEFINE u == LowerLink(t, v, i)
<1>1. t \in Search(N) /\ Stacked(next, t, K) /\ Settled(next, t)
      /\ \A x \in Visited(t) \ K : next[x] \subseteq Visited(t)
  BY DEF Searching
<1>2. /\ u \in Search(N) /\ u.stack = t.stack /\ u.order = t.order
      /\ u.components = t.components /\ Visited(u) = Visited(t)
      /\ \A x : Index(u, x) = Index(t, x)
  BY <1>1, LowerIs
<1> HIDE DEF u
<1>3. Stacked(next, u, K)
  BY <1>1, <1>2 DEF Stacked, Earlier
<1>4. Settled(next, u)
  BY <1>1, <1>2 DEF Settled, Done
<1> QED
  BY <1>1, <1>2, <1>3, <1>4 DEF Searching, u

(* A sequence that goes on with an element.                                *)
LEMMA GoesOn ==
  ASSUME NEW N, NEW p \in Seq(N), NEW v \in N, NEW q \in Seq(N), Longer(Append(p, v), q)
  PROVE  Len(p) + 1 \in 1 .. Len(q) /\ q[Len(p) + 1] = v
<1> DEFINE r == Append(p, v)
<1>1. /\ Len(p) \in Nat /\ Len(q) \in Nat /\ Len(r) = Len(p) + 1 /\ r[Len(p) + 1] = v
  BY OneMore
<1>2. Longer(r, q)
  OBVIOUS
<1> HIDE DEF r
<1>3. Len(r) <= Len(q) /\ Len(p) + 1 \in 1 .. Len(r)
  BY <1>1, <1>2 DEF Longer
<1>4. q[Len(p) + 1] = r[Len(p) + 1]
  BY <1>2, <1>3 DEF Longer
<1> QED
  BY <1>1, <1>3, <1>4

(* What is known of a loop.                                                *)
LEMMA LoopIs ==
  ASSUME NEW N, NEW next \in [N -> SUBSET N], NEW s, NEW K, NEW v, Pre(next, s, K, v),
         NEW D, NEW t, Looping(next, s, K, v, D, t)
  PROVE  /\ s \in Search(N) /\ t \in Search(N) /\ v \in N /\ v \notin Visited(s)
         /\ Range(s.stack) \subseteq Range(t.stack) /\ Range(s.stack) \subseteq Visited(s)
         /\ Visited(s) \subseteq Visited(t) /\ v \in Visited(t) /\ v \in Range(t.stack)
         /\ Index(t, v) = Len(s.order) + 1 /\ Len(s.order) \in Nat
         /\ \A x \in Visited(s) : Index(t, x) = Index(s, x)
         /\ \A x \in Visited(t) : Index(t, x) \in Nat
         /\ t.low \in [N -> Nat] /\ s.low \in [N -> Nat]
<1>1. /\ s \in Search(N) /\ t \in Search(N) /\ v \in N /\ v \notin Visited(s)
      /\ Longer(s.stack, t.stack) /\ Longer(s.order, t.order)
      /\ Longer(Append(s.stack, v), t.stack) /\ Longer(Append(s.order, v), t.order)
  BY DEF Pre, Looping, Searching, Kept
<1>2. /\ s.stack \in Seq(N) /\ t.stack \in Seq(N) /\ s.order \in Seq(N) /\ t.order \in Seq(N)
      /\ t.low \in [N -> Nat] /\ s.low \in [N -> Nat] /\ Len(s.order) \in Nat /\ Len(s.stack) \in Nat
      /\ Range(s.stack) \subseteq Visited(s) /\ Range(t.stack) \subseteq Visited(t)
  BY <1>1, SearchIs
<1>3. Range(s.stack) \subseteq Range(t.stack)
  BY <1>1, <1>2, Begins
<1>4. Len(s.stack) + 1 \in 1 .. Len(t.stack) /\ t.stack[Len(s.stack) + 1] = v
  <2>1. s.stack \in Seq(N) /\ t.stack \in Seq(N) /\ v \in N /\ Longer(Append(s.stack, v), t.stack)
    BY <1>1, <1>2
  <2> QED
    BY ONLY <2>1, GoesOn
<1>5. Len(s.order) + 1 \in 1 .. Len(t.order) /\ t.order[Len(s.order) + 1] = v
  <2>1. s.order \in Seq(N) /\ t.order \in Seq(N) /\ v \in N /\ Longer(Append(s.order, v), t.order)
    BY <1>1, <1>2
  <2> QED
    BY ONLY <2>1, GoesOn
<1>6. v \in Range(t.stack) /\ v \in Visited(t)
  BY <1>1, <1>2, <1>4, SearchIs
<1>7. Index(t, v) = Len(s.order) + 1
  BY <1>1, <1>5, <1>6, IndexIs
<1>8. \A x \in Visited(s) : x \in Visited(t) /\ Index(t, x) = Index(s, x)
  BY <1>1, IndexKept
<1>9. \A x \in Visited(t) : Index(t, x) \in Nat
  BY <1>1, IndexIs
<1> QED
  BY <1>1, <1>2, <1>3, <1>6, <1>7, <1>8, <1>9

(* An edge to a node that is visited already.                              *)
LEMMA BackLoops ==
  ASSUME NEW N, NEW next \in [N -> SUBSET N], NEW s, NEW K, NEW v, Pre(next, s, K, v),
         NEW D, NEW t, Looping(next, s, K, v, D, t), NEW w \in next[v], w \in Visited(t)
  PROVE  Looping(next, s, K, v, D \cup {w}, BackEdge(t, v, w))
<1> DEFINE u == LowerLink(t, v, Index(t, w))
<1>1. /\ s \in Search(N) /\ t \in Search(N) /\ v \in N /\ v \notin Visited(s)
      /\ Range(s.stack) \subseteq Range(t.stack) /\ Range(s.stack) \subseteq Visited(s)
      /\ Visited(s) \subseteq Visited(t) /\ v \in Range(t.stack) /\ Len(s.order) \in Nat
      /\ \A x \in Visited(t) : Index(t, x) \in Nat
      /\ t.low \in [N -> Nat] /\ Visited(s) \subseteq N /\ Range(t.stack) \subseteq Visited(t)
  BY LoopIs, SearchIs
<1>2. /\ Searching(next, t, K \cup {v}) /\ Kept(s, t)
      /\ Longer(Append(s.stack, v), t.stack) /\ Longer(Append(s.order, v), t.order)
      /\ D \subseteq Visited(t)
      /\ Low(next, t, v) /\ t.low[v] <= Len(s.order) + 1
      /\ \A x \in Range(t.stack) \ Range(s.stack) : \A y \in next[x] \cap Range(s.stack) :
           x # v \/ y \in D => t.low[v] <= Index(t, y)
  BY DEF Looping
<1>3. CASE w \notin Range(t.stack)
  <2>1. BackEdge(t, v, w) = t
    BY <1>3 DEF BackEdge
  <2>2. w \notin Range(s.stack)
    BY <1>1, <1>3
  <2> QED
    BY <1>2, <2>1, <2>2 DEF Looping
<1>4. CASE w \in Range(t.stack)
  <2>1. BackEdge(t, v, w) = u /\ Index(t, w) \in Nat /\ t.low[v] \in Nat
    BY <1>1, <1>4 DEF BackEdge
  <2>2. /\ u.stack = t.stack /\ u.order = t.order /\ Visited(u) = Visited(t)
        /\ \A x : Index(u, x) = Index(t, x)
        /\ \A x \in N : x # v => u.low[x] = t.low[x]
        /\ u.low[v] = IF Index(t, w) < t.low[v] THEN Index(t, w) ELSE t.low[v]
    <3> t \in Search(N) /\ v \in N /\ Index(t, w) \in Nat
      BY <1>1, <2>1
    <3>1. u.stack = t.stack /\ u.order = t.order
      BY LowerIs
    <3>2. Visited(u) = Visited(t) /\ \A x : Index(u, x) = Index(t, x)
      BY <1>1, <2>1, LowerIs
    <3>3. \A x \in N : x # v => u.low[x] = t.low[x]
      BY LowerIs
    <3>4. u.low[v] = IF Index(t, w) < t.low[v] THEN Index(t, w) ELSE t.low[v]
      BY LowerIs
    <3> QED
      BY <3>1, <3>2, <3>3, <3>4
  <2>3. Searching(next, u, K \cup {v})
    BY <1>1, <1>2, <2>1, LowerSearches
  <2> HIDE DEF u
  <2>4. Kept(s, u)
    BY <1>1, <1>2, <2>2 DEF Kept
  <2>5. u.low[v] <= t.low[v] /\ u.low[v] <= Index(t, w) /\ u.low[v] \in Nat
    BY <2>1, <2>2
  <2>6. Low(next, u, v)
    <3>1. CASE Index(t, w) < t.low[v]
      <4>1. Leads(next, v, w)
        BY <1>1, LeadsOn
      <4> QED
        BY <1>4, <2>2, <3>1, <4>1 DEF Low
    <3>2. CASE ~(Index(t, w) < t.low[v])
      BY <1>2, <2>2, <3>2 DEF Low
    <3> QED
      BY <3>1, <3>2
  <2>7. ASSUME NEW x \in Range(u.stack) \ Range(s.stack), NEW y \in next[x] \cap Range(s.stack),
               x # v \/ y \in D \cup {w}
        PROVE  u.low[v] <= Index(u, y)
    <3>1. Index(t, y) \in Nat /\ Index(u, y) = Index(t, y)
      BY <1>1, <2>2
    <3>2. CASE x # v \/ y \in D
      <4>1. t.low[v] <= Index(t, y)
        BY <1>2, <2>2, <2>7, <3>2
      <4> QED
        BY <2>1, <2>5, <3>1, <4>1
    <3>3. CASE y = w
      BY <2>5, <3>1, <3>3
    <3> QED
      BY <2>7, <3>2, <3>3
  <2>8. u.low[v] <= Len(s.order) + 1
    BY <1>1, <1>2, <2>1, <2>5
  <2>9. Looping(next, s, K, v, D \cup {w}, u)
    BY <1>2, <2>2, <2>3, <2>4, <2>6, <2>7, <2>8 DEF Looping
  <2> QED
    BY <2>1, <2>9
<1> QED
  BY <1>3, <1>4

(* An edge to a node whose search begins here.                             *)
LEMMA CallLoops ==
  ASSUME NEW N, NEW next \in [N -> SUBSET N], NEW s, NEW K, NEW v, Pre(next, s, K, v),
         NEW D, NEW t, Looping(next, s, K, v, D, t), NEW w \in next[v], w \notin Visited(t),
         NEW u, Found(next, t, K \cup {v}, w, u)
  PROVE  Looping(next, s, K, v, D \cup {w}, LowerLink(u, v, u.low[w]))
<1> DEFINE r == LowerLink(u, v, u.low[w])
<1>1. /\ s \in Search(N) /\ t \in Search(N) /\ v \in N /\ w \in N /\ v \notin Visited(s)
      /\ Range(s.stack) \subseteq Range(t.stack) /\ Range(s.stack) \subseteq Visited(s)
      /\ Visited(s) \subseteq Visited(t) /\ v \in Range(t.stack) /\ v \in Visited(t)
      /\ Len(s.order) \in Nat /\ Index(t, v) = Len(s.order) + 1
      /\ \A x \in Visited(t) : Index(t, x) \in Nat
      /\ t.low \in [N -> Nat] /\ Visited(s) \subseteq N /\ Range(t.stack) \subseteq Visited(t)
      /\ Visited(t) \subseteq N
  <2>1. /\ s \in Search(N) /\ t \in Search(N) /\ v \in N /\ v \notin Visited(s)
        /\ Range(s.stack) \subseteq Range(t.stack) /\ Range(s.stack) \subseteq Visited(s)
        /\ Visited(s) \subseteq Visited(t) /\ v \in Range(t.stack) /\ v \in Visited(t)
    BY LoopIs
  <2>2. /\ Len(s.order) \in Nat /\ Index(t, v) = Len(s.order) + 1
        /\ \A x \in Visited(t) : Index(t, x) \in Nat
        /\ t.low \in [N -> Nat]
    BY LoopIs
  <2>3. Visited(s) \subseteq N /\ Range(t.stack) \subseteq Visited(t) /\ Visited(t) \subseteq N
    BY <2>1, SearchIs
  <2>4. w \in N
    BY <2>1
  <2> QED
    BY <2>1, <2>2, <2>3, <2>4
<1>2. /\ Searching(next, t, K \cup {v}) /\ Kept(s, t)
      /\ Longer(Append(s.stack, v), t.stack) /\ Longer(Append(s.order, v), t.order)
      /\ D \subseteq Visited(t)
      /\ Low(next, t, v) /\ t.low[v] <= Len(s.order) + 1
      /\ \A x \in Range(t.stack) \ Range(s.stack) : \A y \in next[x] \cap Range(s.stack) :
           x # v \/ y \in D => t.low[v] <= Index(t, y)
  BY DEF Looping
<1>3. /\ u \in Search(N) /\ Searching(next, u, K \cup {v}) /\ Kept(t, u) /\ w \in Visited(u)
      /\ IF w \in Range(u.stack) THEN Low(next, u, w) ELSE u.low[w] = Index(u, w)
      /\ Crossing(next, t, u, w)
  BY DEF Found, Searching
<1>4. /\ Longer(t.stack, u.stack) /\ Longer(t.order, u.order)
      /\ \A x \in Visited(t) : u.low[x] = t.low[x]
  BY <1>3 DEF Kept
<1>5. /\ \A x \in Visited(t) : x \in Visited(u) /\ Index(u, x) = Index(t, x)
      /\ \A x \in Visited(u) \ Visited(t) : Index(u, x) > Len(t.order)
      /\ \A x \in Visited(u) : Index(u, x) \in Nat
  BY <1>1, <1>3, <1>4, IndexKept, IndexIs
<1>6. /\ u.low \in [N -> Nat] /\ u.stack \in Seq(N) /\ u.order \in Seq(N)
      /\ t.stack \in Seq(N) /\ t.order \in Seq(N) /\ s.stack \in Seq(N) /\ s.order \in Seq(N)
      /\ Len(t.order) \in Nat /\ Range(u.stack) \subseteq Visited(u)
  BY <1>1, <1>3, SearchIs
<1>7. Range(t.stack) \subseteq Range(u.stack)
  BY <1>4, <1>6, Begins
<1>8. /\ u.low[w] \in Nat /\ t.low[v] \in Nat /\ u.low[v] = t.low[v]
  BY <1>1, <1>4, <1>6
<1>9. /\ r.stack = u.stack /\ r.order = u.order /\ Visited(r) = Visited(u)
      /\ \A x : Index(r, x) = Index(u, x)
      /\ \A x \in N : x # v => r.low[x] = u.low[x]
      /\ r.low[v] = IF u.low[w] < t.low[v] THEN u.low[w] ELSE t.low[v]
  <2>0. u \in Search(N) /\ v \in N /\ u.low[w] \in Nat
    BY <1>1, <1>3, <1>8
  <2> USE ONLY <2>0
  <2>1. r.stack = u.stack /\ r.order = u.order
    BY LowerIs
  <2>2. Visited(r) = Visited(u) /\ \A x : Index(r, x) = Index(u, x)
    BY LowerIs
  <2>3. \A x \in N : x # v => r.low[x] = u.low[x]
    <3>1. \A x \in N : x # v => LowerLink(u, v, u.low[w]).low[x] = u.low[x]
      BY ONLY <2>0, LowersNoOther
    <3> QED
      BY ONLY <3>1
  <2>4. r.low[v] = IF u.low[w] < t.low[v] THEN u.low[w] ELSE t.low[v]
    <3>1. r.low[v] = IF u.low[w] < u.low[v] THEN u.low[w] ELSE u.low[v]
      BY LowerIs
    <3> QED
      BY <1>8, <3>1
  <2> QED
    BY <2>1, <2>2, <2>3, <2>4
<1>10. Searching(next, r, K \cup {v})
  BY <1>1, <1>3, <1>8, LowerSearches
<1> HIDE DEF r
<1>11. r.low[v] <= t.low[v] /\ r.low[v] <= u.low[w] /\ r.low[v] \in Nat
  BY <1>8, <1>9
<1>12. /\ Longer(s.stack, u.stack) /\ Longer(s.order, u.order)
       /\ Longer(Append(s.stack, v), u.stack) /\ Longer(Append(s.order, v), u.order)
  <2>1. Append(s.stack, v) \in Seq(N) /\ Append(s.order, v) \in Seq(N)
    BY <1>1, <1>6
  <2>2. Longer(s.stack, t.stack) /\ Longer(s.order, t.order)
    BY <1>2 DEF Kept
  <2> QED
    BY <1>2, <1>4, <1>6, <2>1, <2>2, LongerOn
<1>13. Kept(s, r)
  BY <1>1, <1>2, <1>4, <1>9, <1>12 DEF Kept
<1>14. Low(next, r, v)
  <2>1. CASE u.low[w] < t.low[v]
    <3>1. Index(t, v) <= Len(t.order)
      BY <1>1, IndexIs
    <3>2. w \in Range(u.stack)
      <4> SUFFICES ASSUME w \notin Range(u.stack) PROVE FALSE
        OBVIOUS
      <4>1. u.low[w] > Len(t.order)
        BY <1>3, <1>5
      <4> QED
        BY <1>1, <1>2, <1>6, <1>8, <2>1, <3>1, <4>1
    <3>3. PICK y \in Range(u.stack) : u.low[w] = Index(u, y) /\ Leads(next, w, y)
      BY <1>3, <3>2 DEF Low
    <3>4. Leads(next, v, y)
      BY <1>1, <3>3, LeadsOn
    <3> QED
      BY <1>9, <2>1, <3>3, <3>4 DEF Low
  <2>2. CASE ~(u.low[w] < t.low[v])
    <3>1. PICK y \in Range(t.stack) : t.low[v] = Index(t, y) /\ Leads(next, v, y)
      BY <1>2 DEF Low
    <3>2. y \in Range(u.stack) /\ Index(u, y) = Index(t, y)
      BY <1>1, <1>5, <1>7
    <3> QED
      BY <1>9, <2>2, <3>1, <3>2 DEF Low
  <2> QED
    BY <2>1, <2>2
<1>15. ASSUME NEW x \in Range(r.stack) \ Range(s.stack), NEW y \in next[x] \cap Range(s.stack),
              x # v \/ y \in D \cup {w}
       PROVE  r.low[v] <= Index(r, y)
  <2>1. /\ Index(t, y) \in Nat /\ Index(r, y) = Index(t, y) /\ Index(u, y) = Index(t, y)
        /\ y \in Range(t.stack) /\ y # w
    BY <1>1, <1>5, <1>9
  <2>2. CASE x \in Range(t.stack)
    <3>1. t.low[v] <= Index(t, y)
      BY <1>2, <1>15, <2>1, <2>2
    <3> QED
      BY <1>8, <1>11, <2>1, <3>1
  <2>3. CASE x \notin Range(t.stack)
    <3>1. u.low[w] <= Index(u, y)
      BY <1>3, <1>9, <1>15, <2>1, <2>3 DEF Crossing
    <3> QED
      BY <1>8, <1>11, <2>1, <3>1
  <2> QED
    BY <2>2, <2>3
<1>16. r.low[v] <= Len(s.order) + 1
  BY <1>1, <1>2, <1>8, <1>11
<1>17. D \cup {w} \subseteq Visited(r)
  BY <1>2, <1>3, <1>5, <1>9
<1>18. Longer(Append(s.stack, v), r.stack) /\ Longer(Append(s.order, v), r.order)
  BY <1>9, <1>12
<1>19. Looping(next, s, K, v, D \cup {w}, r)
  BY <1>10, <1>13, <1>14, <1>15, <1>16, <1>17, <1>18 DEF Looping
<1> QED
  BY <1>19 DEF r

(* The end of a node's edges: its component is popped, if it is complete.  *)
LEMMA LeaveFinds ==
  ASSUME NEW N, NEW next \in [N -> SUBSET N], NEW s, NEW K, NEW v, Pre(next, s, K, v),
         NEW t, Looping(next, s, K, v, next[v], t)
  PROVE  Found(next, s, K, v, Leave(t, v))
<1> DEFINE u == Leave(t, v)
           C == {t.stack[k] : k \in Len(s.stack) + 1 .. Len(t.stack)}
<1>1. /\ s \in Search(N) /\ t \in Search(N) /\ v \in N /\ v \notin Visited(s)
      /\ Range(s.stack) \subseteq Range(t.stack) /\ Range(s.stack) \subseteq Visited(s)
      /\ Visited(s) \subseteq Visited(t) /\ v \in Range(t.stack) /\ v \in Visited(t)
      /\ Len(s.order) \in Nat /\ Index(t, v) = Len(s.order) + 1
      /\ \A x \in Visited(s) : Index(t, x) = Index(s, x)
      /\ \A x \in Visited(t) : Index(t, x) \in Nat
      /\ t.low \in [N -> Nat]
  <2>1. /\ s \in Search(N) /\ t \in Search(N) /\ v \in N /\ v \notin Visited(s)
        /\ Range(s.stack) \subseteq Range(t.stack) /\ Range(s.stack) \subseteq Visited(s)
        /\ Visited(s) \subseteq Visited(t) /\ v \in Range(t.stack) /\ v \in Visited(t)
    BY LoopIs
  <2>2. /\ Len(s.order) \in Nat /\ Index(t, v) = Len(s.order) + 1
        /\ \A x \in Visited(s) : Index(t, x) = Index(s, x)
        /\ \A x \in Visited(t) : Index(t, x) \in Nat
        /\ t.low \in [N -> Nat]
    BY LoopIs
  <2> QED
    BY <2>1, <2>2
<1>2. /\ Searching(next, t, K \cup {v}) /\ Kept(s, t)
      /\ Longer(Append(s.stack, v), t.stack) /\ Longer(Append(s.order, v), t.order)
      /\ next[v] \subseteq Visited(t)
      /\ Low(next, t, v) /\ t.low[v] <= Len(s.order) + 1
      /\ \A x \in Range(t.stack) \ Range(s.stack) : \A y \in next[x] \cap Range(s.stack) :
           t.low[v] <= Index(t, y)
  BY DEF Looping
<1>3. /\ \A x \in Visited(t) \ (K \cup {v}) : next[x] \subseteq Visited(t)
      /\ Stacked(next, t, K \cup {v}) /\ Settled(next, t)
  BY <1>2 DEF Searching
<1>4. /\ \A k \in K : Leads(next, k, v)
      /\ Stacked(next, s, K) /\ K \subseteq Range(s.stack)
  BY DEF Pre, Searching, Stacked
<1>5. /\ s.stack \in Seq(N) /\ t.stack \in Seq(N)
      /\ Range(t.stack) \subseteq Visited(t) /\ Visited(t) \subseteq N
      /\ Len(s.stack) \in Nat /\ Len(t.stack) \in Nat /\ DOMAIN t.stack = 1 .. Len(t.stack)
      /\ DOMAIN s.stack = 1 .. Len(s.stack)
  BY <1>1, SearchIs
<1>6. \A x \in Visited(t) \ K : next[x] \subseteq Visited(t)
  BY <1>2, <1>3
<1>7. CASE t.low[v] # Index(t, v)
  <2>1. u = t
    BY <1>7 DEF Leave
  <2>2. PICK z \in Range(t.stack) : t.low[v] = Index(t, z) /\ Leads(next, v, z)
    BY <1>2 DEF Low
  <2>3. PICK h \in K \cup {v} : Earlier(t, h, z) /\ Leads(next, z, h)
    BY <1>3 DEF Stacked
  <2>4. h \in K /\ Index(t, h) < Index(t, v)
    <3>1. h \in Range(t.stack)
      BY <1>3 DEF Stacked
    <3>2. /\ Index(t, h) \in Nat /\ Index(t, z) \in Nat /\ Index(t, v) \in Nat
          /\ Index(t, h) <= Index(t, z) /\ Index(t, z) < Index(t, v)
      BY <1>1, <1>2, <1>5, <1>7, <2>2, <2>3, <3>1 DEF Earlier
    <3> QED
      BY <3>2
  <2>5. ASSUME NEW y \in Range(t.stack)
        PROVE  \E x \in K : Earlier(t, x, y) /\ Leads(next, y, x)
    <3>1. PICK x \in K \cup {v} : Earlier(t, x, y) /\ Leads(next, y, x)
      BY <1>3 DEF Stacked
    <3>2. CASE x = v
      <4>1. Leads(next, y, h)
        <5>1. y \in N /\ Leads(next, y, z)
          BY <1>5, <2>2, <3>1, <3>2, LeadsOn
        <5> QED
          BY <2>3, <5>1, LeadsOn
      <4>2. Earlier(t, h, y)
        <5>1. h \in Visited(t)
          BY <1>1, <1>4, <2>4
        <5>2. Index(t, h) \in Nat /\ Index(t, y) \in Nat /\ Index(t, v) \in Nat
          BY <1>1, <1>5, <5>1
        <5>3. Index(t, v) <= Index(t, y)
          BY <3>1, <3>2 DEF Earlier
        <5> QED
          BY <2>4, <5>2, <5>3 DEF Earlier
      <4> QED
        BY <2>4, <4>1, <4>2
    <3> QED
      BY <3>1, <3>2
  <2>6. Stacked(next, t, K)
    BY <1>3, <2>5 DEF Stacked
  <2>7. Searching(next, t, K)
    BY <1>1, <1>3, <1>6, <2>6 DEF Searching
  <2>8. Crossing(next, s, t, v)
    BY <1>2 DEF Crossing
  <2> QED
    BY <1>1, <1>2, <2>1, <2>7, <2>8 DEF Found
<1>8. CASE t.low[v] = Index(t, v)
  <2>1. /\ u \in Search(N) /\ u.stack = s.stack /\ u.order = t.order /\ u.low = t.low
        /\ Visited(u) = Visited(t) /\ \A x : Index(u, x) = Index(t, x)
        /\ u.components = t.components \cup {m \in {C} : Cardinality(m) > 1}
    <3>0. t \in Search(N) /\ s.stack \in Seq(N) /\ v \in N /\ Longer(Append(s.stack, v), t.stack)
      BY <1>1, <1>2, <1>5
    <3> USE ONLY <3>0, <1>8
    <3>1. u \in Search(N) /\ u.order = t.order /\ u.low = t.low
      BY LeaveIs
    <3>2. Visited(u) = Visited(t) /\ \A x : Index(u, x) = Index(t, x)
      BY LeaveIs
    <3>3. u.stack = s.stack
      BY LeaveIs
    <3>4. u.components = t.components \cup {m \in {C} : Cardinality(m) > 1}
      BY LeaveIs
    <3> QED
      BY <3>1, <3>2, <3>3, <3>4
  <2> HIDE DEF u
  <2>2. /\ Len(s.stack) + 1 \in 1 .. Len(t.stack) /\ t.stack[Len(s.stack) + 1] = v
        /\ \A i \in 1 .. Len(s.stack) : i \in 1 .. Len(t.stack) /\ t.stack[i] = s.stack[i]
    <3>1. Len(s.stack) + 1 \in 1 .. Len(t.stack) /\ t.stack[Len(s.stack) + 1] = v
      <4>0. t.stack \in Seq(N) /\ s.stack \in Seq(N) /\ v \in N /\ Longer(Append(s.stack, v), t.stack)
        BY <1>1, <1>2, <1>5
      <4> QED
        BY ONLY <4>0, GoesOn
    <3>2. Longer(s.stack, t.stack)
      BY <1>2 DEF Kept
    <3> QED
      BY <1>5, <3>1, <3>2 DEF Longer
  <2>3. \A x \in C : \E k \in Len(s.stack) + 1 .. Len(t.stack) : x = t.stack[k]
    OBVIOUS
  <2>4. v \in C
    BY <1>5, <2>2
  <2>5. Range(t.stack) = Range(s.stack) \cup C
    <3>1. \A x \in Range(t.stack) : x \in Range(s.stack) \cup C
      <4> SUFFICES ASSUME NEW i \in 1 .. Len(t.stack) PROVE t.stack[i] \in Range(s.stack) \cup C
        BY <1>5 DEF Range
      <4>1. CASE i \in 1 .. Len(s.stack)
        BY <1>5, <2>2, <4>1 DEF Range
      <4>2. CASE i \notin 1 .. Len(s.stack)
        <5>1. i \in Len(s.stack) + 1 .. Len(t.stack)
          BY <1>5, <4>2
        <5> QED
          BY <5>1
      <4> QED
        BY <4>1, <4>2
    <3>2. \A x \in C : x \in Range(t.stack)
      <4>1. \A k \in Len(s.stack) + 1 .. Len(t.stack) : k \in DOMAIN t.stack
        BY <1>5
      <4> QED
        BY <2>3, <4>1 DEF Range
    <3> HIDE DEF C
    <3> QED
      BY <1>1, <3>1, <3>2
  <2>6. \A x \in C : x \notin Range(s.stack)
    <3> SUFFICES ASSUME NEW k \in Len(s.stack) + 1 .. Len(t.stack), NEW i \in 1 .. Len(s.stack),
                        t.stack[k] = s.stack[i]
                 PROVE  FALSE
      BY <1>5, <2>3 DEF Range
    <3>1. k \in 1 .. Len(t.stack) /\ i \in 1 .. Len(t.stack) /\ t.stack[k] = t.stack[i] /\ k # i
      BY <1>5, <2>2
    <3> QED
      BY <1>1, <3>1, SearchIs
  <2>7. \A x \in C : Earlier(t, v, x)
    <3> SUFFICES ASSUME NEW k \in Len(s.stack) + 1 .. Len(t.stack) PROVE Earlier(t, v, t.stack[k])
      BY <2>3
    <3>1. /\ k \in 1 .. Len(t.stack) /\ t.stack[k] \in Visited(t)
          /\ k = Len(s.stack) + 1 \/ Len(s.stack) + 1 < k
      BY <1>1, <1>5, SearchIs
    <3>2. CASE k = Len(s.stack) + 1
      BY <1>1, <2>2, <3>2 DEF Earlier
    <3>3. CASE Len(s.stack) + 1 < k
      <4>1. Index(t, t.stack[Len(s.stack) + 1]) < Index(t, t.stack[k])
        BY <1>3, <2>2, <3>1, <3>3 DEF Stacked
      <4>2. Index(t, v) \in Nat /\ Index(t, t.stack[k]) \in Nat
        BY <1>1, <3>1
      <4> QED
        BY <2>2, <4>1, <4>2 DEF Earlier
    <3> QED
      BY <3>1, <3>2, <3>3
  <2> HIDE DEF C
  <2>8. C \in SUBSET N /\ C \subseteq Visited(t)
    BY <1>5, <2>5
  <2>9. ASSUME NEW x \in C PROVE Leads(next, v, x) /\ Leads(next, x, v)
    <3>1. Leads(next, v, x)
      BY <1>1, <1>3, <2>5, <2>7 DEF Stacked
    <3>2. PICK h \in K \cup {v} : Leads(next, x, h)
      BY <1>3, <2>5 DEF Stacked
    <3>3. CASE h \in K
      <4>1. x \in N /\ Leads(next, h, v)
        BY <1>4, <2>8, <3>3
      <4> QED
        BY <3>1, <3>2, <4>1, LeadsOn
    <3> QED
      BY <3>1, <3>2, <3>3
  <2>10. \A x \in C : next[x] \subseteq Visited(t)
    <3>1. \A x \in C : x \notin K
      BY <1>4, <2>6
    <3> QED
      BY <1>6, <2>8, <3>1
  <2>11. Mutual(next, v) \subseteq C
    <3> SUFFICES ASSUME NEW y \in N, y \notin C, Leads(next, v, y), Leads(next, y, v) PROVE FALSE
      BY DEF Mutual
    <3>1. PICK a \in C : \E b \in next[a] \ C : Leads(next, b, y)
      <4>1. v \in C /\ C \in SUBSET N /\ y \in N \ C
        BY <2>4, <2>8
      <4> QED
        BY <4>1, LeadsOut
    <3>2. PICK b \in next[a] \ C : Leads(next, b, y)
      BY <3>1
    <3>3. a \in N /\ b \in N /\ b \in Visited(t)
      BY <2>8, <2>10, <3>1, <3>2
    <3>4. Leads(next, v, b) /\ Leads(next, b, v)
      <4>1. Leads(next, v, a)
        BY <2>9
      <4> QED
        BY <1>1, <3>2, <3>3, <4>1, LeadsOn
    <3>5. CASE b \in Range(t.stack)
      <4>1. b \in Range(s.stack) /\ a \in Range(t.stack) \ Range(s.stack)
        BY <2>5, <2>6, <3>2, <3>5
      <4>2. t.low[v] <= Index(t, b)
        BY <1>2, <3>2, <4>1
      <4>3. Index(t, b) \in 1 .. Len(s.order)
        BY <1>1, <4>1, IndexIs
      <4> QED
        BY <1>1, <1>8, <4>2, <4>3
    <3>6. CASE b \notin Range(t.stack)
      <4>1. b \in Done(t)
        BY <3>3, <3>6 DEF Done
      <4>2. v \in Mutual(next, b)
        BY <1>1, <3>4 DEF Mutual
      <4>3. v \in Done(t)
        BY <1>3, <4>1, <4>2 DEF Settled
      <4> QED
        BY <1>1, <4>3 DEF Done
    <3> QED
      BY <3>5, <3>6
  <2>12. C = Mutual(next, v)
    <3>1. C \subseteq Mutual(next, v)
      BY <2>8, <2>9 DEF Mutual
    <3> QED
      BY <2>11, <3>1
  <2>13. Done(u) = Done(t) \cup C
    BY <1>1, <2>1, <2>5, <2>6, <2>8 DEF Done
  <2>14. \A x \in C : Mutual(next, x) = C
    BY <1>1, <2>12, MutualSame
  <2>15. Settled(next, u)
    <3>1. \A x \in Done(u) : Mutual(next, x) \subseteq Done(u)
      BY <1>3, <2>13, <2>14 DEF Settled
    <3>2. t.components = {m \in {Mutual(next, x) : x \in Done(t)} : Cardinality(m) > 1}
      BY <1>3 DEF Settled
    <3>3. {Mutual(next, x) : x \in Done(u)} = {Mutual(next, x) : x \in Done(t)} \cup {C}
      BY <2>4, <2>13, <2>14
    <3>4. u.components = {m \in {Mutual(next, x) : x \in Done(u)} : Cardinality(m) > 1}
      BY <2>1, <3>2, <3>3
    <3> QED
      BY <3>1, <3>4 DEF Settled
  <2>16. Stacked(next, u, K)
    <3>1. \A x \in Range(s.stack) : Index(u, x) = Index(s, x)
      BY <1>1, <2>1
    <3>2. \A i \in 1 .. Len(s.stack) : s.stack[i] \in Range(s.stack)
      BY <1>1, SearchIs
    <3>3. \A i, j \in 1 .. Len(s.stack) : i < j => Index(u, s.stack[i]) < Index(u, s.stack[j])
      BY <1>4, <3>1, <3>2 DEF Stacked
    <3>4. \A x, y \in Range(s.stack) : Earlier(u, x, y) => Leads(next, x, y)
      BY <1>4, <3>1 DEF Stacked, Earlier
    <3>5. \A y \in Range(s.stack) : \E x \in K : Earlier(u, x, y) /\ Leads(next, y, x)
      BY <1>4, <3>1 DEF Stacked, Earlier
    <3> QED
      BY <1>4, <2>1, <3>3, <3>4, <3>5 DEF Stacked
  <2>17. Searching(next, u, K)
    BY <1>6, <2>1, <2>15, <2>16 DEF Searching
  <2>18. Kept(s, u)
    <3>1. Longer(s.stack, u.stack)
      BY <1>5, <2>1 DEF Longer
    <3> QED
      BY <1>2, <2>1, <3>1 DEF Kept
  <2>19. v \notin Range(u.stack) /\ u.low[v] = Index(u, v) /\ v \in Visited(u)
    BY <1>1, <1>8, <2>1
  <2>20. Crossing(next, s, u, v)
    BY <2>1 DEF Crossing
  <2> QED
    BY <2>17, <2>18, <2>19, <2>20 DEF Found, u
<1> QED
  BY <1>7, <1>8
-----------------------------------------------------------------------------

(* What a search of v that begins in s does at least, and what holds while *)
(* it goes through v's edges.                                              *)
Grows(N, s, v, u) ==
    u \in Search(N) /\ Visited(s) \cup {v} \subseteq Visited(u) /\ Longer(s.stack, u.stack)
Growing(N, s, v, t) ==
    /\ t \in Search(N) /\ Visited(s) \cup {v} \subseteq Visited(t)
    /\ Longer(Append(s.stack, v), t.stack)
(* The calls with more nodes visited than s and v.                         *)
Deeper(N, s, v) == {y \in Calls(N) : Visited(s) \cup {v} \subseteq Visited(y[1])}

(* An edge that is followed keeps what was visited and what is on the      *)
(* stack, and a call for it is a deeper one.                               *)
LEMMA FollowGrows ==
  ASSUME NEW N, NEW s \in Search(N), NEW v \in N, NEW f,
         \A y \in Deeper(N, s, v) : Grows(N, y[1], y[2], f[y]),
         NEW t, Growing(N, s, v, t), NEW w \in N
  PROVE  /\ Growing(N, s, v, Follow(f, v, w, t))
         /\ w \notin Visited(t) => <<t, w>> \in Deeper(N, s, v)
<1>1. /\ t \in Search(N) /\ Visited(s) \cup {v} \subseteq Visited(t)
      /\ Longer(Append(s.stack, v), t.stack)
  BY DEF Growing
<1>2. CASE w \in Visited(t)
  <2>1. Follow(f, v, w, t) = BackEdge(t, v, w)
    BY <1>2 DEF Follow
  <2>2. CASE w \notin Range(t.stack)
    BY <1>2, <2>1, <2>2 DEF BackEdge
  <2>3. CASE w \in Range(t.stack)
    <3> DEFINE u == LowerLink(t, v, Index(t, w))
    <3>1. BackEdge(t, v, w) = u
      BY <2>3 DEF BackEdge
    <3>2. Index(t, w) \in Nat
      BY <1>1, <1>2, IndexIs
    <3>3. u \in Search(N) /\ u.stack = t.stack /\ Visited(u) = Visited(t)
      BY <1>1, <3>2, LowerIs
    <3> QED
      BY <1>1, <1>2, <2>1, <3>1, <3>3 DEF Growing
  <2> QED
    BY <2>2, <2>3
<1>3. CASE w \notin Visited(t)
  <2> DEFINE y == <<t, w>>
             u == f[y]
             r == LowerLink(u, v, u.low[w])
  <2>1. y \in Deeper(N, s, v) /\ y[1] = t /\ y[2] = w
    BY <1>1, <1>3 DEF Deeper, Calls
  <2>2. Grows(N, t, w, u)
    BY <2>1
  <2>3. Follow(f, v, w, t) = r
    BY <1>3 DEF Follow
  <2> HIDE DEF u
  <2>4. u \in Search(N) /\ Visited(t) \subseteq Visited(u) /\ Longer(t.stack, u.stack)
    BY <2>2 DEF Grows
  <2>5. u.low[w] \in Nat
    BY <2>4, SearchIs
  <2>6. r \in Search(N) /\ r.stack = u.stack /\ Visited(r) = Visited(u)
    <3> USE ONLY <2>4, <2>5
    <3>1. \A i \in Nat : LowerLink(u, v, i) \in Search(N) /\ LowerLink(u, v, i).stack = u.stack
      BY LowerIs
    <3>2. \A i \in Nat : Visited(LowerLink(u, v, i)) = Visited(u)
      BY LowerIs
    <3> QED
      BY <2>5, <3>1, <3>2
  <2>7. Longer(Append(s.stack, v), u.stack)
    <3>1. /\ s.stack \in Seq(N) /\ t.stack \in Seq(N) /\ u.stack \in Seq(N)
      BY <1>1, <2>4, SearchIs
    <3>2. Append(s.stack, v) \in Seq(N)
      BY <3>1
    <3> QED
      BY <1>1, <2>4, <3>1, <3>2, LongerOn
  <2> HIDE DEF r, y
  <2> QED
    BY <1>1, <1>3, <2>1, <2>3, <2>4, <2>6, <2>7 DEF Growing, y
<1> QED
  BY <1>2, <1>3

(* So does leaving the node.                                               *)
LEMMA LeaveGrows ==
  ASSUME NEW N, NEW s \in Search(N), NEW v \in N, NEW t, Growing(N, s, v, t)
  PROVE  Grows(N, s, v, Leave(t, v))
<1> DEFINE u == Leave(t, v)
<1>1. /\ t \in Search(N) /\ Visited(s) \cup {v} \subseteq Visited(t)
      /\ Longer(Append(s.stack, v), t.stack) /\ s.stack \in Seq(N) /\ t.stack \in Seq(N)
      /\ Append(s.stack, v) \in Seq(N)
  BY SearchIs DEF Growing
<1>2. /\ u \in Search(N) /\ Visited(u) = Visited(t) /\ (u.stack = t.stack \/ u.stack = s.stack)
  <2>0. t \in Search(N) /\ s.stack \in Seq(N) /\ v \in N /\ Longer(Append(s.stack, v), t.stack)
    BY <1>1
  <2> USE ONLY <2>0
  <2>1. u \in Search(N) /\ Visited(u) = Visited(t)
    BY LeaveIs
  <2>2. u.stack = t.stack \/ u.stack = s.stack
    BY LeaveIs
  <2> QED
    BY <2>1, <2>2
<1> HIDE DEF u
<1>3. Longer(s.stack, s.stack)
  BY <1>1 DEF Longer
<1>4. Longer(s.stack, t.stack)
  <2>1. Longer(s.stack, Append(s.stack, v))
    <3>1. s.stack \in Seq(N)
      BY <1>1
    <3> QED
      BY ONLY <3>1, OneMore
  <2> QED
    BY <1>1, <2>1, LongerOn
<1> QED
  BY <1>1, <1>2, <1>3, <1>4 DEF Grows, u

(* The element a fold over a set takes next.                               *)
AnyOf(t) == CHOOSE x \in t : TRUE
GrowLaw == INSTANCE FoldLaws WITH
    Pick <- LAMBDA t : AnyOf(t),
    Op <- LAMBDA p, q, r, s, w, t : Follow(p, q, w, t),
    Inv <- LAMBDA p, q, r, s, b, d, t : Growing(r, s, q, t)

(* An exploration needs the answers of deeper calls only.                  *)
LEMMA ExploreGrows ==
  ASSUME NEW N, IsFiniteSet(N), NEW arcs \in SUBSET (N \X N), NEW s \in Search(N), NEW v \in N,
         v \notin Visited(s), NEW f,
         \A y \in Deeper(N, s, v) : Grows(N, y[1], y[2], f[y])
  PROVE  /\ Grows(N, s, v, Explore(f, arcs, s, v))
         /\ \A g : (\A y \in Deeper(N, s, v) : g[y] = f[y]) =>
                      Explore(g, arcs, s, v) = Explore(f, arcs, s, v)
<1> DEFINE S == Efferent(arcs, v)
           e == Enter(s, v)
<1>1. S \in SUBSET N
  BY DEF Efferent
<1>2. \A g : Explore(g, arcs, s, v) = Leave(GrowLaw!Fold(g, v, N, s, e, S), v)
  BY DEF Explore, FoldSet, MapThenFoldSet, GrowLaw!Fold, AnyOf
<1> HIDE DEF S
<1>3. Dwindles(S) /\ \A t \in SUBSET S : t # {} => AnyOf(t) \in t
  BY <1>1, FS_Subset, SetsFold DEF AnyOf
<1>4. Growing(N, s, v, e)
  <2>1. /\ e \in Search(N) /\ e.stack = Append(s.stack, v) /\ Visited(e) = Visited(s) \cup {v}
    BY EnterIs
  <2>2. Longer(e.stack, e.stack)
    <3>1. Len(e.stack) \in Nat
      BY <2>1, SearchIs
    <3> QED
      BY <3>1 DEF Longer
  <2> QED
    BY <2>1, <2>2 DEF Growing
<1> HIDE DEF e
<1>5. \A w \in S : \A d \in SUBSET S : \A t :
          w \notin d /\ Growing(N, s, v, t) => Growing(N, s, v, Follow(f, v, w, t))
  BY <1>1, FollowGrows
<1>6. Growing(N, s, v, GrowLaw!Fold(f, v, N, s, e, S))
  BY <1>3, <1>4, <1>5, GrowLaw!FoldKeeps DEF Dwindles
<1>7. Grows(N, s, v, Explore(f, arcs, s, v))
  BY <1>2, <1>6, LeaveGrows
<1>8. ASSUME NEW g, \A y \in Deeper(N, s, v) : g[y] = f[y]
      PROVE  Explore(g, arcs, s, v) = Explore(f, arcs, s, v)
  <2>1. ASSUME NEW w \in S, NEW t, Growing(N, s, v, t)
        PROVE  Follow(g, v, w, t) = Follow(f, v, w, t)
    <3>1. w \notin Visited(t) => g[<<t, w>>] = f[<<t, w>>]
      BY <1>1, <1>8, <2>1, FollowGrows
    <3> QED
      BY <3>1 DEF Follow
  <2>2. \A w \in S : \A d \in SUBSET S : \A t :
            Growing(N, s, v, t) => Follow(g, v, w, t) = Follow(f, v, w, t)
    BY <2>1
  <2>3. GrowLaw!Fold(g, v, N, s, e, S) = GrowLaw!Fold(f, v, N, s, e, S)
    <3>1. GrowLaw!Descends(S)
      BY <1>3 DEF Dwindles, GrowLaw!Descends
    <3> QED
      BY <1>3, <1>4, <1>5, <2>2, <3>1, GrowLaw!FoldAgrees
  <2> QED
    BY <1>2, <2>3
<1> QED
  BY <1>7, <1>8

(* How many nodes a call finds unvisited.                                  *)
Left(N, y) == Cardinality(N \ Visited(y[1]))
(* One at least, and fewer the deeper the call is.                         *)
LEMMA LeftIs ==
  ASSUME NEW N, IsFiniteSet(N), NEW y \in Calls(N)
  PROVE  /\ y[1] \in Search(N) /\ y[2] \in N /\ y[2] \notin Visited(y[1])
         /\ Left(N, y) \in 1 .. Cardinality(N) /\ Cardinality(N) \in Nat
         /\ \A z \in Deeper(N, y[1], y[2]) : z \in Calls(N) /\ Left(N, z) < Left(N, y)
<1> DEFINE U(z) == N \ Visited(z[1])
<1>1. y[1] \in Search(N) /\ y[2] \in N /\ y[2] \in U(y)
  BY DEF Calls
<1>2. /\ Cardinality(N) \in Nat
      /\ \A z : IsFiniteSet(U(z)) /\ Cardinality(U(z)) \in Nat /\ Cardinality(U(z)) <= Cardinality(N)
  BY FS_Subset, FS_CardinalityType
<1>3. Cardinality(U(y)) # 0
  BY <1>1, <1>2, FS_EmptySet
<1>4. ASSUME NEW z \in Deeper(N, y[1], y[2])
      PROVE  z \in Calls(N) /\ Cardinality(U(z)) < Cardinality(U(y))
  <2>1. z \in Calls(N) /\ U(z) \subseteq U(y) /\ y[2] \notin U(z)
    BY DEF Deeper
  <2>2. /\ Cardinality(U(z)) <= Cardinality(U(y))
        /\ Cardinality(U(z)) = Cardinality(U(y)) => U(z) = U(y)
    BY <1>2, <2>1, FS_Subset
  <2> QED
    BY <1>1, <1>2, <2>1, <2>2
<1> QED
  BY <1>1, <1>2, <1>3, <1>4 DEF Left

(* The search is defined: for every call one recursion deep, two, and so   *)
(* on, some function answers as an exploration with it does.               *)
LEMMA VisitExists ==
  ASSUME NEW N, IsFiniteSet(N), NEW arcs \in SUBSET (N \X N)
  PROVE  \A y \in Calls(N) : Visit(arcs, N)[y] = Explore(Visit(arcs, N), arcs, y[1], y[2])
<1> DEFINE Again(h) == [y \in Calls(N) |-> Explore(h, arcs, y[1], y[2])]
           Answers(h, k) ==
               \A y \in Calls(N) : Left(N, y) <= k =>
                   h[y] = Explore(h, arcs, y[1], y[2]) /\ Grows(N, y[1], y[2], h[y])
<1>1. ASSUME NEW k \in Nat, NEW h, Answers(h, k) PROVE Answers(Again(h), k + 1)
  <2> DEFINE g == Again(h)
  <2> SUFFICES ASSUME NEW y \in Calls(N), Left(N, y) <= k + 1
               PROVE  g[y] = Explore(g, arcs, y[1], y[2]) /\ Grows(N, y[1], y[2], g[y])
    OBVIOUS
  <2>1. \A z \in Calls(N) : g[z] = Explore(h, arcs, z[1], z[2])
    OBVIOUS
  <2> HIDE DEF g
  <2>2. ASSUME NEW z \in Deeper(N, y[1], y[2])
        PROVE  Grows(N, z[1], z[2], h[z]) /\ g[z] = h[z]
    <3>1. z \in Calls(N) /\ Left(N, z) <= k
      <4>1. /\ Left(N, y) \in 1 .. Cardinality(N) /\ Cardinality(N) \in Nat
            /\ z \in Calls(N) /\ Left(N, z) < Left(N, y)
        BY LeftIs
      <4>2. Left(N, z) \in 1 .. Cardinality(N)
        BY <4>1, LeftIs
      <4> QED
        BY <4>1, <4>2
    <3> QED
      BY <1>1, <2>1, <3>1
  <2>3. y[1] \in Search(N) /\ y[2] \in N /\ y[2] \notin Visited(y[1])
    BY LeftIs
  <2>4. /\ Grows(N, y[1], y[2], Explore(h, arcs, y[1], y[2]))
        /\ Explore(g, arcs, y[1], y[2]) = Explore(h, arcs, y[1], y[2])
    BY <2>2, <2>3, ExploreGrows
  <2> QED
    BY <2>1, <2>4
<1>2. \A h : Answers(h, 0)
  BY LeftIs
<1> HIDE DEF Answers, Again
<1>3. \A k \in Nat : \E h : Answers(h, k)
  <2> DEFINE Bad == {k \in Nat : ~ \E h : Answers(h, k)}
  <2> SUFFICES ASSUME Bad # {} PROVE FALSE
    OBVIOUS
  <2>1. PICK k \in Bad : \A j \in Bad : ~(<<j, k>> \in OpToRel(<, Nat))
    <3>1. Bad \subseteq Nat
      OBVIOUS
    <3> HIDE DEF Bad
    <3> QED
      BY <3>1, NatLessThanWellFounded, WFMin
  <2>2. k \in Nat /\ k # 0
    BY <1>2
  <2>3. k - 1 \in Nat /\ <<k - 1, k>> \in OpToRel(<, Nat)
    BY <2>2 DEF OpToRel
  <2>4. PICK h : Answers(h, k - 1)
    BY <2>1, <2>3
  <2>5. (k - 1) + 1 = k
    BY <2>2
  <2>6. Answers(Again(h), (k - 1) + 1)
    BY <1>1, <2>3, <2>4
  <2> QED
    BY <2>1, <2>5, <2>6
<1> DEFINE n == Cardinality(N)
<1>4. n \in Nat
  BY FS_CardinalityType
<1>5. PICK h : Answers(h, n)
  BY <1>3, <1>4
<1> DEFINE g == Again(h)
<1>6. Answers(g, n + 1)
  BY <1>1, <1>4, <1>5
<1>7. ASSUME NEW y \in Calls(N) PROVE g[y] = Explore(g, arcs, y[1], y[2])
  <2>1. Left(N, y) <= n + 1
    BY <1>4, LeftIs
  <2> QED
    BY <1>6, <2>1 DEF Answers
<1>8. g = [y \in Calls(N) |-> g[y]]
  BY DEF Again
<1> HIDE DEF g
<1>9. g = [y \in Calls(N) |-> Explore(g, arcs, y[1], y[2])]
  BY <1>7, <1>8
<1> DEFINE f == CHOOSE f : f = [y \in Calls(N) |-> Explore(f, arcs, y[1], y[2])]
<1>10. f = [y \in Calls(N) |-> Explore(f, arcs, y[1], y[2])]
  BY <1>9
<1>11. Visit(arcs, N) = f
  BY DEF Visit
<1> HIDE DEF f
<1>12. \A y \in Calls(N) : f[y] = Explore(f, arcs, y[1], y[2])
  BY <1>10
<1> QED
  BY <1>11, <1>12

-----------------------------------------------------------------------------
(* Every search of the atlas keeps its contract.                           *)
FindLaw == INSTANCE FoldLaws WITH
    Pick <- LAMBDA t : AnyOf(t),
    Op <- LAMBDA p, q, r, s, w, t : Follow(p, q, w, t),
    Inv <- LAMBDA p, q, r, s, b, d, t : Looping(r[1], s, r[2], q, d, t)

(* An exploration keeps the promise of the search when deeper calls do.    *)
LEMMA ExploreFinds ==
  ASSUME NEW N, IsFiniteSet(N), NEW arcs \in SUBSET (N \X N), NEW next,
         next = [x \in N |-> Efferent(arcs, x)], NEW f,
         NEW s, NEW K, NEW v, Pre(next, s, K, v),
         \A t : \A w \in N : \A J : <<t, w>> \in Deeper(N, s, v) /\ Pre(next, t, J, w) =>
             Found(next, t, J, w, f[<<t, w>>])
  PROVE  Found(next, s, K, v, Explore(f, arcs, s, v))
<1> DEFINE r == <<next, K>>
           S == Efferent(arcs, v)
           e == Enter(s, v)
<1>1. next \in [N -> SUBSET N]
  BY DEF Efferent
<1>2. v \in N /\ s \in Search(N) /\ next[v] = S /\ S \in SUBSET N
  BY <1>1 DEF Pre, Searching
<1>3. Explore(f, arcs, s, v) = Leave(FindLaw!Fold(f, v, r, s, e, S), v)
  BY DEF Explore, FoldSet, MapThenFoldSet, FindLaw!Fold, AnyOf
<1>4. r[1] = next /\ r[2] = K
  OBVIOUS
<1> HIDE DEF S, r
<1>5. Dwindles(S) /\ \A t \in SUBSET S : t # {} => AnyOf(t) \in t
  BY <1>2, FS_Subset, SetsFold DEF AnyOf
<1>6. Looping(r[1], s, r[2], v, {}, e)
  BY <1>1, <1>4, EnterLoops
<1> HIDE DEF e
<1>7. ASSUME NEW w \in S, NEW d \in SUBSET S, NEW t, Looping(next, s, K, v, d, t)
      PROVE  Looping(next, s, K, v, d \cup {w}, Follow(f, v, w, t))
  <2>1. w \in next[v] /\ w \in N
    BY <1>2
  <2>2. CASE w \in Visited(t)
    BY <1>1, <1>7, <2>1, <2>2, BackLoops DEF Follow
  <2>3. CASE w \notin Visited(t)
    <3> DEFINE u == f[<<t, w>>]
    <3>1. Follow(f, v, w, t) = LowerLink(u, v, u.low[w])
      BY <2>3 DEF Follow
    <3>2. t \in Search(N) /\ Visited(s) \subseteq Visited(t) /\ v \in Visited(t)
      BY <1>1, <1>7, LoopIs
    <3>3. <<t, w>> \in Deeper(N, s, v)
      BY <2>1, <2>3, <3>2 DEF Deeper, Calls
    <3>4. Pre(next, t, K \cup {v}, w)
      <4>1. Searching(next, t, K \cup {v})
        BY <1>7 DEF Looping
      <4>2. \A k \in K \cup {v} : Leads(next, k, w)
        <5>1. K \subseteq N /\ \A k \in K : Leads(next, k, v)
          <6>1. K \subseteq Range(s.stack) /\ \A k \in K : Leads(next, k, v)
            BY DEF Pre, Searching, Stacked
          <6> QED
            BY <1>2, <6>1, SearchIs
        <5> QED
          BY <1>1, <1>2, <2>1, <5>1, LeadsOn
      <4>3. w \in DOMAIN next
        BY <1>1, <2>1
      <4> QED
        BY <2>3, <4>1, <4>2, <4>3 DEF Pre
    <3>5. Found(next, t, K \cup {v}, w, u)
      BY <2>1, <3>3, <3>4
    <3> HIDE DEF u
    <3>6. Looping(next, s, K, v, d \cup {w}, LowerLink(u, v, u.low[w]))
      BY <1>1, <1>7, <2>1, <2>3, <3>5, CallLoops
    <3> QED
      BY <3>1, <3>6
  <2> QED
    BY <2>2, <2>3
<1>8. \A w \in S : \A d \in SUBSET S : \A t :
          w \notin d /\ Looping(r[1], s, r[2], v, d, t) =>
              Looping(r[1], s, r[2], v, d \cup {w}, Follow(f, v, w, t))
  BY <1>4, <1>7
<1>9. Looping(r[1], s, r[2], v, S, FindLaw!Fold(f, v, r, s, e, S))
  BY <1>5, <1>6, <1>8, FindLaw!FoldKeeps DEF Dwindles
<1>10. Looping(next, s, K, v, next[v], FindLaw!Fold(f, v, r, s, e, S))
  BY <1>2, <1>4, <1>9
<1> QED
  BY <1>1, <1>3, <1>10, LeaveFinds

(* Every search keeps its promise: of those that did not, one would find   *)
(* the fewest nodes unvisited.                                             *)
LEMMA VisitFinds ==
  ASSUME NEW N, IsFiniteSet(N), NEW arcs \in SUBSET (N \X N), NEW next,
         next = [x \in N |-> Efferent(arcs, x)],
         NEW s, NEW K, NEW v, Pre(next, s, K, v)
  PROVE  Found(next, s, K, v, Visit(arcs, N)[<<s, v>>])
<1> DEFINE f == Visit(arcs, N)
           Missed(t, J, w) == Pre(next, t, J, w) /\ ~Found(next, t, J, w, f[<<t, w>>])
           Bad == {U \in SUBSET N : \E t, J, w : Missed(t, J, w) /\ U = N \ Visited(t)}
<1> SUFFICES ASSUME Bad # {} PROVE FALSE
  <2> SUFFICES ASSUME ~Found(next, s, K, v, f[<<s, v>>]) PROVE Bad # {}
    OBVIOUS
  <2> HIDE DEF f
  <2>1. Missed(s, K, v)
    OBVIOUS
  <2> HIDE DEF Missed
  <2>2. N \ Visited(s) \in Bad
    BY <2>1
  <2> QED
    BY <2>2
<1>1. PICK U \in Bad : \A W \in Bad : W \subseteq U => W = U
  <2>1. Bad \in SUBSET SUBSET N
    OBVIOUS
  <2> HIDE DEF Bad
  <2> QED
    BY <2>1, FiniteDwindles DEF Dwindles
<1>2. PICK t, J, w : Missed(t, J, w) /\ U = N \ Visited(t)
  BY <1>1
<1>3. \A y \in Calls(N) : f[y] = Explore(f, arcs, y[1], y[2])
  BY VisitExists
<1> HIDE DEF f
<1>4. t \in Search(N) /\ w \in N /\ w \notin Visited(t)
  BY <1>2 DEF Pre, Searching
<1>5. <<t, w>> \in Calls(N) /\ f[<<t, w>>] = Explore(f, arcs, t, w)
  BY <1>3, <1>4 DEF Calls
<1>6. ASSUME NEW z, NEW x \in N, NEW I, <<z, x>> \in Deeper(N, t, w), Pre(next, z, I, x)
      PROVE  Found(next, z, I, x, f[<<z, x>>])
  <2>1. Visited(t) \subseteq Visited(z) /\ w \in Visited(z)
    BY <1>6 DEF Deeper
  <2>2. N \ Visited(z) \in SUBSET N /\ N \ Visited(z) \subseteq U /\ N \ Visited(z) # U
    BY <1>2, <1>4, <2>1
  <2>3. N \ Visited(z) \notin Bad
    BY <1>1, <2>2
  <2> QED
    BY <1>6, <2>2, <2>3
<1> HIDE DEF Bad
<1>7. Found(next, t, J, w, Explore(f, arcs, t, w))
  BY <1>2, <1>6, ExploreFinds
<1> QED
  BY <1>2, <1>5, <1>7

RestartLaw == INSTANCE FoldLaws WITH
    Pick <- LAMBDA t : AnyOf(t),
    Op <- LAMBDA p, q, r, s, w, t : Restart(p, w, t),
    Inv <- LAMBDA p, q, r, s, b, d, t : Searching(r, t, {}) /\ d \subseteq Visited(t)

(* Tarjan's algorithm finds the sets of nodes that lead to each other.     *)
LEMMA SearchFinds ==
  ASSUME NEW N, IsFiniteSet(N), NEW arcs \in SUBSET (N \X N), NEW next,
         next = [x \in N |-> Efferent(arcs, x)]
  PROVE  FoldSet(LAMBDA v, s : Restart(Visit(arcs, N), v, s), Unvisited(N), N).components
             = {m \in {Mutual(next, x) : x \in N} : Cardinality(m) > 1}
<1> DEFINE f == Visit(arcs, N)
           e == Unvisited(N)
           u == RestartLaw!Fold(f, 0, next, 0, e, N)
<1>1. FoldSet(LAMBDA v, s : Restart(f, v, s), e, N) = u
  BY DEF FoldSet, MapThenFoldSet, RestartLaw!Fold, AnyOf
<1>2. next \in [N -> SUBSET N] /\ DOMAIN next = N
  BY DEF Efferent
<1>3. Searching(next, e, {}) /\ {} \subseteq Visited(e)
  <2>1. /\ e.stack = <<>> /\ e.order = <<>> /\ e.components = {}
        /\ e.low = [x \in N |-> 0]
    BY DEF Unvisited
  <2>2. Visited(e) = {} /\ Range(e.stack) = {} /\ Len(e.stack) = 0 /\ Len(e.order) = 0
    BY <2>1 DEF Visited, Range
  <2>3. e \in Search(N)
    <3>1. e \in [stack : Seq(N), order : Seq(N), low : [N -> Nat], components : SUBSET SUBSET N]
      BY DEF Unvisited
    <3> QED
      BY <2>2, <3>1, IsSearch
  <2>4. Stacked(next, e, {})
    BY <2>2 DEF Stacked
  <2>5. Settled(next, e)
    BY <2>1, <2>2 DEF Settled, Done
  <2> QED
    BY <1>2, <2>2, <2>3, <2>4, <2>5 DEF Searching
<1> HIDE DEF e
<1>4. ASSUME NEW w \in N, NEW d \in SUBSET N, NEW t, Searching(next, t, {}), d \subseteq Visited(t)
      PROVE  Searching(next, Restart(f, w, t), {}) /\ d \cup {w} \subseteq Visited(Restart(f, w, t))
  <2>1. CASE w \in Visited(t)
    BY <1>4, <2>1 DEF Restart
  <2>2. CASE w \notin Visited(t)
    <3> DEFINE z == f[<<t, w>>]
    <3>1. Restart(f, w, t) = z
      BY <2>2 DEF Restart
    <3>2. Pre(next, t, {}, w)
      BY <1>2, <1>4, <2>2 DEF Pre
    <3>3. Found(next, t, {}, w, z)
      BY <3>2, VisitFinds
    <3> HIDE DEF z
    <3>4. Searching(next, z, {}) /\ Kept(t, z) /\ w \in Visited(z)
      BY <3>3 DEF Found
    <3>5. t \in Search(N) /\ z \in Search(N) /\ Longer(t.order, z.order)
      BY <1>2, <1>4, <3>4 DEF Searching, Kept
    <3>6. Visited(t) \subseteq Visited(z)
      BY <3>5, IndexKept
    <3> QED
      BY <1>4, <3>1, <3>4, <3>6
  <2> QED
    BY <2>1, <2>2
<1> HIDE DEF f
<1>5. Dwindles(N) /\ \A t \in SUBSET N : t # {} => AnyOf(t) \in t
  BY SetsFold DEF AnyOf
<1>6. Searching(next, u, {}) /\ N \subseteq Visited(u)
  BY <1>3, <1>4, <1>5, RestartLaw!FoldKeeps DEF Dwindles
<1> HIDE DEF u
<1>7. Done(u) = N
  <2>1. Visited(u) = N
    BY <1>2, <1>6, SearchIs DEF Searching
  <2>2. Range(u.stack) = {}
    BY <1>6 DEF Searching, Stacked
  <2> QED
    BY <2>1, <2>2 DEF Done
<1>8. u.components = {m \in {Mutual(next, x) : x \in N} : Cardinality(m) > 1}
  BY <1>6, <1>7 DEF Searching, Settled
<1> QED
  BY <1>1, <1>8 DEF f, e
-----------------------------------------------------------------------------
(* What n leads to in one step or more, and how close the search for it is *)
(* when it has looked around as often as d has elements.                   *)
Ahead(next, n) == {m \in DOMAIN next : \E z \in next[n] : Leads(next, z, m)}
Nearing(next, n, d, R) ==
    /\ R \subseteq Ahead(next, n) /\ next[n] \subseteq R
    /\ (\A z \in R : next[z] \subseteq R) \/ Cardinality(d) < Cardinality(R)

Around(next, R) == R \cup UNION {next[m] : m \in R}

(* A look around takes in a node more, or nothing is left to take in.      *)
LEMMA LooksAround ==
  ASSUME NEW N, IsFiniteSet(N), NEW next \in [N -> SUBSET N], NEW n \in N,
         NEW d \in SUBSET N, NEW x \in N \ d, NEW R, Nearing(next, n, d, R)
  PROVE  Nearing(next, n, d \cup {x}, Around(next, R))
<1> DEFINE Q == R \cup UNION {next[m] : m \in R}
<1>1. R \subseteq Ahead(next, n) /\ next[n] \subseteq R /\ R \in SUBSET N
  BY DEF Nearing, Ahead
<1>2. Q \subseteq Ahead(next, n)
  <2> SUFFICES ASSUME NEW m \in R, NEW y \in next[m] PROVE y \in Ahead(next, n)
    BY <1>1
  <2>1. PICK z \in next[n] : Leads(next, z, m)
    BY <1>1 DEF Ahead
  <2>2. y \in N /\ z \in N /\ m \in N
    BY <1>1
  <2>3. Leads(next, z, y)
    BY <2>1, <2>2, LeadsOn
  <2> QED
    BY <2>2, <2>3 DEF Ahead
<1>3. ASSUME \A z \in R : next[z] \subseteq R PROVE Nearing(next, n, d \cup {x}, Q)
  <2>1. Q = R
    BY <1>3
  <2> QED
    BY <1>1, <1>3, <2>1 DEF Nearing
<1>4. ASSUME ~(\A z \in R : next[z] \subseteq R), Cardinality(d) < Cardinality(R)
      PROVE  Nearing(next, n, d \cup {x}, Q)
  <2>1. Q \in SUBSET N /\ R \subseteq Q /\ R # Q
    BY <1>1, <1>4
  <2>2. IsFiniteSet(Q) /\ IsFiniteSet(R) /\ IsFiniteSet(d)
    BY <1>1, <2>1, FS_Subset
  <2> HIDE DEF Q
  <2>3. Cardinality(R) \in Nat /\ Cardinality(Q) \in Nat /\ Cardinality(d) \in Nat
    BY <2>2, FS_CardinalityType
  <2>4. Cardinality(R) <= Cardinality(Q) /\ Cardinality(R) # Cardinality(Q)
    BY <2>1, <2>2, FS_Subset
  <2>5. Cardinality(d \cup {x}) = Cardinality(d) + 1
    BY <2>2, FS_AddElement
  <2>6. Cardinality(d \cup {x}) < Cardinality(Q)
    BY <1>4, <2>3, <2>4, <2>5
  <2> QED
    BY <1>1, <1>2, <2>1, <2>6 DEF Nearing
<1> HIDE DEF Q
<1>5. Nearing(next, n, d \cup {x}, Q)
  BY <1>3, <1>4 DEF Nearing
<1> QED
  BY <1>5 DEF Q, Around

ReachLaw == INSTANCE FoldLaws WITH
    Pick <- LAMBDA t : AnyOf(t),
    Op <- LAMBDA p, q, r, s, step, near : near \cup UNION {Efferent(p, m) : m \in near},
    Inv <- LAMBDA p, q, r, s, b, d, near : Nearing(r, q, d, near)

(* As many looks around as there are nodes find all that is reached.       *)
LEMMA ReachableIsAhead ==
  ASSUME NEW N, IsFiniteSet(N), NEW arcs \in SUBSET (N \X N), NEW next,
         next = [x \in N |-> Efferent(arcs, x)], NEW n \in N
  PROVE  Reachable(arcs, N, n) = Ahead(next, n)
<1> DEFINE e == Efferent(arcs, n)
           R == ReachLaw!Fold(arcs, n, next, 0, e, N)
<1>1. Reachable(arcs, N, n) = R
  BY DEF Reachable, FoldSet, MapThenFoldSet, ReachLaw!Fold, AnyOf
<1>2. next \in [N -> SUBSET N] /\ next[n] = e /\ DOMAIN next = N
  BY DEF Efferent
<1> HIDE DEF e
<1>3. Nearing(next, n, {}, e)
  <2>1. e \subseteq Ahead(next, n)
    BY <1>2, LeadsOn DEF Ahead
  <2>2. e = {} \/ Cardinality({}) < Cardinality(e)
    <3>1. IsFiniteSet(e)
      BY <1>2, FS_Subset
    <3> QED
      BY <3>1, FS_CardinalityType, FS_EmptySet
  <2> QED
    BY <1>2, <2>1, <2>2 DEF Nearing
<1>4. ASSUME NEW x \in N, NEW d \in SUBSET N, NEW near, x \notin d, Nearing(next, n, d, near)
      PROVE  Nearing(next, n, d \cup {x}, near \cup UNION {Efferent(arcs, m) : m \in near})
  <2>1. near \subseteq N
    BY <1>2, <1>4 DEF Nearing, Ahead
  <2>2. {Efferent(arcs, m) : m \in near} = {next[m] : m \in near}
    BY <2>1
  <2>3. Nearing(next, n, d \cup {x}, Around(next, near))
    <3>1. /\ x \in N \ d /\ IsFiniteSet(N) /\ next \in [N -> SUBSET N]
          /\ n \in N /\ d \in SUBSET N /\ Nearing(next, n, d, near)
      BY <1>2, <1>4
    <3> QED
      BY ONLY <3>1, LooksAround
  <2> QED
    BY <2>2, <2>3 DEF Around
<1>5. Dwindles(N) /\ \A t \in SUBSET N : t # {} => AnyOf(t) \in t
  BY SetsFold DEF AnyOf
<1>6. Nearing(next, n, N, R)
  BY <1>3, <1>4, <1>5, ReachLaw!FoldKeeps DEF Dwindles
<1> HIDE DEF R
<1>7. R \subseteq Ahead(next, n) /\ next[n] \subseteq R /\ R \in SUBSET N
  BY <1>2, <1>6 DEF Nearing, Ahead
<1>8. \A z \in R : next[z] \subseteq R
  <2>1. Cardinality(R) \in Nat /\ Cardinality(N) \in Nat /\ Cardinality(R) <= Cardinality(N)
    BY <1>7, FS_Subset, FS_CardinalityType
  <2> QED
    BY <1>6, <2>1 DEF Nearing
<1>9. Ahead(next, n) \subseteq R
  BY <1>2, <1>7, <1>8 DEF Ahead, Leads
<1> QED
  BY <1>1, <1>7, <1>9

(* A node of a component of more than one node is one that reaches itself, *)
(* for no edge leads from a node to itself.                                *)
LEMMA MutualIsAhead ==
  ASSUME NEW N, IsFiniteSet(N), NEW next \in [N -> SUBSET N], \A x \in N : x \notin next[x],
         NEW n \in N
  PROVE  /\ n \in Ahead(next, n) <=> Cardinality(Mutual(next, n)) > 1
         /\ n \in Ahead(next, n) =>
               {m \in Ahead(next, n) : n \in Ahead(next, m)} = Mutual(next, n)
<1>1. ASSUME NEW x \in N, NEW y \in N, x # y
      PROVE  y \in Ahead(next, x) <=> Leads(next, x, y)
  <2>1. ASSUME Leads(next, x, y) PROVE \E z \in next[x] : Leads(next, z, y)
    <3>1. {x} \in SUBSET N /\ x \in {x} /\ y \in N \ {x}
      BY <1>1
    <3>2. \E a \in {x} : \E b \in next[a] \ {x} : Leads(next, b, y)
      BY <2>1, <3>1, LeadsOut
    <3> QED
      BY <3>2
  <2>2. ASSUME NEW z \in next[x], Leads(next, z, y) PROVE Leads(next, x, y)
    <3>1. Leads(next, x, z)
      BY LeadsOn
    <3> QED
      BY <2>2, <3>1, LeadsOn
  <2> QED
    BY <2>1, <2>2 DEF Ahead
<1>2. IsFiniteSet(Mutual(next, n)) /\ Mutual(next, n) \subseteq N /\ n \in Mutual(next, n)
  <2>1. Mutual(next, n) \subseteq N
    BY DEF Mutual
  <2>2. n \in Mutual(next, n)
    BY LeadsOn DEF Mutual
  <2> QED
    BY <2>1, <2>2, FS_Subset
<1>3. Cardinality(Mutual(next, n)) \in Nat
  BY <1>2, FS_CardinalityType
<1>4. ASSUME n \in Ahead(next, n) PROVE Cardinality(Mutual(next, n)) > 1
  <2>1. PICK z \in next[n] : Leads(next, z, n)
    BY <1>4 DEF Ahead
  <2>2. z \in Mutual(next, n) /\ z # n
    BY <2>1, LeadsOn DEF Mutual
  <2>3. Cardinality(Mutual(next, n)) # 1
    <3>1. ~ \E x : Mutual(next, n) = {x}
      BY <1>2, <2>2
    <3> QED
      BY <1>2, <3>1, FS_Singleton
  <2>4. Cardinality(Mutual(next, n)) # 0
    BY <1>2, FS_EmptySet
  <2> QED
    BY <1>3, <2>3, <2>4
<1>5. ASSUME Cardinality(Mutual(next, n)) > 1 PROVE n \in Ahead(next, n)
  <2>1. PICK m \in Mutual(next, n) : m # n
    <3>1. Mutual(next, n) # {n}
      <4>1. Cardinality({n}) = 1
        BY FS_Singleton
      <4> QED
        BY <1>3, <1>5, <4>1
    <3> QED
      BY <1>2, <3>1
  <2>2. m \in N /\ Leads(next, n, m) /\ Leads(next, m, n)
    BY <2>1 DEF Mutual
  <2>3. PICK z \in next[n] : Leads(next, z, m)
    BY <1>1, <2>1, <2>2 DEF Ahead
  <2>4. Leads(next, z, n)
    BY <2>2, <2>3, LeadsOn
  <2> QED
    BY <2>4 DEF Ahead
<1>6. ASSUME n \in Ahead(next, n)
      PROVE  {m \in Ahead(next, n) : n \in Ahead(next, m)} = Mutual(next, n)
  <2>1. ASSUME NEW m \in N
        PROVE  m \in Ahead(next, n) /\ n \in Ahead(next, m) <=> m \in Mutual(next, n)
    <3>1. CASE m = n
      BY <1>2, <1>6, <3>1
    <3>2. CASE m # n
      BY <1>1, <3>2 DEF Mutual
    <3> QED
      BY <3>1, <3>2
  <2>2. Ahead(next, n) \subseteq N
    BY DEF Ahead
  <2> QED
    BY <1>2, <2>1, <2>2
<1> QED
  BY <1>4, <1>5, <1>6

(* The cycles of a finite graph without loops, as Tarjan's search finds    *)
(* them, are the sets of nodes that reach each other and themselves, all   *)
(* of them and nothing else (graph.py:178-208).                            *)
THEOREM CyclesFound ==
  ASSUME NEW N, IsFiniteSet(N), NEW arcs \in SUBSET (N \X N), \A a \in arcs : a[1] # a[2]
  PROVE  FoldSet(LAMBDA v, s : Restart(Visit(arcs, N), v, s), Unvisited(N), N).components
            = StronglyConnected(arcs, N)
<1> DEFINE next == [x \in N |-> Efferent(arcs, x)]
           reach == [n \in N |-> Reachable(arcs, N, n)]
           found == FoldSet(LAMBDA v, s : Restart(Visit(arcs, N), v, s), Unvisited(N), N).components
<1>1. next \in [N -> SUBSET N] /\ \A x \in N : x \notin next[x]
  BY DEF Efferent
<1>2. found = {m \in {Mutual(next, x) : x \in N} : Cardinality(m) > 1}
  BY SearchFinds
<1>3. \A n \in N : reach[n] = Ahead(next, n)
  BY ReachableIsAhead
<1> HIDE DEF next, reach, found
<1>4. \A n \in N : Ahead(next, n) \subseteq N
  BY <1>1 DEF Ahead
<1>5. \A n \in N : {m \in reach[n] : n \in reach[m]} = {m \in Ahead(next, n) : n \in Ahead(next, m)}
  BY <1>3, <1>4
<1>6. \A n \in N : n \in reach[n] <=> Cardinality(Mutual(next, n)) > 1
  BY <1>1, <1>3, MutualIsAhead
<1>7. \A n \in N : n \in reach[n] => {m \in reach[n] : n \in reach[m]} = Mutual(next, n)
  BY <1>1, <1>3, <1>5, MutualIsAhead
<1> DEFINE components == {{m \in reach[n] : n \in reach[m]} : n \in {n \in N : n \in reach[n]}}
<1>8. components = {Mutual(next, n) : n \in {n \in N : Cardinality(Mutual(next, n)) > 1}}
  BY <1>6, <1>7
<1> HIDE DEF components
<1>9. found = components
  BY <1>2, <1>8
<1> QED
  BY <1>9 DEF found, components, reach, StronglyConnected

-----------------------------------------------------------------------------
(* The build.                                                              *)

(* While the atlas is built its edges end at nodes and what is declared    *)
(* meets what is locked.  Until the manifests are read, those to come are  *)
(* of the configured projects, and a project declares nothing before its   *)
(* lock files are read.                                                    *)
BuildInv ==
    /\ tree \in DOMAIN Tree
    /\ pc \in {"manifests", "overlays", "assemble"} => Sound(c) /\ Honest(c)
    /\ pc = "manifests" =>
           /\ \A p \in Range(T.projects) : ProjectId(p) \in Nodes(c)
           /\ Listed(todo) /\ Sequenced(todo) /\ Range(todo) \subseteq Range(T.manifests)
           /\ \A m \in Range(todo) :
                  /\ m.project \in Range(T.projects)
                  /\ Early(m) => Undeclared(c, m.project)
BuildOk == BuildInv /\ DeclaredMeetsItsOwnLock

(* Before any command nothing is built.                                    *)
LEMMA BuildInit == Init => BuildOk
BY DEF Init, BuildOk, BuildInv, DeclaredMeetsItsOwnLock

(* The properties are about the tree at hand, the phase and the atlas.     *)
LEMMA SameTree ==
  ASSUME tree' = tree
  PROVE  T' = T
BY DEF T

(* The atlas that is there, or none.                                       *)
LEMMA AtlasStays == ASSUME DeclaredMeetsItsOwnLock, atlas' \in {atlas, None} PROVE DeclaredMeetsItsOwnLock'
BY DEF DeclaredMeetsItsOwnLock

(* A step to a phase in which no atlas is built.                           *)
LEMMA OtherPhases ==
  ASSUME BuildOk, tree' \in DOMAIN Tree, atlas' \in {atlas, None},
         pc' \notin {"manifests", "overlays", "assemble"}
  PROVE  BuildOk'
<1>1. DeclaredMeetsItsOwnLock'
  BY AtlasStays DEF BuildOk
<1> QED
  BY <1>1 DEF BuildOk, BuildInv

(* What is refused leaves nothing.                                         *)
LEMMA AbortIsOk == ASSUME BuildOk, Abort PROVE BuildOk'
<1>1. pc' = "aborted" /\ tree' \in DOMAIN Tree /\ atlas' = None
  BY DEF Abort, BuildOk, BuildInv
<1> QED
  BY <1>1, OtherPhases

(* A quiet step keeps the atlas sound and honest.                          *)
LEMMA QuietKeeps ==
  ASSUME NEW u, NEW d, Quiet(u, d), Honest(u) PROVE Sound(d) /\ Honest(d)
BY QuietIsEither DEF Quiet, Declaring

(* The config is loaded: the projects become nodes, the manifests are put  *)
(* in order.                                                               *)
LEMMA ConfigLoads == ASSUME BuildOk, LoadConfig PROVE BuildOk'
<1>1. CASE T.config # "ok" \/ ~Bounded
  BY <1>1, AbortIsOk DEF LoadConfig
<1>2. CASE ~(T.config # "ok" \/ ~Bounded)
  <2> DEFINE manifests == T.manifests
             projects == T.projects
             list == InOrderLaw!Fold(manifests, 0, 0, projects, <<>>, DOMAIN projects)
             d == ProjectLaw!Fold(0, 0, 0, projects, EmptyCollection, DOMAIN projects)
  <2>1. /\ pc' = "manifests" /\ tree' = tree /\ atlas' = atlas
        /\ todo' = ManifestsInOrder /\ c' = ProjectNodes
    BY <1>2 DEF LoadConfig, Continue
  <2>2. Listed(manifests) /\ Listed(projects) /\ IsInjective(projects)
    BY <1>2, TreeAssumption DEF BuildOk, BuildInv, T, Bounded
  <2>3. ManifestsInOrder = list
    BY DEF ManifestsInOrder, FoldLeft, MapThenFoldSet, InOrderLaw!Fold
  <2>4. ProjectNodes = d
    BY DEF ProjectNodes, FoldLeft, MapThenFoldSet, ProjectLaw!Fold
  <2>5. T'.projects = projects /\ T'.manifests = manifests
    BY <2>1, SameTree
  <2> HIDE DEF manifests, projects
  <2>6. Reading(list, manifests, projects, DOMAIN projects)
    BY <2>2, AllAreSequenced
  <2>7. Quiet(EmptyCollection, d) /\ \A k \in DOMAIN projects : ProjectId(projects[k]) \in Nodes(d)
    BY <2>2, EmptyIsHonest, ProjectsAreThere
  <2> HIDE DEF list, d
  <2>8. Sound(d) /\ Honest(d) /\ Declares(d) = {}
    BY <2>7, EmptyIsHonest, QuietKeeps DEF Quiet
  <2>9. /\ \A p \in Range(projects) : ProjectId(p) \in Nodes(d)
        /\ Listed(list) /\ Sequenced(list) /\ Range(list) \subseteq Range(manifests)
        /\ \A m \in Range(list) : m.project \in Range(projects) /\ Undeclared(d, m.project)
    BY <2>6, <2>7, <2>8 DEF Reading, Undeclared, Range
  <2>10. c' = d /\ todo' = list
    BY <2>1, <2>3, <2>4
  <2>11. BuildInv'
    BY <2>1, <2>5, <2>8, <2>9, <2>10 DEF BuildOk, BuildInv
  <2>12. DeclaredMeetsItsOwnLock'
    BY <2>1, AtlasStays DEF BuildOk
  <2> QED
    BY <2>1, <2>11, <2>12 DEF BuildOk
<1> QED
  BY <1>1, <1>2

(* A manifest is read: a lock file while its project declares nothing, or  *)
(* another once no lock file of its project is left.                       *)
LEMMA ManifestIsRead == ASSUME BuildOk, ReadManifest PROVE BuildOk'
<1> DEFINE m == Head(todo)
           filenames == T.files
           d == Adapted(c, m, filenames)
<1>1. pc = "manifests" /\ todo # <<>>
  BY DEF ReadManifest
<1>2. /\ tree \in DOMAIN Tree /\ Sound(c) /\ Honest(c)
      /\ \A p \in Range(T.projects) : ProjectId(p) \in Nodes(c)
      /\ Listed(todo) /\ Sequenced(todo) /\ Range(todo) \subseteq Range(T.manifests)
      /\ \A x \in Range(todo) : /\ x.project \in Range(T.projects)
                                /\ Early(x) => Undeclared(c, x.project)
  BY <1>1 DEF BuildOk, BuildInv
<1>3. /\ m \in Range(todo) /\ Listed(Tail(todo)) /\ Range(Tail(todo)) \subseteq Range(todo)
      /\ Sequenced(Tail(todo))
      /\ \A x \in Range(Tail(todo)) : Early(x) /\ x.project = m.project => Early(m)
  BY <1>1, <1>2, RestIsSequenced
<1>4. ManifestListed(m) /\ ProjectId(m.project) \in Nodes(c)
  BY <1>2, <1>3, TreeAssumption DEF T
<1>5. CASE Uncaught(m)
  BY <1>5, AbortIsOk DEF ReadManifest
<1>6. CASE ~Uncaught(m)
  <2>1. pc' = "manifests" /\ tree' = tree /\ atlas' = atlas /\ todo' = Tail(todo) /\ c' = d
    BY <1>6 DEF ReadManifest, Continue
  <2> HIDE DEF m, filenames
  <2>2. /\ Early(m) => Locking(c, d, m.project)
        /\ ~Early(m) => Declaring(c, d, m.project)
    BY <1>2, <1>4, AdaptedKeeps DEF Early
  <2> HIDE DEF d
  <2>3. Sound(d) /\ Honest(d) /\ Nodes(c) \subseteq Nodes(d)
    BY <1>2, <1>3, <2>2 DEF Locking, Declaring
  <2>4. ASSUME NEW x \in Range(Tail(todo)), Early(x) PROVE Undeclared(d, x.project)
    <3>1. Undeclared(c, x.project)
      BY <1>2, <1>3, <2>4
    <3>2. CASE Early(m)
      BY <2>2, <3>1, <3>2 DEF Locking, Undeclared
    <3>3. CASE ~Early(m)
      <4>1. x.project # m.project
        BY <1>3, <2>4, <3>3
      <4>2. ProjectId(x.project) # ProjectId(m.project)
        BY <4>1 DEF ProjectId
      <4> QED
        BY <2>2, <3>1, <3>3, <4>2 DEF Declaring, Undeclared
    <3> QED
      BY <3>2, <3>3
  <2>5. BuildInv'
    BY <1>2, <1>3, <2>1, <2>3, <2>4, SameTree DEF BuildInv
  <2>6. DeclaredMeetsItsOwnLock'
    BY <2>1, AtlasStays DEF BuildOk
  <2> QED
    BY <2>1, <2>5, <2>6 DEF BuildOk
<1> QED
  BY <1>5, <1>6

(* The sources are read.                                                   *)
LEMMA SourceIsCollected == ASSUME BuildOk, CollectSource PROVE BuildOk'
<1> DEFINE refused == \/ T.rootless \/ Nameless(Sourced.graph)
                      \/ TriesTheRoot(c, Records(NodeLanguages))
<1>1. CASE refused
  BY <1>1, AbortIsOk DEF CollectSource
<1>2. CASE ~refused
  <2>1. pc = "manifests" /\ pc' = "overlays" /\ tree' = tree /\ atlas' = atlas /\ c' = Sourced
    BY <1>2 DEF CollectSource, Continue
  <2>2. Quiet(c, Sourced) /\ Honest(c)
    BY <2>1, SourcedIsQuiet DEF BuildOk, BuildInv
  <2>3. Sound(c)' /\ Honest(c)'
    BY <2>1, <2>2, QuietKeeps
  <2>4. DeclaredMeetsItsOwnLock'
    BY <2>1, AtlasStays DEF BuildOk
  <2> QED
    BY <2>1, <2>3, <2>4 DEF BuildOk, BuildInv
<1> QED
  BY <1>1, <1>2

(* The overlays are read.                                                  *)
LEMMA OverlaysAreLaid == ASSUME BuildOk, ApplyOverlays PROVE BuildOk'
<1> DEFINE refused == \/ \E o \in Range(T.runtime) : RuntimeRefused(o)
                      \/ \E o \in Range(T.sbom) : o.state = "oversized"
                      \/ CodeownersRefused(T.codeowners)
<1>1. CASE refused
  BY <1>1, AbortIsOk DEF ApplyOverlays
<1>2. CASE ~refused
  <2>1. pc = "overlays" /\ pc' = "assemble" /\ tree' = tree /\ atlas' = atlas /\ c' = Overlaid
    BY <1>2 DEF ApplyOverlays, Continue
  <2>2. Quiet(c, Overlaid) /\ Honest(c)
    BY <2>1, OverlaidIsQuiet DEF BuildOk, BuildInv
  <2>3. Sound(c)' /\ Honest(c)'
    BY <2>1, <2>2, QuietKeeps
  <2>4. DeclaredMeetsItsOwnLock'
    BY <2>1, AtlasStays DEF BuildOk
  <2> QED
    BY <2>1, <2>3, <2>4 DEF BuildOk, BuildInv
<1> QED
  BY <1>1, <1>2

(* The atlas is what was collected, and the check of its edges passes.     *)
LEMMA AtlasIsAssembled == ASSUME BuildOk, Assemble PROVE BuildOk'
<1>1. pc = "assemble" /\ Sound(c) /\ Honest(c)
  BY DEF Assemble, BuildOk, BuildInv
<1>2. Integrity(c.graph)
  BY <1>1 DEF Sound
<1>3. /\ atlas' = Snapshot /\ tree' = tree /\ pc' \in {"unlink", "compare"}
  BY <1>2 DEF Assemble
<1>4. atlas'.graph = c.graph
  BY <1>3 DEF Snapshot
<1>5. DeclaredMeetsItsOwnLock'
  BY <1>1, <1>4 DEF DeclaredMeetsItsOwnLock, Honest, Meets, LockedBy, Declares, Locks, Edges
<1> QED
  BY <1>3, <1>5 DEF BuildOk, BuildInv

(* Every step of a command.                                                *)
LEMMA BuildNext == BuildOk /\ [Next]_vars => BuildOk'
<1> SUFFICES ASSUME BuildOk, [Next]_vars PROVE BuildOk'
  OBVIOUS
<1>1. CASE LoadConfig \/ ReadManifest \/ CollectSource \/ ApplyOverlays \/ Assemble
  BY <1>1, ConfigLoads, ManifestIsRead, SourceIsCollected, OverlaysAreLaid, AtlasIsAssembled
<1>2. ASSUME NEW name, Begin(name) PROVE BuildOk'
  BY <1>2, OtherPhases DEF Begin, BuildOk, BuildInv
<1>3. CASE Unlink \/ WriteFile \/ Finish \/ Crash \/ CheckAtlas
  <2>1. tree' = tree /\ atlas' \in {atlas, None} /\ pc' \in {"write", "written", "idle"}
    BY <1>3 DEF Unlink, WriteFile, Finish, Crash, CheckAtlas
  <2> QED
    BY <2>1, OtherPhases DEF BuildOk, BuildInv
<1>4. CASE Edit
  <2>1. tree' \in DOMAIN Tree /\ atlas' = atlas /\ pc' = "idle"
    BY <1>4, AtlasAssumption DEF Edit
  <2> QED
    BY <2>1, OtherPhases
<1>5. CASE UNCHANGED vars
  BY <1>5, SameTree DEF vars, BuildOk, BuildInv, DeclaredMeetsItsOwnLock
<1> QED
  BY <1>1, <1>2, <1>3, <1>4, <1>5 DEF Next

(* Whatever the manifests, sources and overlays of a tree say, and in      *)
(* whatever order they name each other, every edge that was collected ends *)
(* at nodes when the snapshot is built (runner.py:51): each resolver adds  *)
(* both ends before it draws an edge, and nothing takes a node away.  The  *)
(* check of model.py:184, which would refuse the atlas, never fails.       *)
THEOREM EdgesAreNeverDangling == Spec => []EdgesEndAtNodes
<1>1. BuildOk => EdgesEndAtNodes
  BY DEF BuildOk, BuildInv, EdgesEndAtNodes, Sound
<1> QED
  BY <1>1, BuildInit, BuildNext, PTL DEF Spec

(* What a project declares of an ecosystem without naming what it resolves *)
(* to is the package that its lock file holds, if that file holds any of   *)
(* that name (manifests.py:45): never the package another project locks,   *)
(* and whatever is read in between.                                        *)
THEOREM DeclaredMeetsLock == Spec => []DeclaredMeetsItsOwnLock
<1>1. BuildOk => DeclaredMeetsItsOwnLock
  BY DEF BuildOk
<1> QED
  BY <1>1, BuildInit, BuildNext, PTL DEF Spec

(* Both ends of finitely many edges are finitely many nodes.               *)
LEMMA MetricNodesAreFinite ==
  ASSUME NEW g, IsFiniteSet(DOMAIN g.edges), NEW by
  PROVE  /\ IsFiniteSet(MetricNodes(g, by))
         /\ Arcs(g, by) \in SUBSET (MetricNodes(g, by) \X MetricNodes(g, by))
         /\ \A a \in Arcs(g, by) : a[1] # a[2]
<1> DEFINE S == Selected(g)
           from == [k \in S |-> MetricNode(g, k.source, by)]
           to == [k \in S |-> MetricNode(g, k.target, by)]
<1>1. IsFiniteSet(S)
  BY FS_Subset DEF Selected
<1>2. \A f : f = [k \in S |-> f[k]] => IsFiniteSet({f[k] : k \in S})
  <2> SUFFICES ASSUME NEW f, f = [k \in S |-> f[k]] PROVE IsFiniteSet({f[k] : k \in S})
    OBVIOUS
  <2>1. f \in Surjection(S, {f[k] : k \in S})
    BY DEF Surjection
  <2> QED
    BY <1>1, <2>1, FS_Surjection
<1>3. IsFiniteSet({from[k] : k \in S}) /\ IsFiniteSet({to[k] : k \in S})
  BY <1>2
<1>4. MetricNodes(g, by) = {from[k] : k \in S} \cup {to[k] : k \in S}
  BY DEF MetricNodes
<1>5. Arcs(g, by) \in SUBSET (MetricNodes(g, by) \X MetricNodes(g, by))
  BY DEF Arcs, MetricNodes
<1>6. \A a \in Arcs(g, by) : a[1] # a[2]
  BY DEF Arcs
<1>7. IsFiniteSet({from[k] : k \in S} \cup {to[k] : k \in S})
  BY <1>3, FS_Union
<1> QED
  BY <1>4, <1>5, <1>6, <1>7

(* A step leaves the atlas as it is, drops it, or assembles one of         *)
(* finitely many edges.                                                    *)
LEMMA WhereAtlasIsFrom ==
  ASSUME BuildOk, [Next]_vars
  PROVE  \/ atlas' \in {atlas, None}
         \/ IsFiniteSet(DOMAIN c.graph.edges) /\ atlas' = Snapshot
<1>1. CASE LoadConfig \/ ReadManifest \/ CollectSource \/ ApplyOverlays
  BY <1>1 DEF LoadConfig, ReadManifest, CollectSource, ApplyOverlays, Abort, Continue
<1>2. CASE Assemble
  <2>1. Sound(c)
    BY <1>2 DEF Assemble, BuildOk, BuildInv
  <2> QED
    BY <1>2, <2>1 DEF Assemble, Sound, Edges
<1>3. ASSUME NEW name, Begin(name) PROVE atlas' \in {atlas, None}
  BY <1>3 DEF Begin
<1>4. CASE Unlink \/ WriteFile \/ Finish \/ Crash \/ CheckAtlas
  BY <1>4 DEF Unlink, WriteFile, Finish, Crash, CheckAtlas
<1>5. CASE Edit \/ UNCHANGED vars
  BY <1>5 DEF Edit, vars
<1> QED
  BY <1>1, <1>2, <1>3, <1>4, <1>5 DEF Next

(* The cycles that an atlas reports, between modules as between groups,    *)
(* are the strongly connected components of more than one node             *)
(* (graph.py:178-208): Tarjan's search finds each of them, whole, whatever *)
(* the sources of a tree import and in whatever order it goes through the  *)
(* nodes and their edges.                                                  *)
THEOREM CyclesOfEveryTree == Spec => []CyclesAreComponents
<1>1. ASSUME NEW g, IsFiniteSet(DOMAIN g.edges), NEW by
      PROVE  Cycles(g, by) = StronglyConnected(Arcs(g, by), MetricNodes(g, by))
  <2> DEFINE N == MetricNodes(g, by)
             arcs == Arcs(g, by)
  <2>1. IsFiniteSet(N) /\ arcs \in SUBSET (N \X N) /\ \A a \in arcs : a[1] # a[2]
    BY <1>1, MetricNodesAreFinite
  <2>2. Cycles(g, by) =
          FoldSet(LAMBDA v, s : Restart(Visit(arcs, N), v, s), Unvisited(N), N).components
    BY DEF Cycles
  <2> HIDE DEF N, arcs
  <2>3. FoldSet(LAMBDA v, s : Restart(Visit(arcs, N), v, s), Unvisited(N), N).components
            = StronglyConnected(arcs, N)
    BY ONLY <2>1, CyclesFound
  <2> QED
    BY <2>2, <2>3 DEF N, arcs
<1>2. ASSUME BuildOk, CyclesAreComponents, [Next]_vars PROVE CyclesAreComponents'
  <2>1. CASE atlas' \in {atlas, None}
    BY <1>2, <2>1 DEF CyclesAreComponents
  <2>2. CASE IsFiniteSet(DOMAIN c.graph.edges) /\ atlas' = Snapshot
    <3>1. /\ atlas'.graph = c.graph
          /\ \A by \in Granularity : atlas'.cycles[by] = Cycles(c.graph, by)
      BY <2>2 DEF Snapshot
    <3>2. \A by \in Granularity :
             Cycles(c.graph, by) = StronglyConnected(Arcs(c.graph, by), MetricNodes(c.graph, by))
      BY <1>1, <2>2
    <3> QED
      BY <3>1, <3>2 DEF CyclesAreComponents
  <2> QED
    BY <1>2, <2>1, <2>2, WhereAtlasIsFrom
<1>3. Init => CyclesAreComponents
  BY DEF Init, CyclesAreComponents
<1> QED
  BY <1>2, <1>3, BuildInit, BuildNext, PTL DEF Spec
=============================================================================
