------------------------------ MODULE FoldLaws ------------------------------
(***************************************************************************)
(* Induction over the folds of the community modules, for any operator     *)
(* that is folded and any property that its steps keep.  A module that     *)
(* reasons about a fold instantiates this one with the fold's operator and *)
(* the property, and cites the instances of the theorems.                  *)
(*                                                                         *)
(* The operator folds the elements of a set, each taken by Pick from what  *)
(* is left; p, q and r are the values its definition refers to, s is what  *)
(* the set indexes, if it does.  Inv may speak of the base and of the      *)
(* elements folded.  The set is one of whose parts no endless descent is   *)
(* made; this module extends no other, for its instances to stay small.    *)
(***************************************************************************)
CONSTANTS Op(_, _, _, _, _, _), Pick(_), Inv(_, _, _, _, _, _, _)

(* MapThenFoldSet chooses a function that solves this recursion, and takes *)
(* its value at the whole set.                                             *)
Unfolded(p, q, r, s, base, S, f) ==
    [t \in SUBSET S |->
        IF t = {} THEN base
        ELSE LET x == Pick(t) IN Op(p, q, r, s, x, f[t \ {x}])]
Fold(p, q, r, s, base, S) ==
    LET iter[t \in SUBSET S] ==
            IF t = {} THEN base
            ELSE LET x == Pick(t) IN Op(p, q, r, s, x, iter[t \ {x}])
    IN  iter[S]

(* The recursion has a solution.                                           *)
LEMMA FoldExists ==
  ASSUME NEW p, NEW q, NEW r, NEW s, NEW base, NEW S,
         \A B \in SUBSET SUBSET S : B # {} => \E t \in B : \A w \in B : w \subseteq t => w = t,
         \A t \in SUBSET S : t # {} => Pick(t) \in t
  PROVE  \E f : f = Unfolded(p, q, r, s, base, S, f)
<1> DEFINE Rest(t) == t \ {Pick(t)}
           Step(h, t) == IF t = {} THEN base ELSE Op(p, q, r, s, Pick(t), h[Rest(t)])
           Computes(h, t) ==
               /\ t \in DOMAIN h /\ DOMAIN h \subseteq SUBSET S
               /\ \A w \in DOMAIN h : w # {} => Rest(w) \in DOMAIN h
               /\ \A w \in DOMAIN h : h[w] = Step(h, w)
<1>1. \A t \in SUBSET S : t # {} => Rest(t) \in SUBSET S /\ Rest(t) \subseteq t /\ Rest(t) # t
  OBVIOUS
<1> HIDE DEF Rest
<1>2. \A t \in SUBSET S : \E h : Computes(h, t)
  <2> DEFINE Bad == {t \in SUBSET S : ~ \E h : Computes(h, t)}
  <2> SUFFICES ASSUME Bad # {} PROVE FALSE
    OBVIOUS
  <2>1. PICK t \in Bad : \A w \in Bad : w \subseteq t => w = t
    <3>1. Bad \in SUBSET SUBSET S
      OBVIOUS
    <3> HIDE DEF Bad
    <3> QED
      BY <3>1
  <2>2. t # {}
    <3> DEFINE h == [w \in {{}} |-> base]
    <3>1. Computes(h, {})
      OBVIOUS
    <3> QED
      BY <2>1, <3>1
  <2>3. PICK h : Computes(h, Rest(t))
    <3>1. Rest(t) \in SUBSET S /\ Rest(t) \notin Bad
      BY <1>1, <2>1, <2>2
    <3> HIDE DEF Computes
    <3> QED
      BY <3>1
  <2>4. CASE t \in DOMAIN h
    BY <2>1, <2>3, <2>4
  <2>5. CASE t \notin DOMAIN h
    <3> DEFINE g == [w \in DOMAIN h \cup {t} |->
                        IF w = t THEN Op(p, q, r, s, Pick(t), h[Rest(t)]) ELSE h[w]]
    <3>1. \A w \in DOMAIN h : g[w] = h[w] /\ (w # {} => Rest(w) \in DOMAIN h /\ g[Rest(w)] = h[Rest(w)])
      BY <2>3, <2>5
    <3>2. \A w \in DOMAIN h : g[w] = Step(g, w)
      BY <2>3, <3>1
    <3>3. g[t] = Step(g, t)
      BY <2>2, <2>3, <3>1
    <3>4. /\ t \in DOMAIN g /\ DOMAIN g \subseteq SUBSET S
          /\ \A w \in DOMAIN g : w # {} => Rest(w) \in DOMAIN g
      BY <2>1, <2>3
    <3>5. Computes(g, t)
      <4>1. \A w \in DOMAIN g : w \in DOMAIN h \/ w = t
        OBVIOUS
      <4> HIDE DEF g, Step
      <4> QED
        BY <3>2, <3>3, <3>4, <4>1
    <3> HIDE DEF Computes, g
    <3> QED
      BY <2>1, <3>5
  <2> QED
    BY <2>4, <2>5
<1>3. ASSUME NEW t \in SUBSET S, NEW w \in SUBSET S, NEW h, NEW g, Computes(h, t), Computes(g, w)
      PROVE  \A x \in DOMAIN h \cap DOMAIN g : h[x] = g[x]
  <2> DEFINE Bad == {x \in DOMAIN h \cap DOMAIN g : h[x] # g[x]}
  <2> SUFFICES ASSUME Bad # {} PROVE FALSE
    OBVIOUS
  <2>1. Bad \in SUBSET SUBSET S
    BY <1>3
  <2>2. PICK x \in Bad : \A y \in Bad : y \subseteq x => y = x
    BY <2>1
  <2>3. x # {}
    BY <1>3, <2>2
  <2>4. Rest(x) \in DOMAIN h \cap DOMAIN g /\ h[Rest(x)] = g[Rest(x)]
    BY <1>1, <1>3, <2>1, <2>2, <2>3
  <2> QED
    BY <1>3, <2>2, <2>3, <2>4
<1> HIDE DEF Computes
<1> DEFINE H(t) == CHOOSE h : Computes(h, t)
           f == [t \in SUBSET S |-> H(t)[t]]
<1>4. \A t \in SUBSET S : Computes(H(t), t)
  BY <1>2
<1> HIDE DEF H
<1>5. \A t \in SUBSET S : f[t] = Step(f, t)
  <2> SUFFICES ASSUME NEW t \in SUBSET S PROVE f[t] = Step(f, t)
    OBVIOUS
  <2>1. H(t)[t] = Step(H(t), t) /\ t \in DOMAIN H(t) /\ (t # {} => Rest(t) \in DOMAIN H(t))
    BY <1>4 DEF Computes
  <2>2. CASE t = {}
    BY <2>1, <2>2
  <2>3. CASE t # {}
    <3>1. Rest(t) \in SUBSET S /\ Rest(t) \in DOMAIN H(Rest(t))
      BY <1>1, <1>4, <2>3 DEF Computes
    <3>2. H(t)[Rest(t)] = H(Rest(t))[Rest(t)]
      BY <1>3, <1>4, <2>1, <2>3, <3>1
    <3> QED
      BY <2>1, <2>3, <3>1, <3>2
  <2> QED
    BY <2>2, <2>3
<1>6. f = [t \in SUBSET S |-> Step(f, t)]
  <2> HIDE DEF Step
  <2> QED
    BY <1>5
<1> HIDE DEF f
<1> QED
  BY <1>6 DEF Rest, Unfolded

(* A property that holds of the base and that every element keeps holds of *)
(* the fold.                                                               *)
THEOREM FoldKeeps ==
  ASSUME NEW p, NEW q, NEW r, NEW s, NEW base, NEW S,
         \A B \in SUBSET SUBSET S : B # {} => \E t \in B : \A w \in B : w \subseteq t => w = t,
         \A t \in SUBSET S : t # {} => Pick(t) \in t,
         Inv(p, q, r, s, base, {}, base),
         \A x \in S : \A t \in SUBSET S : \A v :
             x \notin t /\ Inv(p, q, r, s, base, t, v) =>
                 Inv(p, q, r, s, base, t \cup {x}, Op(p, q, r, s, x, v))
  PROVE  Inv(p, q, r, s, base, S, Fold(p, q, r, s, base, S))
<1> DEFINE iter == CHOOSE f : f = Unfolded(p, q, r, s, base, S, f)
           Bad == {t \in SUBSET S : ~Inv(p, q, r, s, base, t, iter[t])}
<1>1. iter = Unfolded(p, q, r, s, base, S, iter)
  BY FoldExists
<1>2. Fold(p, q, r, s, base, S) = iter[S]
  BY DEF Fold, Unfolded
<1> HIDE DEF iter
<1>3. \A t \in SUBSET S :
          iter[t] = IF t = {} THEN base ELSE Op(p, q, r, s, Pick(t), iter[t \ {Pick(t)}])
  BY <1>1 DEF Unfolded
<1>4. Bad = {}
  <2> SUFFICES ASSUME Bad # {} PROVE FALSE
    OBVIOUS
  <2>1. PICK t \in Bad : \A w \in Bad : w \subseteq t => w = t
    <3>1. Bad \in SUBSET SUBSET S
      OBVIOUS
    <3> HIDE DEF Bad
    <3> QED
      BY <3>1
  <2>2. t # {}
    BY <1>3, <2>1
  <2>3. Pick(t) \in t /\ t \ {Pick(t)} \in SUBSET S /\ t \ {Pick(t)} \notin Bad
    BY <2>1, <2>2
  <2>4. Inv(p, q, r, s, base, t \ {Pick(t)}, iter[t \ {Pick(t)}])
    BY <2>3
  <2>5. Inv(p, q, r, s, base, (t \ {Pick(t)}) \cup {Pick(t)},
            Op(p, q, r, s, Pick(t), iter[t \ {Pick(t)}]))
    BY <2>1, <2>3, <2>4
  <2>6. (t \ {Pick(t)}) \cup {Pick(t)} = t
    BY <2>3
  <2>7. Inv(p, q, r, s, base, t, iter[t])
    BY <1>3, <2>1, <2>2, <2>5, <2>6
  <2> QED
    BY <2>1, <2>7
<1>5. Inv(p, q, r, s, base, S, iter[S])
  BY <1>4
<1> QED
  BY <1>2, <1>5

(* Of any parts of S there is one that contains no other of them.          *)
Descends(S) ==
    \A B \in SUBSET SUBSET S : B # {} => \E t \in B : \A w \in B : w \subseteq t => w = t

(* Two values of a parameter that the steps cannot tell apart, as long as  *)
(* the property holds, fold to the same.                                   *)
THEOREM FoldAgrees ==
  ASSUME NEW p, NEW o, NEW q, NEW r, NEW s, NEW base, NEW S,
         Descends(S),
         \A t \in SUBSET S : t # {} => Pick(t) \in t,
         Inv(p, q, r, s, base, {}, base),
         \A x \in S : \A t \in SUBSET S : \A v :
             x \notin t /\ Inv(p, q, r, s, base, t, v) =>
                 Inv(p, q, r, s, base, t \cup {x}, Op(p, q, r, s, x, v)),
         \A x \in S : \A t \in SUBSET S : \A v :
             Inv(p, q, r, s, base, t, v) => Op(o, q, r, s, x, v) = Op(p, q, r, s, x, v)
  PROVE  Fold(o, q, r, s, base, S) = Fold(p, q, r, s, base, S)
<1> DEFINE iter == CHOOSE f : f = Unfolded(p, q, r, s, base, S, f)
           also == CHOOSE f : f = Unfolded(o, q, r, s, base, S, f)
           Bad == {t \in SUBSET S : ~(Inv(p, q, r, s, base, t, iter[t]) /\ also[t] = iter[t])}
<1>1. iter = Unfolded(p, q, r, s, base, S, iter)
  BY FoldExists DEF Descends
<1>2. also = Unfolded(o, q, r, s, base, S, also)
  BY FoldExists DEF Descends
<1>3. /\ Fold(p, q, r, s, base, S) = iter[S]
      /\ Fold(o, q, r, s, base, S) = also[S]
  BY DEF Fold, Unfolded
<1> HIDE DEF iter, also
<1>4. \A t \in SUBSET S :
          iter[t] = IF t = {} THEN base ELSE Op(p, q, r, s, Pick(t), iter[t \ {Pick(t)}])
  BY <1>1 DEF Unfolded
<1>5. \A t \in SUBSET S :
          also[t] = IF t = {} THEN base ELSE Op(o, q, r, s, Pick(t), also[t \ {Pick(t)}])
  BY <1>2 DEF Unfolded
<1>6. Bad = {}
  <2> SUFFICES ASSUME Bad # {} PROVE FALSE
    OBVIOUS
  <2>1. PICK t \in Bad : \A w \in Bad : w \subseteq t => w = t
    <3>1. Bad \in SUBSET SUBSET S
      OBVIOUS
    <3> HIDE DEF Bad
    <3> QED
      BY <3>1 DEF Descends
  <2>2. t # {}
    BY <1>4, <1>5, <2>1
  <2> DEFINE x == Pick(t)
             w == t \ {x}
  <2>3. x \in t /\ x \in S /\ x \notin w /\ w \in SUBSET S /\ w \notin Bad /\ w \cup {x} = t
    BY <2>1, <2>2
  <2>4. Inv(p, q, r, s, base, w, iter[w]) /\ also[w] = iter[w]
    BY <2>3
  <2>5. iter[t] = Op(p, q, r, s, x, iter[w]) /\ also[t] = Op(o, q, r, s, x, also[w])
    BY <1>4, <1>5, <2>1, <2>2
  <2> HIDE DEF x, w
  <2>6. /\ Inv(p, q, r, s, base, w \cup {x}, Op(p, q, r, s, x, iter[w]))
        /\ Op(o, q, r, s, x, iter[w]) = Op(p, q, r, s, x, iter[w])
    BY <2>3, <2>4
  <2>7. Inv(p, q, r, s, base, t, iter[t]) /\ also[t] = iter[t]
    <3>1. Inv(p, q, r, s, base, t, Op(p, q, r, s, x, iter[w]))
      BY <2>3, <2>6
    <3> QED
      BY <2>4, <2>5, <2>6, <3>1
  <2> QED
    BY <2>1, <2>7
<1> QED
  BY <1>3, <1>6
=============================================================================
