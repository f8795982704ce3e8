----------------------------- MODULE MCCrossref -----------------------------
(* Three artifacts and one the run lacks.  An artifact states at most two  *)
(* refs, trusting or not; every graph of that kind is an initial state.    *)
EXTENDS Crossref, FiniteSets, Naturals

MCKey == {"Flow/a", "Flow/b", "Pattern/c"}
MCTarget == MCKey \cup {"Fallback/missing", "-"}
MCRelation == {"depends-on", "alerts-on"}

MaxRefs == 2
FewRefs(Refs) == {R \in SUBSET Refs : Cardinality(R) <= MaxRefs}

Trusting == [relation : {"depends-on"}, to : MCTarget \ {"-"}]
Every == [relation : MCRelation, to : MCTarget]

(* Back-links and blank names are ignored ref by ref, so it is enough that *)
(* one artifact states them.                                               *)
MCGraph == {g \in [MCKey -> FewRefs(Every)] :
                \A k \in MCKey \ {"Flow/a"} : g[k] \subseteq Trusting}
=============================================================================
