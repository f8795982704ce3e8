------------------------------ MODULE Crossref ------------------------------
(***************************************************************************)
(* status_aware_downgrades: the loop that takes a verified artifact down   *)
(* when something it depends on or implements is not verified, until a     *)
(* whole pass changes nothing.  A pass walks a snapshot of the verified    *)
(* set, in the order a Python set is listed, which is no order at all.     *)
(***************************************************************************)
EXTENDS Foundations

CONSTANTS Key, Relation, Target, Graph   \* see CrossrefSpec

VARIABLES crossRefs,   \* crossrefs_by_key
          claimed,     \* keys whose status_by_key is "verified"
          verified,    \* the set the loop shrinks
          snapshot,    \* what is left of list(verified) in this pass
          changed,     \* this pass discarded something
          reasons,     \* keys of the reasons returned
          loop         \* "while", "for" or "done"

loopVars == <<crossRefs, claimed, verified, snapshot, changed, reasons, loop>>

Spine == INSTANCE CrossrefSpec
         WITH kept <- IF loop = "done" THEN verified ELSE claimed

Ref == Spine!Ref
RestsOn(refs) == Spine!RestsOn(refs)
Rests(refs) == Spine!Rests(refs)

ASSUME GraphAssumption == Graph \subseteq [Key -> SUBSET Ref]

LoopTypeOK ==
    /\ crossRefs \in [Key -> SUBSET Ref]
    /\ claimed \in SUBSET Key
    /\ verified \in SUBSET Key
    /\ snapshot \in SUBSET Key
    /\ changed \in BOOLEAN
    /\ reasons \in SUBSET Key
    /\ loop \in {"while", "for", "done"}

LoopInit ==
    /\ crossRefs \in Graph
    /\ claimed \in SUBSET Key
    /\ verified = claimed
    /\ snapshot = {}
    /\ changed = TRUE
    /\ reasons = {}
    /\ loop = "while"

(* Mutant of StartPass: changed is not reset.                              *)
StartPassChanged ==
    /\ loop = "while" /\ changed
    /\ snapshot' = verified
    /\ loop' = "for"
    /\ UNCHANGED <<crossRefs, claimed, verified, changed, reasons>>

(* while changed: changed = False; for k in list(verified)                 *)
StartPass ==
    /\ loop = "while" /\ changed
    /\ changed' = FALSE
    /\ snapshot' = verified
    /\ loop' = "for"
    /\ UNCHANGED <<crossRefs, claimed, verified, reasons>>

(* The loop moves on to the next key, which it keeps or discards.          *)
Step(k) ==
    /\ loop = "for" /\ k \in snapshot
    /\ snapshot' = snapshot \ {k}
    /\ UNCHANGED <<crossRefs, claimed, loop>>
Discard(k, reason) ==
    /\ verified' = verified \ {k}
    /\ reasons' = reasons \cup reason
    /\ changed' = TRUE
Keep == UNCHANGED <<verified, reasons, changed>>

(* Mutants of Visit: the test looks at pass 1; any relation counts.        *)
VisitTrustsPassOne(k) ==
    /\ Step(k)
    /\ IF RestsOn(crossRefs[k]) \subseteq claimed THEN Keep
       ELSE Discard(k, {k})
VisitAnyRelation(k) ==
    /\ Step(k)
    /\ IF {ref.to : ref \in crossRefs[k]} \subseteq verified THEN Keep
       ELSE Discard(k, {k})
(* One key of the snapshot: the first ref found to be unverified discards  *)
(* it.  Its own discard is the only one that could remove it, so a key of  *)
(* the snapshot is still in verified when the loop reaches it.             *)
Visit(k) ==
    /\ Step(k)
    /\ IF RestsOn(crossRefs[k]) \subseteq verified THEN Keep
       ELSE Discard(k, {k})

EndPass ==
    /\ loop = "for" /\ snapshot = {}
    /\ loop' = "while"
    /\ UNCHANGED <<crossRefs, claimed, verified, snapshot, changed, reasons>>

(* Mutant of Return: one pass is enough.                                   *)
ReturnEarly ==
    /\ loop = "while"
    /\ loop' = "done"
    /\ UNCHANGED <<crossRefs, claimed, verified, snapshot, changed, reasons>>

Return ==
    /\ loop = "while" /\ ~changed
    /\ loop' = "done"
    /\ UNCHANGED <<crossRefs, claimed, verified, snapshot, changed, reasons>>

LoopNext ==
    \/ StartPass
    \/ \E k \in Key : Visit(k)
    \/ EndPass
    \/ Return

LoopSpec == LoopInit /\ [][LoopNext]_loopVars

(* The loop is sequential code: it runs as long as it can.                 *)
LoopFairSpec == LoopSpec /\ WF_loopVars(LoopNext)

-----------------------------------------------------------------------------
(* When the loop returns, no verified artifact rests on one that is not    *)
(* verified or that the run does not have: "a verified graph never rests   *)
(* on unverified foundations" (crossref.py:33).  A downgrade reaches       *)
(* everything that depends on it, however long the chain and wherever the  *)
(* snapshot put its links.                                                 *)
NoUnverifiedFoundation ==
    loop = "done" =>
        \A k \in verified : RestsOn(crossRefs[k]) \subseteq verified

(* The loop takes down no artifact it need not: whatever rests on nothing  *)
(* outside the verified set it came with is still verified when it         *)
(* returns, cycles included, and in whatever order keys were visited.      *)
NothingDowngradedInVain ==
    \A T \in SUBSET claimed : Closed(T, Rests(crossRefs)) => T \subseteq verified

(* Every downgrade has its reason in the result, and only a downgrade has  *)
(* one: pass 3 downgrades by looking a key up in reasons.                  *)
ReasonsMatch == reasons = claimed \ verified

(* The loop is the one atomic choice of CrossrefSpec.                      *)
ImplementsSpine == Spine!Spec

(* It comes to an end: each pass but the last takes an artifact down.      *)
Terminates == <>(loop = "done")
=============================================================================
