---------------------------- MODULE MCAutopilot ----------------------------
(* One anchor: there the engine's own rule refutes the claim, and without  *)
(* it the target has nothing to ask about.  Replies that are read alike    *)
(* stand for each other.                                                   *)
EXTENDS Autopilot

Anchors == {"m"}
Claims == {"c"}
Workload == [s \in SUBSET Anchors |->
                 IF s = {} THEN {} ELSE Range(Worklist)]

List(anchors) == [is |-> "list", of |-> anchors]
Answers ==
    [c \in Call |->
        {Silence} \cup
        CASE c = "discover-gaps" ->
                {Prose, [is |-> "scalar", of |-> {}], List(Anchors)}
          [] c = "draft-runbooks" -> {List({}), List(Anchors)}
          [] c = "confirm-challenge" -> {[is |-> "contradicted", of |-> {}]}
          [] OTHER -> {Prose, [is |-> "dispute", of |-> Anchors]}]
=============================================================================
