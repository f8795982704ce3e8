---------------------------- MODULE MCGapFinder ----------------------------
(* Every file of up to three of these items, against two targets.          *)
EXTENDS GapFinder

Names == {"main", "orders"}
Anchors == {"call", "loop", "setting", "made up"}

Blank == [universe |-> "source", stem |-> "main", typed |-> TRUE,
          call |-> FALSE, swallow |-> FALSE, fires |-> {}, instance |-> {}]
BareCall == [Blank EXCEPT !.call = TRUE]
GuardedCall == [BareCall EXCEPT !.fires = {"timeout"}]
Loop == [Blank EXCEPT !.swallow = TRUE, !.fires = {"backpressure"}]
Script == [Blank EXCEPT !.universe = "script", !.typed = FALSE]
Setting == [Blank EXCEPT !.universe = "config", !.typed = FALSE]

Code(calls) == [a \in Anchors |->
    CASE a = "call" -> calls [] a = "loop" -> <<Script, Loop>>
      [] a = "setting" -> <<Setting>> [] OTHER -> <<>>]

BareScan ==
    [code |-> Code(<<BareCall, GuardedCall>>), config |-> {}, proven |-> {},
     deadLetter |-> {}, patterns |-> {},
     gaps |-> {[target |-> "orders", category |-> "missing-idempotency"]}]
GuardedScan ==
    [BareScan EXCEPT
        !.code = Code(<<BareCall>>),
        !.config = {[names |-> {"orders"}, fires |-> {"timeout"}]},
        !.proven = {"missing-structured-logging"},
        !.deadLetter = {"orders"}, !.patterns = {"orders"},
        !.gaps = @ \cup {[target |-> "orders",
                          category |-> "consumer-without-dlq"]}]
Scans == {BareScan, GuardedScan}

Item(category, anchor, target, severity, novel) ==
    [is |-> "proposal", category |-> category, anchor |-> anchor,
     target |-> target, severity |-> severity, novel |-> novel]
Items ==
    {Item("missing-timeout", "call", "orders", "critical", FALSE),
     Item("missing-timeout", "call", "none", "low", TRUE),
     Item("swallowed-failure", "loop", "none", "low", FALSE),
     Item("missing-backpressure", "loop", "main", "unheard-of", FALSE),
     Item("missing-idempotency", "loop", "orders", "medium", FALSE),
     Item("missing-log-context", "setting", "none", "high", FALSE),
     Item("missing-poison-pill-handling", "setting", "orders", "low", FALSE),
     Item("disabled-resilience", "call", "orders", "high", TRUE),
     Item("stale-feature-flag", "setting", "none", "high", TRUE),
     Item("consumer-without-dlq", "loop", "orders", "low", TRUE),
     Item("mising-timeout", "call", "orders", "high", FALSE),
     Item("Not A Slug", "call", "none", "high", TRUE),
     Item("missing-timeout", "made up", "orders", "high", FALSE),
     Item("missing-timeout", "", "orders", "high", FALSE),
     [is |-> "other"]}
Files == UNION {[1..n -> Items] : n \in 0..3}
=============================================================================
