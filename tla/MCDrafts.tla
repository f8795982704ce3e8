----------------------------- MODULE MCDrafts -----------------------------
(* Two versions of the target and five states of the proposals files.      *)
EXTENDS Drafts

AlertNames == {"orders-burn-rate", "orders-publish-failures"}
Covered == {"orders-publish-failures"}
Anchors == {"failing", "chatty", "contract", "gone"}
Paths == {"Orders.java", "api.yaml", "jobs.cron"}
Messages == {"publish failed", "polling"}
Patterns == {"saga", "circuit-breaker"}
Apps == {"orders"}

Line(path, logs) == [path |-> path, java |-> path = "Orders.java",
                     spec |-> path = "api.yaml", logs |-> logs]
Log(level, message) == [level |-> level, message |-> message]

Now == [alerts |-> AlertNames, patterns |-> {"circuit-breaker"},
        facts |-> {"Orders.java"}, gapFacts |-> {"api.yaml"},
        apps |-> {[app |-> "orders", holds |-> {}],
                  [app |-> "orders", holds |-> {"single-instance"}]},
        changed |-> {"GET /orders"},
        at |-> [a \in Anchors \ {"gone"} |->
            CASE a = "failing" -> Line("Orders.java", <<Log("error", "publish failed")>>)
              [] a = "chatty" -> 
                Line("Orders.java", <<Log("info", "polling"),
                                      Log("warn", "publish failed")>>)
              [] OTHER -> Line("api.yaml", <<>>)]]
Later == [Now EXCEPT !.alerts = Covered, !.gapFacts = {},
                     !.patterns = Patterns, !.apps = {}, !.changed = {},
                     !.at = [a \in {"chatty", "contract"} |->
                                IF a = "chatty" THEN Line("jobs.cron", <<>>)
                                                ELSE @[a]]]
Codes == {Now, Later}

None == [is |-> "absent", of |-> <<>>]
List(items) == [is |-> "list", of |-> items]
Full == [e \in Exchange |-> List(
    CASE e = "alerts" -> <<[anchor |-> "gone"], [anchor |-> "chatty"],
                           [anchor |-> "failing"]>>
      [] e = "runbooks" -> <<[alert |-> "orders-publish-failures"],
                             [alert |-> "orders-burn-rate"],
                             [alert |-> "orders-burn-rate"]>>
      [] e = "architecture" -> <<[pattern |-> "circuit-breaker",
                                  anchor |-> "failing"],
                                 [pattern |-> "saga", anchor |-> "contract"]>>
      [] e = "contract" -> <<[anchor |-> "contract", operation |-> "GET /orders"],
                             [anchor |-> "contract", operation |-> "POST /orders"],
                             [anchor |-> "chatty", operation |-> "POST /orders"]>>
      [] e = "pcf" -> <<[check |-> "single-instance", app |-> "orders"],
                        [check |-> "missing-disk-quota", app |-> "orders"]>>
      [] e = "areas" -> <<[anchor |-> "contract", files |-> {}],
                          [anchor |-> "contract", files |-> {"Orders.java"}],
                          [anchor |-> "chatty", files |-> {"jobs.cron"}]>>
      [] OTHER -> <<[diagram |-> "service", text |-> TRUE],
                    [diagram |-> "proposed-patterns", text |-> TRUE],
                    [diagram |-> "elsewhere", text |-> TRUE],
                    [diagram |-> "service", text |-> FALSE]>>)]
Sparse == [e \in Exchange |-> IF e \in {"contract", "pcf", "narrations"}
                              THEN [is |-> "garbage", of |-> <<>>] ELSE None]
Broken == [e \in Exchange |->
    IF e \in {"contract", "pcf", "narrations", "areas"}
    THEN [is |-> "scalar", of |-> <<>>] ELSE Full[e]]
FileSets == {Full, Sparse, Broken}
    \cup {[Full EXCEPT ![e] = None] : e \in {"areas", "narrations"}}
=============================================================================
