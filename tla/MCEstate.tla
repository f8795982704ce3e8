------------------------------ MODULE MCEstate ------------------------------
(* Pairs of services with every client of a list, repositories of one name *)
(* that share resources, libraries and a contract, and a chain of six.     *)
EXTENDS Estate

Names == {"orders", "Orders", "billing", "gateway", "team-b-orders", "stripe",
          "pg", "pg_", "queue", "lib", "s1", "s2", "s3", "s4", "s5", "s6"}
Slugs == [n \in Names |-> CASE n = "Orders" -> "orders" [] n = "pg_" -> "pg"
                            [] OTHER -> n]
Chain == <<"s1", "s2", "s3", "s4", "s5", "s6">>
Hosts == {"orders.apps", "billing.apps", "orders.alias", "billing.alias",
          "10.0.3.7", "api.stripe"} \cup {s : s \in {"s1", "s2", "s3", "s4", "s5"}}
Labels == [h \in Hosts |->
    CASE h = "billing.apps" -> "billing" [] h = "billing.alias" -> "billing"
      [] h \in {"10.0.3.7", "api.stripe"} -> "stripe"
      [] h \in {"orders.apps", "orders.alias"} -> "orders" [] OTHER -> h]
IPs == {"10.0.3.7"}
Types == [n \in Names |-> CASE n \in {"pg", "pg_"} -> "datastore"
                            [] n = "queue" -> "broker" [] OTHER -> "resource"]

Repo(name) ==
    [app |-> name, dir |-> name, qualified |-> name, routes |-> {},
     bindings |-> {}, clients |-> {}, publishes |-> {}, consumes |-> {},
     libs |-> <<>>, flows |-> {}, frontend |-> FALSE, spec |-> FALSE,
     space |-> "none", breaking |-> {}, egress |-> {}]
Client(k, h) == [key |-> k, host |-> h]

Orders == [Repo("orders") EXCEPT !.routes = {"orders.apps"}, !.spec = TRUE,
              !.bindings = {"pg"}, !.breaking = {<<"orders", "{}">>},
              !.publishes = {"queue"}, !.libs = "lib" :> "1"]

(* Every client a caller may declare, alone.                               *)
Pairs == {[r \in {"o", "b"} |->
              IF r = "o" THEN Orders
              ELSE [Repo("billing") EXCEPT !.routes = {"billing.apps"},
                        !.clients = {Client(k, h)}, !.frontend = TRUE,
                        !.bindings = {"pg", "queue"}, !.space = "s1",
                        !.consumes = {"stripe"}]] :
              k \in {"orders", "Orders", "billing", "stripe"},
              h \in {"orders.apps", "billing.apps", "orders.alias",
                     "billing.alias", "10.0.3.7", "api.stripe", "nohost"}}

(* Three teams, two of them with a service of one name.                    *)
Teams(twin, shared) ==
    [r \in {"a", "b", "g"} |->
        CASE r = "a" -> Orders
          [] r = "b" -> [Repo(twin) EXCEPT
                !.app = "none", !.dir = twin, !.qualified = "team-b-orders",
                !.bindings = {shared}, !.libs = "lib" :> "2",
                !.flows = {[name |-> "s1", sinks |->
                    {[target |-> "stripe", type |-> "db"]}]}]
          [] OTHER -> [Repo("gateway") EXCEPT
                !.clients = {Client("stripe", "orders.apps")},
                !.bindings = {shared}, !.libs = "lib" :> "none",
                !.egress = {[host |-> "nohost", segs |-> <<"orders">>, open |-> TRUE]},
                !.consumes = {"queue"}]]
TeamWorlds == {Teams(t, r) : t \in {"orders", "team-b-orders"}, r \in {"pg", "pg_"}}

(* Everybody calls the next one; the last two share a database.            *)
ChainWorld ==
    [r \in Range(Chain) |-> LET i == CHOOSE i \in 1..6 : Chain[i] = r IN
        [Repo(r) EXCEPT !.routes = IF i < 6 THEN {r} ELSE {},
            !.bindings = IF i > 4 THEN {"pg"} ELSE {},
            !.clients = IF i < 5 THEN {Client("stripe", Chain[i + 1])} ELSE {}]]

Worlds == Pairs \cup TeamWorlds \cup {ChainWorld}
CommandLines(w) ==
    IF w = ChainWorld THEN {Chain, Reverse(Chain)}
    ELSE LET perms == SetToSeqs(DOMAIN w)
         IN  perms \cup {Append(p, p[1]) : p \in perms}
=============================================================================
