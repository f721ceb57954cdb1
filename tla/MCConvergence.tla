--------------------------- MODULE MCConvergence ---------------------------
(***************************************************************************)
(* Instances of Convergence for TLC: two commits of one application for    *)
(* one environment, and one commit for two environments.                   *)
(***************************************************************************)
EXTENDS Convergence

Orders(environment, appProject, sha) ==
  [app |-> "orders", environment |-> environment, namespace |-> "orders-" \o environment,
   project |-> appProject, sha |-> sha]

TwoCommits ==
  [d1 |-> Orders("prod", "payments", "35a48cd"), d2 |-> Orders("prod", "payments", "9be01f2")]
TwoEnvironments ==
  [d1 |-> Orders("prod", "payments", "35a48cd"), d2 |-> Orders("dev", "sandbox", "35a48cd")]

MCProject ==
  [payments |-> [sources |-> {"*"},
                 destinations |-> {[server |-> "*", namespace |-> "orders-prod"]}],
   sandbox |-> [sources |-> {"registry"},
                destinations |-> {[server |-> "in-cluster", namespace |-> "*"]}]]

\* The project is narrowed: one entry names the cluster, another one the namespace.
Narrowed ==
  {[project |-> "payments",
    definition |-> [sources |-> {"registry"},
                    destinations |-> {[server |-> "in-cluster", namespace |-> "tools"],
                                      [server |-> "other", namespace |-> "*"]}]]}
===========================================================================
