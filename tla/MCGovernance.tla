--------------------------- MODULE MCGovernance ---------------------------
(***************************************************************************)
(* Instance of Governance for TLC, and the reference definition Merge is   *)
(* checked against.                                                        *)
(***************************************************************************)
EXTENDS Governance, TLC

\* The tree with a single path.
Only(p, v) == [q \in Prefixes(p) \ {<<>>} |-> IF q = p THEN v ELSE Map]

User == Scalar("user")

\* Overlays of one path: tunable values, leaves and empty maps above a value of
\* the chart, reserved values under several keys, keys with dots.
Tunings ==
  {Empty,
   Only(<<"app", "replicas">>, User),
   Only(<<"app", "env", "LEVEL">>, User),
   Only(<<"app", "env">>, User),
   Only(<<"app", "mode">>, Map),
   Only(<<"app">>, User),
   Only(<<"app.env">>, User)}
Reaching ==
  {Only(<<"app", "postgres">>, User),
   Only(<<"app", "postgres">>, Map),
   Only(<<"app", "postgres", "size">>, User),
   Only(<<"app", "postgres", "bindBuildingBlock", "instanceName">>, User),
   Only(<<"orders", "postgres", "bindBuildingBlock">>, User),
   Only(<<"sqldatabase">>, Map),
   Only(<<"sqldatabase", "enabled">>, User),
   Only(<<"sqldatabase.enabled">>, User)}
Overlays == {Merge(a, b) : a \in Tunings, b \in Reaching \cup {Empty}}

MCKeys == STRING
MCDottedKeys ==
  "app.env" :> <<"app", "env">> @@ "sqldatabase.enabled" :> <<"sqldatabase", "enabled">>

Spec1(size, mb) == [type |-> "postgres", size |-> size, mb |-> mb]
Asks ==
  {<<>>, <<Spec1("", 0)>>, <<Spec1("small", 1)>>, <<Spec1("large", 2)>>,
   <<Spec1("huge", 1)>>, <<Spec1("small", 3)>>, <<Spec1("small", 4)>>,
   <<Spec1("", 0), Spec1("small", 2)>>, <<[Spec1("", 0) EXCEPT !.type = "redis"]>>}

DraftOf(app, env, overlay, specs, wellFormed) ==
  [app |-> app, env |-> env, overlay |-> overlay, specs |-> specs,
   wellFormed |-> wellFormed]

\* Requests that tune, and requests that declare.
MCDrafts ==
  {DraftOf("orders", env, o, specs, TRUE) :
     env \in {"dev", "prod"}, o \in Overlays, specs \in {<<>>, <<Spec1("", 0)>>}}
  \cup {DraftOf(app, env, Empty, specs, TRUE) :
          app \in {"orders", "orders-"}, env \in {"dev", "prod", "stage", ""}, specs \in Asks}
  \cup {DraftOf("orders", "dev", Empty, <<Spec1("", 0)>>, FALSE)}

Tunables(mode) ==
  [mode |-> mode, default |-> {<<"app", "replicas">>, <<"app", "env">>},
   envs |-> "prod" :> {<<"app", "replicas">>}]

NoRules == [types |-> {}, postgres |-> None]
Rules(sizes, mb, instances) ==
  [types |-> {"postgres"}, postgres |-> [sizes |-> sizes, mb |-> mb, instances |-> instances]]

\* Production denies everything; dev allows postgres and forgets its limits, or
\* sets none.
Section(mode, dev) ==
  [mode |-> mode, configured |-> TRUE, default |-> Rules({"small"}, 2, 1),
   envs |-> "prod" :> NoRules @@ "dev" :> dev]
Unconfigured ==
  [mode |-> "enforce", configured |-> FALSE, default |-> NoRules, envs |-> Empty]

MCPolicies ==
  {[allowlist |-> None, resources |-> None],
   [allowlist |-> Tunables("audit"), resources |-> Unconfigured],
   [allowlist |-> Tunables("audit"), resources |-> Section("enforce", Rules({}, 0, 0))],
   [allowlist |-> Tunables("enforce"),
    resources |-> Section("enforce", [Rules({}, 0, 0) EXCEPT !.postgres = None])],
   [allowlist |-> Tunables("enforce"), resources |-> Section("audit", Rules({"small"}, 2, 2))]}

Subchart(name, alias, local) == [name |-> name, alias |-> alias, local |-> local]
Block == Subchart("sql-database-package", "sqldatabase", FALSE)
Template == [name |-> "template", size |-> "small", mb |-> 1]

\* An umbrella that aliases its application, one that does not and whose bind is
\* a leaf, one without an application.
MCUmbrellas ==
  {[deps |-> <<Block, Subchart("orders", "app", TRUE)>>,
    values |->
      Only(<<"app", "replicas">>, Scalar("chart"))
      @@ Only(<<"app", "mode">>, Scalar("chart"))
      @@ Only(<<"app", "env", "LEVEL">>, Scalar("chart"))
      @@ Only(<<"app", "postgres">> \o <<"bindBuildingBlock", "instanceName">>,
              Scalar("template"))
      @@ Only(<<"sqldatabase", "enabled">>, Scalar("false"))
      @@ Only(Instances, List(<<Template>>))],
   [deps |-> <<Subchart("orders", "", TRUE), Block>>,
    values |->
      Only(<<"orders", "postgres">>, Scalar("chart"))
      @@ Only(<<"sqldatabase", "databases">>, Scalar("chart"))],
   [deps |-> <<Block>>, values |-> Empty]}

---------------------------------------------------------------------------
(* deepMerge as composer.go writes it: a recursion over the keys.          *)

TopKeys(t) == {p[1] : p \in DOMAIN t}
Beneath(t, k) == [p \in {Tail(q) : q \in {r \in DOMAIN t : r[1] = k}} \ {<<>>} |-> t[<<k>> \o p]]
Graft(k, v, t) ==
  [p \in {<<k>>} \cup {<<k>> \o q : q \in DOMAIN t} |-> IF Len(p) = 1 THEN v ELSE t[Tail(p)]]

RECURSIVE DeepMerge(_, _)
DeepMerge(low, high) ==
  LET child(k) ==
        IF k \notin TopKeys(high) THEN Graft(k, low[<<k>>], Beneath(low, k))
        ELSE IF k \in TopKeys(low) /\ low[<<k>>] = Map /\ high[<<k>>] = Map
             THEN Graft(k, Map, DeepMerge(Beneath(low, k), Beneath(high, k)))
             ELSE Graft(k, high[<<k>>], Beneath(high, k))
      part == [k \in TopKeys(low) \cup TopKeys(high) |-> child(k)]
  IN  [p \in UNION {DOMAIN part[k] : k \in DOMAIN part} |-> part[p[1]][p]]

\* Merge, which says in one line what is kept and what wins, is that recursion:
\* on every pair of overlays, and on the charts merged with each.
ASSUME MergeIsDeepMerge ==
  \A high \in Overlays, low \in Overlays \cup {u.values : u \in MCUmbrellas} :
    Merge(low, high) = DeepMerge(low, high)
===========================================================================
