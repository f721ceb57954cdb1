---------------------------- MODULE Governance ----------------------------
(***************************************************************************)
(* What stands between a request and the values that are rendered: the     *)
(* gates of POST /deployments (internal/application/deployment/create.go   *)
(* and resources.go with the policies of internal/adapter/outbound/policy),*)
(* the dry run of POST /deployments:validate, the gate of POST /apps, and  *)
(* the composition of the chart (platformValues of execute.go, Compose of  *)
(* composer.go), which may run after a restart with other policies.        *)
(*                                                                         *)
(* One client with one request: it may ask for the verdict on its overlay, *)
(* scaffold the application, create the deployment, and the executor then  *)
(* composes it with the umbrella it resolved.                              *)
(***************************************************************************)
EXTENDS Values

CONSTANTS
  None,
  Drafts,        \* requests: application, environment, overlay, declared resources
  Policies,      \* configurations the server may be started with
  Umbrellas,     \* charts a constraint may resolve to: dependencies and values
  ResourceNames, \* applications whose name can name a resource (resourceNameRE)
  RepoNames,     \* applications whose name can name a repository (nameRE)
  Sizes, DefaultSize,           \* of a PostgresInstance; versions are alike
  MinMb, MaxMb, DefaultMb,      \* its storage
  MaxRestarts    \* bound: restarts with another configuration

\* An overlay is a decoded document, so it is finite; a chart's dependencies have
\* the names values are keyed by.
ASSUME TreeAssumption ==
  /\ \A d \in Drafts : IsTree(d.overlay) /\ IsFiniteSet(DOMAIN d.overlay)
  /\ \A u \in Umbrellas :
       /\ IsTree(u.values)
       /\ u.deps \in Seq(Range(u.deps))
       /\ \A dep \in Range(u.deps) : dep.name \in Keys /\ dep.alias \in Keys

\* The entries of an allowlist are dotted paths; a limit is an int of the file.
ASSUME PolicyAssumption ==
  /\ \A p \in Policies : p.allowlist # None =>
       \A entries \in {p.allowlist.default} \cup Range(p.allowlist.envs) :
         entries \subseteq Seq(Keys)
  /\ \A p \in Policies : p.resources # None =>
       \A rules \in {p.resources.default} \cup Range(p.resources.envs) :
         rules.postgres # None => rules.postgres.instances \in Int

\* The defaults are within the contract of the XRD (resource.go:30-47).
ASSUME DefaultsAssumption ==
  /\ DefaultSize \in Sizes
  /\ MinMb \in Nat /\ MaxMb \in Nat /\ DefaultMb \in MinMb .. MaxMb

ASSUME BoundAssumption == MaxRestarts \in Nat

\* What the client is told of its create request.
Verdicts == {"locked", "invalid", "not allowed", "accepted"}

ASSUME ShapeAssumption ==
  /\ \A d \in Drafts :
       /\ d = [app |-> d.app, env |-> d.env, overlay |-> d.overlay, specs |-> d.specs,
               wellFormed |-> d.wellFormed]
       /\ d.specs \in Seq(Range(d.specs))
  /\ \A p \in Policies, v \in Verdicts : None # [policy |-> p, verdict |-> v]

VARIABLES
  policy,    \* the configuration of the server: allowlist and resource policy
  draft,     \* the request of the client
  dry,       \* the verdict of the dry run, with the configuration it was made under
  scaffold,  \* the shape written into the scaffolded repository, likewise
  answer,    \* the answer to the create request, likewise
  stored,    \* the deployment, once accepted
  shipped,   \* the umbrella it was composed with, and the composed values
  restarts

vars == <<policy, draft, dry, scaffold, answer, stored, shipped, restarts>>

Init ==
  /\ policy \in Policies
  /\ draft \in Drafts
  /\ dry = None /\ scaffold = None /\ answer = None
  /\ stored = None /\ shipped = None
  /\ restarts = 0

---------------------------------------------------------------------------
(* Reserved values (resources.go).                                         *)

BindSuffix == <<"postgres", "bindBuildingBlock">>

\* Mutation: the application subchart is looked for under the template's name.
ReservedInTemplate(values) ==
  {p \in {<<"sqldatabase">>, <<"hex-scaffold">> \o BindSuffix} : HasPath(values, p)}

\* ReservedValueOverrides: the database block, and the bind of the application
\* under any top-level key.
ReservedValueOverrides(values) ==
  {p \in {<<"sqldatabase">>} \cup {<<q[1]>> \o BindSuffix : q \in DOMAIN values} :
     HasPath(values, p)}

---------------------------------------------------------------------------
(* The tunable allowlist (allowlist.go).                                   *)

\* A set of its own replaces the default one, even an empty set.
KeysFor(allowlist, env) ==
  IF env \in DOMAIN allowlist.envs THEN allowlist.envs[env] ELSE allowlist.default

Violations(allowlist, values, env) ==
  {leaf \in FlattenKeys(values) :
     \A entry \in KeysFor(allowlist, env) : ~IsPrefix(entry, leaf)}

\* Validate, its Reject; no allowlist, no gate.
AllowlistRejects(allowlist, values, env) ==
  /\ allowlist # None
  /\ allowlist.mode = "enforce"
  /\ Violations(allowlist, values, env) # {}

---------------------------------------------------------------------------
(* Declared resources (domain/deployment/resource.go, resources.go).       *)

\* NewResource accepts the declaration.
Valid(app, spec) ==
  /\ spec.type = "postgres"
  /\ app \in ResourceNames
  /\ spec.size = "" \/ spec.size \in Sizes
  /\ spec.mb = 0 \/ spec.mb \in MinMb .. MaxMb

\* Mutation: an unset storage is passed on as it is.
NewResourceUnsized(app, spec) ==
  [name |-> app, size |-> IF spec.size = "" THEN DefaultSize ELSE spec.size, mb |-> spec.mb]

\* NewPostgresResource: unset fields take the defaults, the name is derived.
NewResource(app, spec) ==
  [name |-> app, size |-> IF spec.size = "" THEN DefaultSize ELSE spec.size,
   mb |-> IF spec.mb = 0 THEN DefaultMb ELSE spec.mb]

Buildable(app, specs) == \A k \in DOMAIN specs : Valid(app, specs[k])
BuildResources(app, specs) == [k \in DOMAIN specs |-> NewResource(app, specs[k])]

---------------------------------------------------------------------------
(* The resource policy (policy/resource.go, AuthorizeResources).           *)

\* Mutation: an environment with an empty set of types falls back to the default.
RulesForNonEmpty(rp, env) ==
  IF env \in DOMAIN rp.envs /\ rp.envs[env].types # {} THEN rp.envs[env] ELSE rp.default

\* rulesFor: membership decides, not content.
RulesFor(rp, env) == IF env \in DOMAIN rp.envs THEN rp.envs[env] ELSE rp.default

\* Whether Evaluate finds no violation: the type is allowed, postgres has rules
\* of its own, and every limit they set is kept; one that is not positive is none.
Within(rules, resources) ==
  /\ "postgres" \in rules.types
  /\ rules.postgres # None
  /\ LET limits == rules.postgres
     IN  /\ \A k \in DOMAIN resources :
              /\ limits.sizes = {} \/ resources[k].size \in limits.sizes
              /\ limits.mb > 0 => resources[k].mb <= limits.mb
         /\ limits.instances > 0 => Len(resources) <= limits.instances

\* Evaluate and the nil evaluator: no resources, no judgement; no policy, no
\* resources.  A file without the section is a policy in enforce mode that is
\* not configured.
Refused(rp, resources, env) ==
  /\ resources # <<>>
  /\ \/ rp = None
     \/ /\ rp.mode = "enforce"
        /\ ~rp.configured \/ ~Within(RulesFor(rp, env), resources)

---------------------------------------------------------------------------
(* The handlers.                                                           *)

\* Mutation: the dry run asks the allowlist only.
DryRunOfAllowlist(d) == AllowlistRejects(policy.allowlist, d.overlay, d.env)

\* ValidateTunables, its Blocked.
Blocked(d) ==
  \/ AllowlistRejects(policy.allowlist, d.overlay, d.env)
  \/ ReservedValueOverrides(d.overlay) # {}

ValidateTunables ==
  /\ dry = None
  /\ dry' = [policy |-> policy, blocked |-> Blocked(draft)]
  /\ UNCHANGED <<policy, draft, scaffold, answer, stored, shipped, restarts>>

\* The answer of CreateDeploymentHandler.Handle, in the order of its gates; the
\* branch policy is not wired.  The value objects and the aggregate are built
\* last, and two resources of one type are refused there.
Verdict(d) ==
  LET resources == BuildResources(d.app, d.specs)
  IN  IF ReservedValueOverrides(d.overlay) # {} THEN "locked"
      ELSE IF AllowlistRejects(policy.allowlist, d.overlay, d.env) THEN "locked"
      ELSE IF ~Buildable(d.app, d.specs) THEN "invalid"
      ELSE IF Refused(policy.resources, resources, d.env) THEN "not allowed"
      ELSE IF ~d.wellFormed \/ d.env = "" \/ Len(resources) > 1 THEN "invalid"
      ELSE "accepted"

Create ==
  /\ answer = None
  /\ answer' = [policy |-> policy, verdict |-> Verdict(draft)]
  /\ stored' = IF Verdict(draft) = "accepted"
               THEN [app |-> draft.app, env |-> draft.env, overlay |-> draft.overlay,
                     resources |-> BuildResources(draft.app, draft.specs)]
               ELSE None
  /\ UNCHANGED <<policy, draft, dry, scaffold, shipped, restarts>>

\* Mutation: the shape is validated, and left for the deployment to authorize.
CreateAppUnauthorized ==
  /\ scaffold = None /\ answer = None
  /\ draft.app \in RepoNames /\ draft.specs # <<>> /\ Buildable(draft.app, draft.specs)
  /\ scaffold' = [policy |-> policy, shape |-> Head(BuildResources(draft.app, draft.specs))]
  /\ UNCHANGED <<policy, draft, dry, answer, stored, shipped, restarts>>

\* POST /apps with declared resources that is accepted: judged by the default
\* rules, and the shape of the first resource is handed to the scaffolder.  How
\* many there are is not looked at here.
CreateApp ==
  LET resources == BuildResources(draft.app, draft.specs)
  IN  /\ scaffold = None /\ answer = None
      /\ draft.specs # <<>>
      /\ Buildable(draft.app, draft.specs)
      /\ ~Refused(policy.resources, resources, "")
      /\ draft.app \in RepoNames
      /\ scaffold' = [policy |-> policy, shape |-> Head(resources)]
      /\ UNCHANGED <<policy, draft, dry, answer, stored, shipped, restarts>>

\* The declaration of one resource of a given shape.
Declared(shape) == <<[type |-> "postgres", size |-> shape.size, mb |-> shape.mb]>>

\* The client declares in its deployment what the repository was scaffolded with.
Adopt ==
  /\ scaffold # None /\ answer = None
  /\ draft' = [draft EXCEPT !.specs = Declared(scaffold.shape)]
  /\ UNCHANGED <<policy, dry, scaffold, answer, stored, shipped, restarts>>

---------------------------------------------------------------------------
(* The composition.                                                        *)

\* Mutation: the alias of the application subchart is not looked at.
AppValuesKeyUnaliased(deps) ==
  LET n == SelectInSeq(deps, LAMBDA d : d.local)
  IN  IF n = 0 THEN "" ELSE deps[n].name

\* AppValuesKeyOf: the first dependency that is a file:// reference.
AppValuesKeyOf(deps) ==
  LET n == SelectInSeq(deps, LAMBDA d : d.local)
  IN  IF n = 0 THEN ""
      ELSE IF deps[n].alias # "" THEN deps[n].alias ELSE deps[n].name

Instances == <<"sqldatabase", "databases", "sql">>

\* The block of the SQL building block; its list replaces the chart's.
Database(d) ==
  LET enabled == <<"sqldatabase", "enabled">>
      environment == <<"sqldatabase", "environment">>
  IN  [p \in {<<"sqldatabase">>, enabled, environment, <<"sqldatabase", "databases">>,
              Instances} |->
         CASE p = enabled -> Scalar("true")
           [] p = environment -> Scalar(d.env)
           [] p = Instances -> List(d.resources)
           [] OTHER -> Map]

\* bindValues, under the key of the application.
BindValues(key, d) ==
  LET bind == <<key>> \o BindSuffix
      enabled == bind \o <<"enabled">>
      instanceName == bind \o <<"instanceName">>
  IN  [p \in {<<key>>, <<key, "postgres">>, bind, enabled, instanceName} |->
         CASE p = enabled -> Scalar("true")
           [] p = instanceName -> Scalar(Head(d.resources).name)
           [] OTHER -> Map]

\* platformValues; the bind of an application called sqldatabase overwrites the
\* block.
PlatformValues(key, d) ==
  IF d.resources = <<>> THEN Empty
  ELSE LET db == Database(d)
       IN  Merge([p \in {q \in DOMAIN db : q[1] # key} |-> db[p]], BindValues(key, d))

\* Composer.Compose: defaults < overlay < platform.
Composed(u, d) ==
  Merge(Merge(u.values, d.overlay), PlatformValues(AppValuesKeyOf(u.deps), d))

Compose(u) ==
  /\ stored # None /\ shipped = None
  /\ stored.resources # <<>> => AppValuesKeyOf(u.deps) # ""
  /\ shipped' = [umbrella |-> u, values |-> Composed(u, stored)]
  /\ UNCHANGED <<policy, draft, dry, scaffold, answer, stored, restarts>>

\* The bind could not be addressed: the deployment fails.
ComposeRefused(u) ==
  /\ stored # None /\ shipped = None
  /\ stored.resources # <<>> /\ AppValuesKeyOf(u.deps) = ""
  /\ stored' = None
  /\ UNCHANGED <<policy, draft, dry, scaffold, answer, shipped, restarts>>

\* The server is started again with another policies file.
Restart(p) ==
  /\ restarts < MaxRestarts
  /\ restarts' = restarts + 1
  /\ policy' = p
  /\ UNCHANGED <<draft, dry, scaffold, answer, stored, shipped>>

Next ==
  \/ ValidateTunables \/ Create \/ CreateApp \/ Adopt
  \/ \E u \in Umbrellas : Compose(u) \/ ComposeRefused(u)
  \/ \E p \in Policies \ {policy} : Restart(p)

Spec == Init /\ [][Next]_vars

---------------------------------------------------------------------------
(* Properties.                                                             *)

Resource == [name : ResourceNames, size : Sizes, mb : MinMb .. MaxMb]

\* Types of the variables.
TypeOK ==
  /\ policy \in Policies
  /\ IsTree(draft.overlay)
  /\ dry # None => dry.policy \in Policies /\ dry.blocked \in BOOLEAN
  /\ scaffold # None => scaffold.policy \in Policies /\ scaffold.shape \in Resource
  /\ answer # None => answer.policy \in Policies /\ answer.verdict \in Verdicts
  /\ stored # None => IsTree(stored.overlay) /\ stored.resources \in Seq(Resource)
  /\ shipped # None => IsTree(shipped.values)
  /\ restarts \in 0 .. MaxRestarts

\* At or beneath a path the platform owns.
Owned(p) ==
  \/ IsPrefix(<<"sqldatabase">>, p)
  \/ IsPrefix(<<p[1]>> \o BindSuffix, p)

\* What would be composed without the overlay.
Baseline == Composed(shipped.umbrella, [stored EXCEPT !.overlay = Empty])

\* No overlay decides a reserved value, in any mode of the allowlist and whatever
\* was configured since: what the composed chart holds there is what it would
\* hold without the overlay.  An overlay may still cut the application's bind
\* off with a leaf above it, and then nothing is bound (resources.go:43-44,
\* composer.go:28-31).
ReservedIsPlatforms ==
  shipped # None =>
    /\ \A p \in DOMAIN shipped.values :
         Owned(p) => p \in DOMAIN Baseline /\ shipped.values[p] = Baseline[p]
    /\ \A p \in DOMAIN Baseline :
         IsPrefix(<<"sqldatabase">>, p) => p \in DOMAIN shipped.values

\* Under one configuration the dry run blocks exactly what create refuses as
\* locked (resources.go:54-57, deployment.go:326-331).
DryRunAgrees ==
  (dry # None /\ answer # None /\ dry.policy = answer.policy) =>
    (dry.blocked <=> answer.verdict = "locked")

\* A database in the composed chart that the chart did not bring itself was
\* authorized when its deployment was accepted: a policy was configured and, when
\* it enforces, the rules of this very environment allow the type and the size,
\* also if the configuration changed between create and compose.
SpendWasAuthorized ==
  (shipped # None /\ Instances \in DOMAIN shipped.values) =>
    LET rp == answer.policy.resources
        asked == shipped.values[Instances]
        own == shipped.umbrella.values
    IN  \/ Instances \in DOMAIN own /\ own[Instances] = asked
        \/ /\ rp # None
           /\ rp.mode = "enforce" =>
                /\ rp.configured
                /\ stored.env \in DOMAIN rp.envs => Within(rp.envs[stored.env], asked[2])
                /\ stored.env \notin DOMAIN rp.envs => Within(rp.default, asked[2])

\* A composed chart holds one database, named after the application, and the
\* application reads its credentials from that very one, under the key Helm
\* hands the subchart (execute.go:490-504, ADR-0023).
BindMatchesInstance ==
  (shipped # None /\ stored.resources # <<>>) =>
    \E n \in DOMAIN shipped.umbrella.deps :
      LET dep == shipped.umbrella.deps[n]
          key == IF dep.alias # "" THEN dep.alias ELSE dep.name
          bound == <<key>> \o BindSuffix \o <<"instanceName">>
          list == shipped.values[Instances][2]
      IN  /\ dep.local
          /\ Len(list) = 1 /\ list[1].name = stored.app
          /\ bound \in DOMAIN shipped.values
          /\ shipped.values[bound] = Scalar(list[1].name)

\* When the allowlist enforced, the overlay changed nothing but what an entry
\* for the environment covers, or what had to make room for such a value.
EnforcedOverlayIsTunable ==
  LET allowlist == answer.policy.allowlist
      differs(p) == \/ p \notin DOMAIN Baseline \/ p \notin DOMAIN shipped.values
                    \/ Baseline[p] # shipped.values[p]
  IN  (shipped # None /\ allowlist # None /\ allowlist.mode = "enforce") =>
        \A p \in DOMAIN Baseline \cup DOMAIN shipped.values :
          differs(p) =>
            \E entry \in (IF stored.env \in DOMAIN allowlist.envs
                          THEN allowlist.envs[stored.env] ELSE allowlist.default) :
              IsPrefix(entry, Dotted(p)) \/ IsPrefix(Dotted(p), entry)

\* What an application was scaffolded with can be deployed: under the same
\* configuration, in an environment without rules of its own, a deployment that
\* declares that shape and tunes nothing is accepted (resources.go:113-116).
ScaffoldedIsDeployable ==
  (/\ scaffold # None /\ answer # None
   /\ answer.policy = scaffold.policy
   /\ scaffold.policy.resources # None =>
        draft.env \notin DOMAIN scaffold.policy.resources.envs
   /\ draft.env # "" /\ draft.wellFormed /\ draft.overlay = Empty
   /\ draft.specs = Declared(scaffold.shape))
  => answer.verdict = "accepted"
===========================================================================
