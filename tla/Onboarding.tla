---------------------------- MODULE Onboarding ----------------------------
(***************************************************************************)
(* The way of a new application from POST /apps to its first published     *)
(* chart, as the server dispatches and reports it: the handlers of         *)
(* internal/adapter/inbound/http/handler/apps.go over the scaffolder, the  *)
(* installation token and the umbrella reader of                           *)
(* internal/adapter/outbound/github and the artifact resolver of           *)
(* internal/adapter/outbound/oci.                                          *)
(*                                                                         *)
(* A request is a goroutine of one server; the requests share the cached   *)
(* token and the login of the registry host.  Each call of GitHub or of    *)
(* the registry is a step, and may fail.  Around them the workflow creates *)
(* and fills repositories, CI publishes charts, a credential is revoked,   *)
(* time passes, and the server restarts.                                   *)
(*                                                                         *)
(* Time is kept as what is left of each token, one tick being the margin   *)
(* the cache keeps before an expiry.                                       *)
(***************************************************************************)
EXTENDS FiniteSets, Integers

CONSTANTS
  None,
  Requests,    \* bound: requests under way at a time
  Apps,        \* names of applications, each also the name of its chart
  Suffixes,    \* what randSuffix may draw
  Earlier,     \* the applications whose chart was published before
  Base,        \* of an application: its name, cut to leave room for a suffix
  MaxRuns,     \* bound: repositories dispatched or created
  MaxRank,     \* bound: versions of a chart, and their order
  Life, Fallback   \* of a token: its life, and the one assumed if none is told

\* Of GitHub's tokens: an hour, and fifty minutes of it, in minutes.
ASSUME LifeAssumption == Life \in Nat /\ Life > 2 /\ Fallback \in 1 .. Life - 1
ASSUME AppsAssumption ==
  Apps \subseteq DOMAIN Base /\ Earlier \subseteq Apps /\ MaxRank \in Nat \ {0}

VARIABLES
  configured,  \* whether a credential for the host of the charts is configured
  revoked,     \* registry: that credential is not good any more
  loggedIn,    \* Resolver.loggedIn of that host
  cache,       \* AppAuth: the token, what is left of it and what it believes is left
  minter,      \* AppAuth.mu: the request that holds it across a mint
  waited,      \* time since that request read the clock
  runs,        \* GitHub: dispatched workflows that have not run
  repo,        \* GitHub: the application a repository was created for, and whether pushed
  chart,       \* registry: the tags of each chart
  pc, job,     \* of each request: where it is, and what it is about
  token,       \*   what is left of the token it holds
  answer       \*   what it was answered

world == <<revoked, runs, repo, chart>>
auth == <<cache, minter, waited>>
local == <<pc, job, token, answer>>
vars == <<configured, revoked, loggedIn, cache, minter, waited, runs, repo,
          chart, pc, job, token, answer>>

Margin == 1

\* Where a request needs a token, and the call it then makes.
NextCall == [forDispatch |-> "dispatch", forRepo |-> "exists", forChart |-> "read"]
Waiting == DOMAIN NextCall
PC == Waiting \cup {"idle", "dispatch", "exists", "read", "login", "loggingIn",
                    "tags", "pull"}

\* repoNameFor: the application's name, cut, and a suffix.
RepoNameFor(app, suffix) == <<Base[app], suffix>>
Repos == {RepoNameFor(a, s) : a \in Apps, s \in Suffixes}

\* A nil is no value.
ASSUME NoneAssumption ==
  /\ None \notin Requests /\ None \notin Apps /\ None \notin Repos
  /\ \A a \in Apps, b \in BOOLEAN : None # [app |-> a, pushed |-> b]

Init ==
  /\ configured \in BOOLEAN
  /\ revoked = FALSE /\ loggedIn = FALSE
  /\ cache = None /\ minter = None /\ waited = 0
  /\ runs = {}
  /\ repo = [r \in Repos |-> None]
  /\ chart = [a \in Apps |-> IF a \in Earlier THEN {[rank |-> 1, repo |-> None]} ELSE {}]
  /\ pc = [q \in Requests |-> "idle"]
  /\ job = [q \in Requests |-> None]
  /\ token = [q \in Requests |-> None]
  /\ answer = [q \in Requests |-> None]

---------------------------------------------------------------------------
(* Requests begin and end.                                                 *)

Goto(q, place) == pc' = [pc EXCEPT ![q] = place]

Begin(q, place, about) ==
  /\ pc[q] = "idle"
  /\ Goto(q, place)
  /\ job' = [job EXCEPT ![q] = about]
  /\ answer' = [answer EXCEPT ![q] = None]
  /\ UNCHANGED <<configured, world, loggedIn, auth, token>>

\* The request is answered; its token goes with it.
Reply(q, a) ==
  /\ Goto(q, "idle")
  /\ token' = [token EXCEPT ![q] = None]
  /\ answer' = [answer EXCEPT ![q] = a]

\* What had been published from repository r: the ranks of its builds.
Builds(r) == {v.rank : v \in {u \in UNION {chart[a] : a \in Apps} : u.repo = r}}

\* POST /apps, after its gate (Governance).
CreateApp(q, app) == Begin(q, "forDispatch", [app |-> app])

\* GET /apps/{name}; what was there when it came is remembered.
StatusApp(q, r) ==
  Begin(q, "forRepo", [repo |-> r, existed |-> repo[r] # None, built |-> Builds(r)])

\* The answers of Status: whether the repository exists, its chart.
Answer(ready, status, version) == [ready |-> ready, chart |-> status, version |-> version]
Awaiting(ready) == Answer(ready, "awaiting-first-build", None)
Unavailable == Answer(TRUE, "unavailable", None)
Failed == [error |-> TRUE]

---------------------------------------------------------------------------
(* installationToken: under its mutex from the look at the cache to the    *)
(* answer of GitHub.                                                       *)

\* Mutation: a token is handed out until it expires.
CachedUntilExpiry(q) ==
  /\ pc[q] \in Waiting /\ minter = None
  /\ cache # None
  /\ cache.believed > 0
  /\ token' = [token EXCEPT ![q] = cache.left]
  /\ Goto(q, NextCall[pc[q]])
  /\ UNCHANGED <<configured, world, loggedIn, auth, job, answer>>

Cached(q) ==
  /\ pc[q] \in Waiting /\ minter = None
  /\ cache # None
  /\ cache.believed > Margin
  /\ token' = [token EXCEPT ![q] = cache.left]
  /\ Goto(q, NextCall[pc[q]])
  /\ UNCHANGED <<configured, world, loggedIn, auth, job, answer>>

\* Nothing cached, or too close to its expiry: the clock is read, the request sent.
Mint(q) ==
  /\ pc[q] \in Waiting /\ minter = None
  /\ cache # None => cache.believed <= Margin
  /\ minter' = q
  /\ waited' = 0
  /\ UNCHANGED <<configured, world, loggedIn, cache, local>>

\* GitHub issued a token while the request waited, and may not tell its expiry;
\* then it is counted from the clock that was read before.
Minted(q) ==
  /\ minter = q
  /\ \E age \in 0 .. waited, told \in BOOLEAN :
       LET left == Life - age
       IN  /\ cache' = [left |-> left,
                        believed |-> IF told THEN left ELSE Fallback - waited]
           /\ token' = [token EXCEPT ![q] = left]
  /\ minter' = None /\ waited' = 0
  /\ Goto(q, NextCall[pc[q]])
  /\ UNCHANGED <<configured, world, loggedIn, job, answer>>

\* No token: Create and the repository's status fail, the chart is unavailable.
TokenFailure(q) == IF pc[q] = "forChart" THEN Unavailable ELSE Failed

\* Mutation: the mutex is not released on an error.
MintFailsLocked(q) ==
  /\ minter = q
  /\ Reply(q, TokenFailure(q))
  /\ UNCHANGED <<configured, world, loggedIn, auth, job>>

MintFails(q) ==
  /\ minter = q
  /\ minter' = None /\ waited' = 0
  /\ Reply(q, TokenFailure(q))
  /\ UNCHANGED <<configured, world, loggedIn, cache, job>>

---------------------------------------------------------------------------
(* The calls.  GitHub refuses a token that has expired.                    *)

RunsSoFar == Cardinality(runs) + Cardinality({r \in Repos : repo[r] # None})

\* Dispatch: the workflow is accepted, and the answer names the repository.
Dispatch(q) ==
  /\ pc[q] = "dispatch" /\ token[q] > 0
  /\ RunsSoFar < MaxRuns
  /\ \E suffix \in Suffixes :
       LET r == RepoNameFor(job[q].app, suffix)
       IN  /\ runs' = runs \cup {[app |-> job[q].app, repo |-> r]}
           /\ \/ Reply(q, [accepted |-> r])
              \/ Reply(q, Failed)         \* the answer of GitHub is lost
  /\ UNCHANGED <<configured, revoked, repo, chart, loggedIn, auth, job>>

DispatchFails(q) ==
  /\ pc[q] = "dispatch"
  /\ Reply(q, Failed)
  /\ UNCHANGED <<configured, world, loggedIn, auth, job>>

\* RepoStatus: 200 leads on, 404 is an answer.
RepoStatus(q) ==
  /\ pc[q] = "exists" /\ token[q] > 0
  /\ IF repo[job[q].repo] = None
     THEN Reply(q, Awaiting(FALSE))
     ELSE Goto(q, "forChart") /\ token' = [token EXCEPT ![q] = None] /\ UNCHANGED answer
  /\ UNCHANGED <<configured, world, loggedIn, auth, job>>

RepoStatusFails(q) ==
  /\ pc[q] = "exists"
  /\ Reply(q, Failed)
  /\ UNCHANGED <<configured, world, loggedIn, auth, job>>

\* Mutation: the chart's name is what is left of the repository's without the suffix.
UmbrellaNameDerived(r) == IF r[1] \in Apps THEN r[1] ELSE None

\* The name in deploy/umbrella/Chart.yaml, none before the push.
UmbrellaName(r) == IF repo[r].pushed THEN repo[r].app ELSE None

\* Mutation: a file that is not there is read as one without a name.
ReadUmbrellaChartEmpty(q) ==
  /\ pc[q] = "read" /\ token[q] > 0
  /\ Goto(q, "login")
  /\ token' = [token EXCEPT ![q] = None]
  /\ job' = [job EXCEPT ![q] = [repo |-> @.repo, existed |-> @.existed, built |-> @.built,
                               name |-> UmbrellaName(@.repo), version |-> None]]
  /\ UNCHANGED <<configured, world, loggedIn, auth, answer>>

\* ReadUmbrellaChart: without the file there is no chart yet.
ReadUmbrellaChart(q) ==
  LET name == UmbrellaName(job[q].repo)
  IN  /\ pc[q] = "read" /\ token[q] > 0
      /\ IF name = None
         THEN Reply(q, Awaiting(TRUE)) /\ UNCHANGED job
         ELSE /\ Goto(q, "login")
              /\ token' = [token EXCEPT ![q] = None]
              /\ job' = [job EXCEPT ![q] =
                           [repo |-> @.repo, existed |-> @.existed, built |-> @.built,
                            name |-> name, version |-> None]]
              /\ UNCHANGED answer
      /\ UNCHANGED <<configured, world, loggedIn, auth>>

\* Any call of describeDeployable that errs leaves its one answer.
Unresolved(q) ==
  /\ pc[q] \in {"read", "loggingIn", "tags", "pull"}
  /\ Reply(q, Unavailable)
  /\ UNCHANGED <<configured, world, loggedIn, auth, job>>

---------------------------------------------------------------------------
(* ResolveLatest.                                                          *)

\* ensureLogin looks, lets the mutex go, and logs in.
EnsureLogin(q) ==
  /\ pc[q] = "login"
  /\ Goto(q, IF configured /\ ~loggedIn THEN "loggingIn" ELSE "tags")
  /\ UNCHANGED <<configured, world, loggedIn, auth, job, token, answer>>

\* The other request may have logged in meanwhile; the login is remembered.
LoggedIn(q) ==
  /\ pc[q] = "loggingIn"
  /\ ~revoked
  /\ loggedIn' = TRUE
  /\ Goto(q, "tags")
  /\ UNCHANGED <<configured, world, auth, job, token, answer>>

\* Mutation: 401 and 403 always mean that nothing was pushed.
IsNotPublishedAnonymous(code) == code \in {401, 403, 404}

\* isNotPublished: who has a credential is refused for another reason.
IsNotPublished(code) == code = 404 \/ (code \in {401, 403} /\ ~configured)

\* What the registry of private charts answers: 401 to who may not look, whether
\* there is a chart or not; 404 if there is none.
TagsCode(name) ==
  IF ~configured \/ revoked THEN 401 ELSE IF chart[name] = {} THEN 404 ELSE 200

\* registry.Client.Tags: helm lists the tags that are strict versions; rank 0 is none.
Listed(name) == {t \in chart[name] : t.rank > 0}

\* selectVersion with "*": the highest tag that is a version.
SelectVersion(tags) ==
  LET versions == {t \in tags : t.rank > 0}
  IN  IF versions = {} THEN None ELSE CHOOSE t \in versions : \A u \in versions : u.rank <= t.rank

\* The listing fails, or is empty, or names the version to pull.  selectVersion has
\* an error for a listing without versions; helm returns none such.
Tags(q) ==
  LET name == job[q].name
      code == TagsCode(name)
      chosen == SelectVersion(Listed(name))
  IN  /\ pc[q] = "tags"
      /\ IF code # 200
         THEN /\ Reply(q, IF IsNotPublished(code) THEN Awaiting(TRUE) ELSE Unavailable)
              /\ UNCHANGED job
         ELSE IF Listed(name) = {}
         THEN Reply(q, Awaiting(TRUE)) /\ UNCHANGED job
         ELSE IF chosen = None
         THEN Reply(q, Unavailable) /\ UNCHANGED job
         ELSE /\ Goto(q, "pull")
              /\ job' = [job EXCEPT ![q].version = chosen]
              /\ UNCHANGED <<token, answer>>
      /\ UNCHANGED <<configured, world, loggedIn, auth>>

Pull(q) ==
  /\ pc[q] = "pull"
  /\ ~revoked
  /\ Reply(q, Answer(TRUE, "published", job[q].version))
  /\ UNCHANGED <<configured, world, loggedIn, auth, job>>

---------------------------------------------------------------------------
(* The world.                                                              *)

\* The workflow creates its repository, unless there is one of that name.
CreateRepo(run) ==
  /\ run \in runs
  /\ runs' = runs \ {run}
  /\ repo' = IF repo[run.repo] = None
             THEN [repo EXCEPT ![run.repo] = [app |-> run.app, pushed |-> FALSE]]
             ELSE repo
  /\ UNCHANGED <<configured, revoked, chart, loggedIn, auth, local>>

PushContent(r) ==
  /\ repo[r] # None /\ ~repo[r].pushed
  /\ repo' = [repo EXCEPT ![r].pushed = TRUE]
  /\ UNCHANGED <<configured, revoked, runs, chart, loggedIn, auth, local>>

\* Release CI of repository r publishes the chart of its application; what rank
\* its version has is not for time to say (0.3.0-sha-<short>).  Rank 0 is a version
\* that helm packages and does not list: "v0.3.0", say, is not a strict one.
Publish(r, rank) ==
  /\ repo[r] # None /\ repo[r].pushed
  /\ rank = 0 \/ \A v \in chart[repo[r].app] : v.rank # rank
  /\ chart' = [chart EXCEPT ![repo[r].app] = @ \cup {[rank |-> rank, repo |-> r]}]
  /\ UNCHANGED <<configured, revoked, runs, repo, loggedIn, auth, local>>

Revoke ==
  /\ configured /\ ~revoked
  /\ revoked' = TRUE
  /\ UNCHANGED <<configured, runs, repo, chart, loggedIn, auth, local>>

Less(n) == IF n = 0 THEN 0 ELSE n - 1

\* A tick.  The client gives up on a mint before a second one (30 s, a minute).
Tick ==
  /\ minter # None => waited = 0
  /\ waited' = IF minter # None THEN 1 ELSE 0
  /\ cache' = IF cache = None THEN None
              ELSE [left |-> Less(cache.left), believed |-> Less(cache.believed)]
  /\ token' = [q \in Requests |-> IF token[q] = None THEN None ELSE Less(token[q])]
  /\ UNCHANGED <<configured, world, loggedIn, minter, pc, job, answer>>

\* Requests, token and login are gone.
Restart ==
  /\ loggedIn' = FALSE /\ cache' = None /\ minter' = None /\ waited' = 0
  /\ pc' = [q \in Requests |-> "idle"]
  /\ token' = [q \in Requests |-> None]
  /\ UNCHANGED <<configured, world, job, answer>>

---------------------------------------------------------------------------

Serve(q) ==
  \/ Cached(q) \/ Mint(q) \/ Minted(q) \/ MintFails(q)
  \/ Dispatch(q) \/ DispatchFails(q)
  \/ RepoStatus(q) \/ RepoStatusFails(q) \/ ReadUmbrellaChart(q) \/ Unresolved(q)
  \/ EnsureLogin(q) \/ LoggedIn(q) \/ Tags(q) \/ Pull(q)

Next ==
  \/ \E q \in Requests, a \in Apps : CreateApp(q, a)
  \/ \E q \in Requests, r \in Repos : StatusApp(q, r)
  \/ \E q \in Requests : Serve(q)
  \/ \E run \in runs : CreateRepo(run)
  \/ \E r \in Repos : PushContent(r) \/ \E rank \in 0 .. MaxRank : Publish(r, rank)
  \/ Revoke \/ Tick \/ Restart

Spec == Init /\ [][Next]_vars

---------------------------------------------------------------------------
(* Properties.                                                             *)

Versions == [rank : 0 .. MaxRank, repo : Repos \cup {None}]

\* Types of the variables; a request only reaches the registry with the name of a
\* chart, and pulls a version.
TypeOK ==
  /\ configured \in BOOLEAN /\ revoked \in BOOLEAN /\ loggedIn \in BOOLEAN
  /\ cache # None => cache.left \in 0 .. Life /\ cache.believed \in 0 .. Life
  /\ minter \in Requests \cup {None}
  /\ waited \in 0 .. 1
  /\ runs \subseteq [app : Apps, repo : Repos]
  /\ repo \in [Repos -> {None} \cup [app : Apps, pushed : BOOLEAN]]
  /\ chart \in [Apps -> SUBSET Versions]
  /\ pc \in [Requests -> PC]
  /\ token \in [Requests -> {None} \cup 0 .. Life]
  /\ \A q \in Requests :
       /\ pc[q] \in {"login", "loggingIn", "tags", "pull"} => job[q].name \in Apps
       /\ pc[q] = "pull" => job[q].version \in Versions /\ job[q].version.rank > 0

\* Request q was answered about a repository.
Told(q) == pc[q] = "idle" /\ answer[q] # None /\ "chart" \in DOMAIN answer[q]

\* "Not yet" is never said of what is there: a repository that existed when the
\* request came is not reported missing, and with a credential configured a build
\* published by then under a version is not reported as awaited, whatever expires,
\* is revoked, is unreachable or is logged in by the other request in between
\* (apps.go:255-260, appartifacts.go:149-160).
AwaitingIsTrue ==
  \A q \in Requests :
    Told(q) =>
      /\ job[q].existed => answer[q].ready
      /\ (configured /\ \E rank \in job[q].built : rank > 0) =>
           answer[q].chart # "awaiting-first-build"

\* With a credential configured no build that ran is waited for: a chart that is
\* published, and unusable because none of its tags is a version, is not reported
\* as awaited either (appartifacts.go:52-54).
BuiltIsNotAwaited ==
  \A q \in Requests :
    (Told(q) /\ configured /\ job[q].built # {}) =>
      answer[q].chart # "awaiting-first-build"

\* A version is only reported if it is in the registry, for the application this
\* repository was created for; repository names that are cut alike do not mix
\* (port/appartifacts.go:8-15).
PublishedIsReal ==
  \A q \in Requests :
    (Told(q) /\ answer[q].chart = "published") =>
      /\ answer[q].version \in chart[repo[job[q].repo].app]
      /\ answer[q].version.rank > 0

\* A token is handed out, cached or just minted, with more than the margin left
\* of its real life, also when GitHub tells no expiry and the mint took its time
\* (app_auth.go:60-62, 109-115).
HandedOutFresh ==
  [][\A q \in Requests :
       (token[q] = None /\ token'[q] # None) => token'[q] > Margin]_token

\* The mutex is held exactly by a request that is waiting for its mint: no error
\* path keeps it, and nobody else comes in between (app_auth.go:64-65).
LockHolderMints ==
  minter # None => pc[minter] \in Waiting /\ token[minter] = None

\* The version reported for a repository is one its own CI has published
\* (apps.go:317-320).
VersionIsOwnBuild ==
  \A q \in Requests :
    (Told(q) /\ answer[q].chart = "published") => answer[q].version.repo = job[q].repo
===========================================================================
