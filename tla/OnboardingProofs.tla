------------------------- MODULE OnboardingProofs -------------------------
(***************************************************************************)
(* What the server says of a scaffolded application, and how it shares its *)
(* installation token, for any number of requests, applications, suffixes, *)
(* repositories and versions, and for any life of a token.                 *)
(***************************************************************************)
EXTENDS Onboarding, WellFoundedInduction, TLAPS

(***************************************************************************)
(* The token.  A cached token is never believed to live longer than it     *)
(* does, and only a call of GitHub holds one; so the mutex, which is held  *)
(* by a request that still has none, is given back with the first.         *)
(***************************************************************************)

Holding == {"dispatch", "exists", "read"}

CacheInv ==
  /\ waited \in 0 .. 1
  /\ cache # None =>
       /\ cache.left \in 0 .. Life /\ cache.believed \in 0 .. Life
       /\ cache.believed <= cache.left

TokenInv ==
  /\ pc \in [Requests -> PC]
  /\ token \in [Requests -> {None} \cup 0 .. Life]
  /\ \A q \in Requests : pc[q] \notin Holding => token[q] = None

LockInv ==
  /\ minter \in Requests \cup {None}
  /\ minter # None => pc[minter] \in Waiting

AuthInv == CacheInv /\ TokenInv /\ LockInv

LEMMA Places ==
  /\ Waiting = {"forDispatch", "forRepo", "forChart"}
  /\ PC = Waiting \cup Holding \cup {"idle", "login", "loggingIn", "tags", "pull"}
  /\ \A place \in Waiting : NextCall[place] \in Holding
  BY DEF Waiting, NextCall, PC, Holding

LEMMA AuthInit == Init => AuthInv
  BY LifeAssumption, NoneAssumption, Places DEF Init, AuthInv, CacheInv, TokenInv, LockInv

\* A request takes no part in a mint: it moves on, or is answered.
LEMMA AuthMove ==
  ASSUME AuthInv, UNCHANGED auth, NEW q \in Requests, pc[q] \notin Waiting,
         NEW place \in PC, Goto(q, place),
         \/ token' = [token EXCEPT ![q] = None]
         \/ UNCHANGED token /\ pc[q] \notin Holding
  PROVE  AuthInv'
<1>1. CacheInv'
  BY DEF AuthInv, CacheInv, auth
<1>2. TokenInv'
  BY DEF AuthInv, TokenInv, Goto
<1>3. LockInv'
  BY Places DEF AuthInv, LockInv, TokenInv, Goto, auth
<1> QED
  BY <1>1, <1>2, <1>3 DEF AuthInv

LEMMA AuthMinted ==
  ASSUME AuthInv, NEW q \in Requests, Minted(q)
  PROVE  AuthInv'
<1> USE LifeAssumption, NoneAssumption
<1>1. PICK age \in 0 .. waited, told \in BOOLEAN :
        /\ cache' = [left |-> Life - age,
                     believed |-> IF told THEN Life - age ELSE Fallback - waited]
        /\ token' = [token EXCEPT ![q] = Life - age]
  BY DEF Minted
<1>2. Life - age \in 0 .. Life /\ Fallback - waited \in 0 .. Life
      /\ Fallback - waited <= Life - age /\ waited \in 0 .. 1
  BY <1>1 DEF AuthInv, CacheInv
<1>3. pc' = [pc EXCEPT ![q] = NextCall[pc[q]]] /\ pc[q] \in Waiting
      /\ minter' = None /\ waited' = 0
  BY DEF Minted, Goto, AuthInv, LockInv
<1>4. CacheInv'
  BY <1>1, <1>2, <1>3 DEF CacheInv
<1>5. NextCall[pc[q]] \in Holding
  BY <1>3, Places
<1>6. TokenInv'
  BY <1>1, <1>2, <1>3, <1>5, Places DEF AuthInv, TokenInv
<1>7. LockInv'
  BY <1>3 DEF LockInv
<1> QED
  BY <1>4, <1>6, <1>7 DEF AuthInv

LEMMA AuthServe ==
  ASSUME AuthInv, NEW q \in Requests, Serve(q)
  PROVE  AuthInv'
<1> USE NoneAssumption, Places
<1>1. CASE Cached(q)
  <2>1. /\ pc[q] \in Waiting /\ minter = None /\ cache # None
        /\ token' = [token EXCEPT ![q] = cache.left]
        /\ pc' = [pc EXCEPT ![q] = NextCall[pc[q]]]
        /\ UNCHANGED <<cache, minter, waited>>
    BY <1>1 DEF Cached, Goto, auth
  <2>2. NextCall[pc[q]] \in Holding /\ cache.left \in 0 .. Life
    BY <2>1 DEF AuthInv, CacheInv
  <2>3. TokenInv'
    BY <2>1, <2>2 DEF AuthInv, TokenInv
  <2> QED
    BY <2>1, <2>3 DEF AuthInv, CacheInv, LockInv
<1>2. CASE Mint(q)
  BY <1>2 DEF Mint, local, AuthInv, CacheInv, TokenInv, LockInv
<1>3. CASE Minted(q)
  BY <1>3, AuthMinted
<1>4. CASE MintFails(q)
  <2>1. /\ minter' = None /\ waited' = 0 /\ UNCHANGED cache
        /\ pc' = [pc EXCEPT ![q] = "idle"] /\ token' = [token EXCEPT ![q] = None]
    BY <1>4 DEF MintFails, Reply, Goto
  <2>2. TokenInv'
    BY <2>1 DEF AuthInv, TokenInv, Holding
  <2> QED
    BY <2>1, <2>2 DEF AuthInv, CacheInv, LockInv
<1>5. ASSUME UNCHANGED auth, pc[q] \notin Waiting, NEW a, Reply(q, a)
      PROVE  AuthInv'
  BY <1>5, AuthMove DEF Reply
<1>6. CASE Dispatch(q) \/ DispatchFails(q) \/ RepoStatusFails(q) \/ Unresolved(q) \/ Pull(q)
  BY <1>5, <1>6 DEF Dispatch, DispatchFails, RepoStatusFails, Unresolved, Pull
<1>7. CASE RepoStatus(q)
  <2>1. CASE repo[job[q].repo] = None
    BY <1>5, <1>7, <2>1 DEF RepoStatus
  <2>2. CASE repo[job[q].repo] # None
    BY <1>7, <2>2, AuthMove DEF RepoStatus
  <2> QED
    BY <2>1, <2>2
<1>8. CASE ReadUmbrellaChart(q)
  <2>1. CASE UmbrellaName(job[q].repo) = None
    BY <1>5, <1>8, <2>1 DEF ReadUmbrellaChart
  <2>2. CASE UmbrellaName(job[q].repo) # None
    BY <1>8, <2>2, AuthMove DEF ReadUmbrellaChart
  <2> QED
    BY <2>1, <2>2
<1>9. CASE EnsureLogin(q)
  <2>1. pc[q] = "login" /\ UNCHANGED auth /\ UNCHANGED token
        /\ (Goto(q, "loggingIn") \/ Goto(q, "tags"))
    BY <1>9 DEF EnsureLogin
  <2> QED
    BY <2>1, AuthMove DEF Holding
<1>10. CASE LoggedIn(q)
  BY <1>10, AuthMove DEF LoggedIn, Holding
<1>11. CASE Tags(q)
  <2>1. pc[q] = "tags" /\ UNCHANGED auth
        /\ \/ \E a : Reply(q, a)
           \/ Goto(q, "pull") /\ UNCHANGED token
    BY <1>11, Zenon DEF Tags
  <2> QED
    BY <1>5, <2>1, AuthMove DEF Holding
<1> QED
  BY <1>1, <1>2, <1>3, <1>4, <1>6, <1>7, <1>8, <1>9, <1>10, <1>11 DEF Serve

LEMMA AuthTick ==
  ASSUME AuthInv, Tick
  PROVE  AuthInv'
<1> USE LifeAssumption
<1>1. \A n \in 0 .. Life : Less(n) \in 0 .. Life
  BY DEF Less
<1>2. \A m \in 0 .. Life, n \in 0 .. Life : m <= n => Less(m) <= Less(n)
  BY DEF Less
<1>3. /\ waited' \in 0 .. 1 /\ UNCHANGED <<pc, minter>>
      /\ cache' = IF cache = None THEN None
                  ELSE [left |-> Less(cache.left), believed |-> Less(cache.believed)]
      /\ token' = [q \in Requests |-> IF token[q] = None THEN None ELSE Less(token[q])]
  BY DEF Tick
<1>4. CacheInv'
  BY <1>1, <1>2, <1>3 DEF AuthInv, CacheInv
<1>5. TokenInv'
  BY <1>1, <1>3 DEF AuthInv, TokenInv
<1>6. LockInv'
  BY <1>3 DEF AuthInv, LockInv
<1> QED
  BY <1>4, <1>5, <1>6 DEF AuthInv

LEMMA AuthStep == AuthInv /\ [Next]_vars => AuthInv'
<1> SUFFICES ASSUME AuthInv, [Next]_vars PROVE AuthInv'
  OBVIOUS
<1>1. ASSUME NEW q \in Requests, NEW place \in Waiting, NEW about, Begin(q, place, about)
      PROVE  AuthInv'
  BY <1>1, AuthMove, Places DEF Begin, Holding
<1>2. CASE \E q \in Requests, a \in Apps : CreateApp(q, a)
  BY <1>1, <1>2, Places DEF CreateApp
<1>3. CASE \E q \in Requests, r \in Repos : StatusApp(q, r)
  BY <1>1, <1>3, Places DEF StatusApp
<1>4. CASE \E q \in Requests : Serve(q)
  BY <1>4, AuthServe
<1>5. ASSUME UNCHANGED auth, UNCHANGED local
      PROVE  AuthInv'
  BY <1>5 DEF auth, local, AuthInv, CacheInv, TokenInv, LockInv
<1>6. CASE \/ \E run \in runs : CreateRepo(run)
           \/ \E r \in Repos : PushContent(r) \/ \E rank \in 0 .. MaxRank : Publish(r, rank)
           \/ Revoke
  BY <1>5, <1>6 DEF CreateRepo, PushContent, Publish, Revoke
<1>7. CASE Tick
  BY <1>7, AuthTick
<1>8. CASE Restart
  BY <1>8, Places, LifeAssumption DEF Restart, AuthInv, CacheInv, TokenInv, LockInv
<1>9. CASE UNCHANGED vars
  BY <1>5, <1>9 DEF vars, auth, local
<1> QED
  BY <1>2, <1>3, <1>4, <1>6, <1>7, <1>8, <1>9 DEF Next

LEMMA AuthInvariant == Spec => []AuthInv
  BY AuthInit, AuthStep, PTL DEF Spec

\* The mutex of the token cache is held exactly by a request that waits for its
\* mint, whatever fails and whoever else comes (app_auth.go:64-65).
THEOREM MutexIsTheMinters == Spec => []LockHolderMints
<1>1. AuthInv => LockHolderMints
  BY Places, NoneAssumption DEF AuthInv, LockInv, TokenInv, LockHolderMints, Holding
<1> QED
  BY <1>1, AuthInvariant, PTL

\* A token that is handed out has more than the margin left of its real life,
\* however late the answer of the mint, and if it told no expiry (app_auth.go:60-62).
THEOREM TokensAreFresh == Spec => HandedOutFresh
<1> DEFINE Fresh == \A q \in Requests :
                      (token[q] = None /\ token'[q] # None) => token'[q] > Margin
<1>1. ASSUME AuthInv, [Next]_vars PROVE [Fresh]_token
  <2>1. ASSUME NEW q \in Requests, NEW left \in Int, left > Margin,
               token' = [token EXCEPT ![q] = left]
        PROVE  Fresh
    BY <1>1, <2>1 DEF AuthInv, TokenInv
  <2>2. ASSUME NEW q \in Requests, token' = [token EXCEPT ![q] = None]
        PROVE  Fresh
    BY <1>1, <2>2 DEF AuthInv, TokenInv
  <2>3. ASSUME NEW q \in Requests, Cached(q) PROVE Fresh
    <3>1. cache.left \in Int /\ cache.left > Margin
      BY <1>1, <2>3, LifeAssumption DEF Cached, AuthInv, CacheInv, Margin
    <3> QED
      BY <2>1, <2>3, <3>1 DEF Cached
  <2>4. ASSUME NEW q \in Requests, Minted(q) PROVE Fresh
    <3>1. PICK age \in 0 .. waited : token' = [token EXCEPT ![q] = Life - age]
      BY <2>4 DEF Minted
    <3>2. Life - age \in Int /\ Life - age > Margin
      BY <1>1, <3>1, LifeAssumption DEF AuthInv, CacheInv, Margin
    <3> QED
      BY <2>1, <3>1, <3>2
  <2>5. ASSUME NEW q \in Requests, NEW a, Reply(q, a) PROVE Fresh
    BY <2>2, <2>5 DEF Reply
  <2>6. ASSUME NEW q \in Requests, Serve(q) PROVE Fresh \/ UNCHANGED token
    <3>1. CASE Mint(q) \/ EnsureLogin(q) \/ LoggedIn(q)
      BY <3>1 DEF Mint, EnsureLogin, LoggedIn, local
    <3>2. CASE MintFails(q) \/ Dispatch(q) \/ DispatchFails(q) \/ RepoStatusFails(q)
               \/ Unresolved(q) \/ Pull(q)
      BY <2>5, <2>6, <3>2
      DEF MintFails, Dispatch, DispatchFails, RepoStatusFails, Unresolved, Pull
    <3>3. CASE RepoStatus(q)
      BY <2>2, <2>5, <3>3, Zenon DEF RepoStatus
    <3>4. CASE ReadUmbrellaChart(q)
      BY <2>2, <2>5, <3>4, Zenon DEF ReadUmbrellaChart
    <3>5. CASE Tags(q)
      <4>1. CASE TagsCode(job[q].name) # 200
        <5>1. \E a : Reply(q, a)
          BY <3>5, <4>1, Zenon DEF Tags
        <5> QED
          BY <2>5, <2>6, <5>1, Zenon
      <4>2. CASE TagsCode(job[q].name) = 200
        <5>1. CASE Listed(job[q].name) = {} \/ SelectVersion(Listed(job[q].name)) = None
          <6>1. \E a : Reply(q, a)
            BY <3>5, <4>2, <5>1, Zenon DEF Tags
          <6> QED
            BY <2>5, <2>6, <6>1, Zenon
        <5>2. CASE Listed(job[q].name) # {} /\ SelectVersion(Listed(job[q].name)) # None
          BY <3>5, <4>2, <5>2 DEF Tags
        <5> QED
          BY <5>1, <5>2
      <4> QED
        BY <4>1, <4>2
    <3> QED
      BY <2>3, <2>4, <2>6, <3>1, <3>2, <3>3, <3>4, <3>5 DEF Serve
  <2>7. CASE \E q \in Requests : Serve(q)
    BY <2>6, <2>7
  <2>8. CASE Tick \/ Restart
    BY <2>8 DEF Tick, Restart
  <2>9. CASE \/ \E q \in Requests, a \in Apps : CreateApp(q, a)
             \/ \E q \in Requests, r \in Repos : StatusApp(q, r)
    BY <2>9 DEF CreateApp, StatusApp, Begin
  <2>10. CASE \/ \E run \in runs : CreateRepo(run)
              \/ \E r \in Repos : PushContent(r) \/ \E rank \in 0 .. MaxRank : Publish(r, rank)
              \/ Revoke
    BY <2>10 DEF CreateRepo, PushContent, Publish, Revoke, local
  <2>11. CASE UNCHANGED vars
    BY <2>11 DEF vars
  <2> QED
    BY <1>1, <2>7, <2>8, <2>9, <2>10, <2>11 DEF Next
<1> QED
  BY <1>1, AuthInvariant, PTL DEF Spec, HandedOutFresh

(***************************************************************************)
(* What is there.  Repositories and charts are only added to, and a chart  *)
(* built from a repository is the one of the repository's application.     *)
(***************************************************************************)

RepoType == [app : Apps, pushed : BOOLEAN]

WorldInv ==
  /\ configured \in BOOLEAN /\ revoked \in BOOLEAN /\ loggedIn \in BOOLEAN
  /\ runs \subseteq [app : Apps, repo : Repos]
  /\ repo \in [Repos -> {None} \cup RepoType]
  /\ chart \in [Apps -> SUBSET Versions]
  /\ \A a \in Apps : \A v \in chart[a] :
       v.repo # None => repo[v.repo] # None /\ repo[v.repo].app = a /\ repo[v.repo].pushed

Grows ==
  /\ configured' = configured
  /\ \A r \in Repos :
       repo[r] # None => /\ repo'[r] # None /\ repo'[r].app = repo[r].app
                         /\ repo[r].pushed => repo'[r].pushed
  /\ \A a \in Apps : chart[a] \subseteq chart'[a]

LEMMA NoneIsNoRepo == None \notin RepoType
  BY NoneAssumption DEF RepoType

LEMMA Pushed ==
  ASSUME NEW x \in RepoType
  PROVE  /\ [x EXCEPT !.pushed = TRUE] \in RepoType
         /\ [x EXCEPT !.pushed = TRUE].app = x.app
         /\ [x EXCEPT !.pushed = TRUE].pushed
  BY DEF RepoType

LEMMA WorldInit == Init => WorldInv
<1> SUFFICES ASSUME Init PROVE WorldInv
  OBVIOUS
<1>1. [rank |-> 1, repo |-> None] \in Versions
  BY AppsAssumption DEF Versions
<1>2. chart \in [Apps -> SUBSET Versions]
      /\ \A a \in Apps : \A v \in chart[a] : v.repo = None
  BY <1>1 DEF Init
<1> QED
  BY <1>2 DEF Init, WorldInv

LEMMA WorldSame ==
  ASSUME WorldInv, UNCHANGED <<configured, world>>, loggedIn' \in BOOLEAN
  PROVE  WorldInv' /\ Grows
  BY DEF WorldInv, Grows, world

LEMMA WorldCreateRepo ==
  ASSUME WorldInv, NEW run \in runs, CreateRepo(run)
  PROVE  WorldInv' /\ Grows
<1>1. run.app \in Apps /\ run.repo \in Repos
  BY DEF WorldInv
<1>2. [app |-> run.app, pushed |-> FALSE] \in RepoType
  BY <1>1 DEF RepoType
<1>3. CASE repo[run.repo] = None
  <2>1. repo' = [repo EXCEPT ![run.repo] = [app |-> run.app, pushed |-> FALSE]]
    BY <1>3 DEF CreateRepo
  <2>2. repo' \in [Repos -> {None} \cup RepoType]
        /\ \A r \in Repos : repo[r] # None => repo'[r] = repo[r]
    BY <1>1, <1>2, <1>3, <2>1 DEF WorldInv
  <2>3. UNCHANGED <<configured, revoked, chart, loggedIn>> /\ runs' \subseteq runs
    BY DEF CreateRepo
  <2>4. \A a \in Apps : \A v \in chart[a] : v.repo \in Repos \cup {None}
    BY DEF WorldInv, Versions
  <2> QED
    BY <2>2, <2>3, <2>4 DEF WorldInv, Grows
<1>4. CASE repo[run.repo] # None
  BY <1>4 DEF CreateRepo, WorldInv, Grows
<1> QED
  BY <1>3, <1>4

LEMMA WorldPushContent ==
  ASSUME WorldInv, NEW r \in Repos, PushContent(r)
  PROVE  WorldInv' /\ Grows
<1>1. repo[r] \in RepoType /\ repo' = [repo EXCEPT ![r] = [repo[r] EXCEPT !.pushed = TRUE]]
  BY DEF WorldInv, PushContent
<1>2. repo'[r] = [repo[r] EXCEPT !.pushed = TRUE]
  BY <1>1 DEF WorldInv
<1>3. repo'[r] \in RepoType /\ repo'[r] # None /\ repo'[r].app = repo[r].app /\ repo'[r].pushed
  BY <1>1, <1>2, Pushed, NoneIsNoRepo
<1>4. repo' \in [Repos -> {None} \cup RepoType]
      /\ \A x \in Repos : x # r => repo'[x] = repo[x]
  BY <1>1, <1>3 DEF WorldInv
<1>5. UNCHANGED <<configured, revoked, runs, chart, loggedIn>>
  BY DEF PushContent
<1>6. \A a \in Apps : \A v \in chart[a] : v.repo \in Repos \cup {None}
  BY DEF WorldInv, Versions
<1>7. ASSUME NEW x \in Repos, repo[x] # None
      PROVE  /\ repo'[x] # None /\ repo'[x].app = repo[x].app
             /\ repo[x].pushed => repo'[x].pushed
  <2>1. CASE x = r
    BY <1>3, <2>1
  <2>2. CASE x # r
    BY <1>4, <1>7, <2>2
  <2> QED
    BY <2>1, <2>2
<1>8. Grows
  BY <1>5, <1>7 DEF Grows
<1>9. ASSUME NEW a \in Apps, NEW v \in chart'[a], v.repo # None
      PROVE  repo'[v.repo] # None /\ repo'[v.repo].app = a /\ repo'[v.repo].pushed
  <2>1. v \in chart[a] /\ v.repo \in Repos
    BY <1>5, <1>6, <1>9
  <2>2. repo[v.repo] # None /\ repo[v.repo].app = a /\ repo[v.repo].pushed
    BY <1>9, <2>1 DEF WorldInv
  <2> QED
    BY <1>7, <2>1, <2>2
<1> QED
  BY <1>4, <1>5, <1>8, <1>9 DEF WorldInv

LEMMA WorldPublish ==
  ASSUME WorldInv, NEW r \in Repos, NEW rank \in 0 .. MaxRank, Publish(r, rank)
  PROVE  WorldInv' /\ Grows
<1>1. repo[r] # None /\ repo[r].pushed /\ repo[r].app \in Apps
  BY DEF WorldInv, Publish, RepoType
<1>2. [rank |-> rank, repo |-> r] \in Versions
  BY DEF Versions
<1>3. chart' = [chart EXCEPT ![repo[r].app] =
                  chart[repo[r].app] \cup {[rank |-> rank, repo |-> r]}]
      /\ UNCHANGED <<configured, revoked, runs, repo, loggedIn>>
  BY DEF Publish
<1>4. chart' \in [Apps -> SUBSET Versions]
      /\ \A a \in Apps : /\ chart[a] \subseteq chart'[a]
                         /\ \A v \in chart'[a] :
                              v \in chart[a] \/ (a = repo[r].app /\ v.repo = r)
  BY <1>1, <1>2, <1>3 DEF WorldInv
<1> QED
  BY <1>1, <1>3, <1>4 DEF WorldInv, Grows

\* A dispatch is for an application.
AppInv ==
  /\ DOMAIN job = Requests
  /\ \A q \in Requests : pc[q] \in {"forDispatch", "dispatch"} => job[q].app \in Apps

LEMMA WorldStep == WorldInv /\ AppInv /\ [Next]_vars => WorldInv' /\ Grows
<1> SUFFICES ASSUME WorldInv, AppInv, [Next]_vars PROVE WorldInv' /\ Grows
  OBVIOUS
<1>1. CASE \E q \in Requests, a \in Apps : CreateApp(q, a)
  BY <1>1, WorldSame DEF CreateApp, Begin, WorldInv
<1>2. CASE \E q \in Requests, r \in Repos : StatusApp(q, r)
  BY <1>2, WorldSame DEF StatusApp, Begin, WorldInv
<1>3. ASSUME NEW q \in Requests, Serve(q) PROVE WorldInv' /\ Grows
  <2>1. CASE \/ Cached(q) \/ Mint(q) \/ Minted(q) \/ MintFails(q) \/ DispatchFails(q)
             \/ RepoStatus(q) \/ RepoStatusFails(q) \/ Unresolved(q) \/ EnsureLogin(q)
             \/ Pull(q)
    BY <2>1, WorldSame
    DEF Cached, Mint, Minted, MintFails, DispatchFails, RepoStatus, RepoStatusFails,
        Unresolved, EnsureLogin, Pull, WorldInv
  <2>2. CASE ReadUmbrellaChart(q) \/ Tags(q)
    BY <2>2, WorldSame DEF ReadUmbrellaChart, Tags, WorldInv
  <2>3. CASE LoggedIn(q)
    BY <2>3, WorldSame DEF LoggedIn
  <2>4. CASE Dispatch(q)
    <3>1. PICK suffix \in Suffixes :
            runs' = runs \cup {[app |-> job[q].app, repo |-> RepoNameFor(job[q].app, suffix)]}
      BY <2>4 DEF Dispatch
    <3>2. job[q].app \in Apps
      BY <2>4 DEF Dispatch, AppInv
    <3>3. RepoNameFor(job[q].app, suffix) \in Repos
      BY <3>2 DEF Repos
    <3>4. UNCHANGED <<configured, revoked, repo, chart, loggedIn>>
      BY <2>4 DEF Dispatch
    <3> QED
      BY <3>1, <3>2, <3>3, <3>4 DEF WorldInv, Grows
  <2> QED
    BY <1>3, <2>1, <2>2, <2>3, <2>4 DEF Serve
<1>4. CASE \E run \in runs : CreateRepo(run)
  BY <1>4, WorldCreateRepo
<1>5. CASE \E r \in Repos : PushContent(r) \/ \E rank \in 0 .. MaxRank : Publish(r, rank)
  BY <1>5, WorldPushContent, WorldPublish
<1>6. CASE Revoke
  BY <1>6 DEF Revoke, WorldInv, Grows
<1>7. CASE Tick \/ Restart
  BY <1>7, WorldSame DEF Tick, Restart, WorldInv
<1>8. CASE UNCHANGED vars
  BY <1>8, WorldSame DEF vars, world, WorldInv
<1> QED
  BY <1>1, <1>2, <1>3, <1>4, <1>5, <1>6, <1>7, <1>8 DEF Next

(***************************************************************************)
(* What is said of it.  A request remembers what was there when it came,   *)
(* and what it learned since is still true, for the world only grows.      *)
(***************************************************************************)

Unnamed == [repo : Repos, existed : BOOLEAN, built : SUBSET (0 .. MaxRank)]
Named == [repo : Repos, existed : BOOLEAN, built : SUBSET (0 .. MaxRank), name : Apps,
          version : Versions \cup {None}]
Registering == {"login", "loggingIn", "tags", "pull"}

Truthful(j) ==
  /\ j.existed => repo[j.repo] # None
  /\ \A n \in j.built :
       \E a \in Apps : \E v \in chart[a] : v.repo = j.repo /\ v.rank = n

\* There was a build that helm lists.
Versioned(j) == \E n \in j.built : n > 0

Located(j) == repo[j.repo] # None /\ j.name = repo[j.repo].app
Chosen(j) == j.version \in chart[j.name] /\ j.version.rank > 0

\* An answer about a repository that is right for the request it answers.
Right(j, a) ==
  /\ j.repo \in Repos /\ Truthful(j)
  /\ j.existed => a.ready
  /\ (configured /\ Versioned(j)) => a.chart # "awaiting-first-build"
  /\ a.chart = "published" =>
       /\ repo[j.repo] # None
       /\ a.version \in chart[repo[j.repo].app] /\ a.version.rank > 0

JobInv(q) ==
  /\ pc[q] # "idle" => answer[q] = None
  /\ pc[q] \in {"forDispatch", "dispatch"} => job[q].app \in Apps
  /\ pc[q] \in {"forRepo", "exists", "forChart", "read"} =>
       job[q] \in Unnamed /\ Truthful(job[q])
  /\ pc[q] \in {"forChart", "read"} => repo[job[q].repo] # None
  /\ pc[q] \in Registering => job[q] \in Named /\ Truthful(job[q]) /\ Located(job[q])
  /\ pc[q] = "pull" => Chosen(job[q])
  /\ Told(q) => Right(job[q], answer[q])

JobsInv ==
  /\ DOMAIN job = Requests /\ DOMAIN answer = Requests
  /\ \A q \in Requests : JobInv(q)

Inv == AuthInv /\ WorldInv /\ JobsInv

LEMMA TruthfulStays ==
  ASSUME Grows, NEW j, Truthful(j), j.repo \in Repos
  PROVE  Truthful(j)'
  BY DEF Truthful, Grows

LEMMA LocatedStays ==
  ASSUME Grows, NEW j, Located(j), j.repo \in Repos
  PROVE  Located(j)'
  BY DEF Located, Grows

LEMMA RightStays ==
  ASSUME Grows, WorldInv, NEW j, NEW a, Right(j, a)
  PROVE  Right(j, a)'
<1>1. repo[j.repo] # None => repo[j.repo].app \in Apps
  BY DEF Right, WorldInv, RepoType
<1>2. Truthful(j)'
  BY TruthfulStays DEF Right
<1> QED
  BY <1>1, <1>2 DEF Right, Grows

\* A request that does nothing.
LEMMA Unmoved ==
  ASSUME Inv, Grows, NEW q \in Requests, JobInv(q),
         pc'[q] = pc[q], job'[q] = job[q], answer'[q] = answer[q]
  PROVE  JobInv(q)'
<1> DEFINE j == job[q]
<1>1. pc[q] \in {"forRepo", "exists", "forChart", "read"} => j \in Unnamed /\ Truthful(job[q])'
  BY TruthfulStays DEF JobInv, Unnamed, Truthful
<1>2. pc[q] \in {"forChart", "read"} => repo'[j.repo] # None
  BY DEF JobInv, Unnamed, Grows
<1>3. pc[q] \in Registering =>
        j \in Named /\ Truthful(job[q])' /\ Located(job[q])'
  BY TruthfulStays, LocatedStays DEF JobInv, Named, Truthful, Located
<1>4. pc[q] = "pull" => Chosen(job[q])'
  BY DEF JobInv, Registering, Named, Chosen, Grows
<1>5. Told(q)' => Right(job[q], answer[q])'
  BY RightStays DEF JobInv, Told, Inv, Right
<1> QED
  BY <1>1, <1>2, <1>3, <1>4, <1>5 DEF JobInv

\* A request that is answered, if about a repository, then rightly.
LEMMA Answered ==
  ASSUME Inv, Grows, NEW q \in Requests, NEW a, Reply(q, a), job' = job,
         "chart" \in DOMAIN a => Right(job[q], a)
  PROVE  JobInv(q)'
<1>1. pc'[q] = "idle" /\ answer'[q] = a /\ job'[q] = job[q]
  BY DEF Reply, Goto, Inv, AuthInv, TokenInv, JobsInv
<1>2. Told(q)' => Right(job[q], answer[q])'
  BY <1>1, RightStays DEF Told, Inv, Right
<1> QED
  BY <1>1, <1>2 DEF JobInv, Registering

LEMMA Answers ==
  /\ "chart" \notin DOMAIN Failed
  /\ \A r : "chart" \notin DOMAIN [accepted |-> r]
  /\ \A b : Awaiting(b).ready = b /\ Awaiting(b).chart = "awaiting-first-build"
  /\ Unavailable.ready /\ Unavailable.chart = "unavailable"
  /\ \A v : LET a == Answer(TRUE, "published", v)
           IN  a.ready /\ a.chart = "published" /\ a.version = v
  BY DEF Failed, Awaiting, Unavailable, Answer

LEMMA UnavailableIsRight ==
  ASSUME NEW j, j.repo \in Repos, Truthful(j)
  PROVE  Right(j, Unavailable)
  BY Answers DEF Right

\* A request that moves on with what it asked for.
LEMMA Moved ==
  ASSUME Inv, Grows, NEW q \in Requests, NEW place, Goto(q, place),
         pc[q] # "idle", place # "idle", job' = job, answer' = answer,
         place \in {"forDispatch", "dispatch"} => pc[q] \in {"forDispatch", "dispatch"},
         place \in {"forRepo", "exists"} => pc[q] \in {"forRepo", "exists"},
         place \in {"forChart", "read"} =>
           pc[q] \in {"forRepo", "exists", "forChart", "read"} /\ repo[job[q].repo] # None,
         place \in Registering => pc[q] \in Registering,
         place = "pull" => pc[q] = "pull"
  PROVE  JobInv(q)'
<1> DEFINE j == job[q]
<1>1. JobInv(q) /\ pc'[q] = place /\ job'[q] = j /\ answer'[q] = answer[q]
  BY DEF Goto, Inv, AuthInv, TokenInv, JobsInv
<1>2. place \in {"forRepo", "exists", "forChart", "read"} => j \in Unnamed /\ Truthful(job[q])'
  BY <1>1, TruthfulStays DEF JobInv, Unnamed, Truthful
<1>3. place \in {"forChart", "read"} => repo'[j.repo] # None
  BY <1>1, <1>2 DEF Unnamed, Grows
<1>4. place \in Registering => j \in Named /\ Truthful(job[q])' /\ Located(job[q])'
  BY <1>1, TruthfulStays, LocatedStays DEF JobInv, Named, Truthful, Located
<1>5. place = "pull" => Chosen(job[q])'
  BY <1>1 DEF JobInv, Registering, Named, Chosen, Grows
<1>6. answer'[q] = None /\ (place \in {"forDispatch", "dispatch"} => j.app \in Apps)
  BY <1>1 DEF JobInv
<1> QED
  BY <1>1, <1>2, <1>3, <1>4, <1>5, <1>6 DEF JobInv, Told

(***************************************************************************)
(* The highest of a set of versions exists.                                *)
(***************************************************************************)

Below == {w \in Nat \X Nat : w[1] < w[2]}

LEMMA Least ==
  ASSUME NEW T, T \subseteq Nat, T # {}
  PROVE  \E n \in T : \A m \in T : n <= m
<1>1. IsWellFoundedOn(Below, Nat)
  BY NatLessThanWellFounded DEF OpToRel, Below
<1>2. PICK n \in T : \A m \in T : <<m, n>> \notin Below
  BY <1>1, WFMin
<1>3. ASSUME NEW m \in T PROVE n <= m
  <2>1. m \in Nat /\ n \in Nat /\ <<m, n>> \notin Below
    BY <1>2
  <2> QED
    BY <2>1 DEF Below
<1> QED
  BY <1>3

LEMMA SelectedIsHighest ==
  ASSUME NEW tags, tags \subseteq Versions, SelectVersion(tags) # None
  PROVE  SelectVersion(tags) \in tags /\ SelectVersion(tags).rank > 0
<1> DEFINE versions == {t \in tags : t.rank > 0}
           highest(t) == \A u \in versions : u.rank <= t.rank
<1>1. versions # {} /\ SelectVersion(tags) = CHOOSE t \in versions : highest(t)
  BY DEF SelectVersion
<1>2. \E t \in versions : highest(t)
  <2> DEFINE gaps == {MaxRank - t.rank : t \in versions}
  <2>1. \A t \in versions : t.rank \in 0 .. MaxRank
    BY DEF Versions
  <2>2. gaps \subseteq Nat /\ gaps # {}
    BY <1>1, <2>1, AppsAssumption
  <2>3. PICK n \in gaps : \A m \in gaps : n <= m
    BY <2>2, Least
  <2>4. PICK t \in versions : n = MaxRank - t.rank
    OBVIOUS
  <2>5. ASSUME NEW u \in versions PROVE u.rank <= t.rank
    <3>1. n <= MaxRank - u.rank
      BY <2>3
    <3> QED
      BY <2>1, <2>4, <3>1, AppsAssumption
  <2> QED
    BY <2>5
<1> HIDE DEF highest
<1> QED
  BY <1>1, <1>2

(***************************************************************************)
(* Every step keeps it.                                                    *)
(***************************************************************************)

LEMMA JobsInit == Init => JobsInv
<1> SUFFICES ASSUME Init, NEW q \in Requests PROVE JobInv(q)
  BY DEF Init, JobsInv
<1> QED
  BY DEF Init, JobInv, Registering, Told

\* A build is of a repository whose content is pushed.
LEMMA BuiltIsPushed ==
  ASSUME WorldInv, NEW j, Truthful(j), NEW n \in j.built, j.repo \in Repos
  PROVE  /\ repo[j.repo] # None /\ repo[j.repo].pushed
         /\ \E v \in chart[repo[j.repo].app] : v.rank = n
<1>1. PICK a \in Apps : \E v \in chart[a] : v.repo = j.repo /\ v.rank = n
  BY DEF Truthful
<1>2. j.repo # None
  BY NoneAssumption
<1> QED
  BY <1>1, <1>2 DEF WorldInv

LEMMA StatusRight ==
  ASSUME Inv, Grows, NEW q \in Requests, RepoStatus(q)
  PROVE  JobInv(q)'
<1>1. pc[q] = "exists" /\ job' = job /\ job[q] \in Unnamed /\ Truthful(job[q])
  BY DEF RepoStatus, Inv, JobsInv, JobInv
<1>2. job[q].repo \in Repos
  BY <1>1 DEF Unnamed
<1>3. CASE repo[job[q].repo] = None
  <2>1. Reply(q, Awaiting(FALSE))
    BY <1>3 DEF RepoStatus
  <2>2. ~job[q].existed /\ ~Versioned(job[q])
    BY <1>1, <1>2, <1>3, BuiltIsPushed DEF Truthful, Versioned, Inv
  <2>3. Right(job[q], Awaiting(FALSE))
    BY <1>1, <1>2, <2>2, Answers DEF Right
  <2> QED
    BY <1>1, <2>1, <2>3, Answered
<1>4. CASE repo[job[q].repo] # None
  <2>1. Goto(q, "forChart") /\ answer' = answer
    BY <1>4 DEF RepoStatus
  <2> QED
    BY <1>1, <1>4, <2>1, Moved DEF Registering
<1> QED
  BY <1>3, <1>4

LEMMA ReadRight ==
  ASSUME Inv, Grows, NEW q \in Requests, ReadUmbrellaChart(q)
  PROVE  JobInv(q)'
<1> DEFINE j == job[q]
           name == UmbrellaName(j.repo)
<1>1. pc[q] = "read" /\ j \in Unnamed /\ Truthful(job[q]) /\ repo[j.repo] # None
  BY DEF ReadUmbrellaChart, Inv, JobsInv, JobInv
<1>2. j.repo \in Repos /\ repo[j.repo] \in RepoType
  BY <1>1 DEF Unnamed, Inv, WorldInv
<1>3. CASE name = None
  <2>1. Reply(q, Awaiting(TRUE)) /\ job' = job
    BY <1>3 DEF ReadUmbrellaChart
  <2>2. ~repo[j.repo].pushed
    BY <1>2, <1>3, NoneAssumption DEF UmbrellaName, RepoType
  <2>3. ~Versioned(j)
    BY <1>1, <1>2, <2>2, BuiltIsPushed DEF Versioned, Inv
  <2>4. Right(job[q], Awaiting(TRUE))
    BY <1>1, <1>2, <2>3, Answers DEF Right
  <2> QED
    BY <2>1, <2>4, Answered
<1>4. CASE name # None
  <2>1. name = repo[j.repo].app /\ name \in Apps
    BY <1>2, <1>4 DEF UmbrellaName, RepoType
  <2>2. /\ job' = [job EXCEPT ![q] = [repo |-> j.repo, existed |-> j.existed,
                                      built |-> j.built, name |-> name, version |-> None]]
        /\ Goto(q, "login") /\ answer' = answer
    BY <1>4 DEF ReadUmbrellaChart
  <2>3. /\ job'[q] = [repo |-> j.repo, existed |-> j.existed, built |-> j.built,
                      name |-> name, version |-> None]
        /\ pc'[q] = "login" /\ answer'[q] = answer[q]
    BY <2>2 DEF Goto, Inv, AuthInv, TokenInv, JobsInv
  <2>4. job'[q] \in Named
    BY <1>1, <2>1, <2>3 DEF Unnamed, Named
  <2>5. Truthful(job[q])'
    BY <1>1, <1>2, <2>3 DEF Truthful, Grows
  <2>6. Located(job[q])'
    BY <1>1, <1>2, <2>1, <2>3 DEF Located, Grows
  <2>7. answer'[q] = None
    BY <1>1, <2>3 DEF Inv, JobsInv, JobInv
  <2> QED
    BY <2>3, <2>4, <2>5, <2>6, <2>7 DEF JobInv, Told
<1> QED
  BY <1>3, <1>4

LEMMA TagsRight ==
  ASSUME Inv, Grows, NEW q \in Requests, Tags(q)
  PROVE  JobInv(q)'
<1> DEFINE j == job[q]
           code == TagsCode(j.name)
           chosen == SelectVersion(Listed(j.name))
<1>1. pc[q] = "tags" /\ j \in Named /\ Truthful(job[q]) /\ Located(job[q])
  BY DEF Tags, Inv, JobsInv, JobInv, Registering
<1>2. j.repo \in Repos /\ j.name \in Apps /\ chart[j.name] \subseteq Versions
  BY <1>1 DEF Named, Inv, WorldInv
<1>3. CASE code # 200
  <2>1. Reply(q, IF IsNotPublished(code) THEN Awaiting(TRUE) ELSE Unavailable) /\ job' = job
    BY <1>3 DEF Tags
  <2>2. CASE IsNotPublished(code)
    <3>1. configured => chart[j.name] = {}
      BY <2>2 DEF IsNotPublished, TagsCode
    <3>2. ~(configured /\ Versioned(j))
      BY <1>1, <1>2, <3>1, BuiltIsPushed DEF Located, Versioned, Inv
    <3>3. Right(job[q], Awaiting(TRUE))
      BY <1>1, <1>2, <3>2, Answers DEF Right
    <3> QED
      BY <2>1, <2>2, <3>3, Answered
  <2>3. CASE ~IsNotPublished(code)
    BY <1>1, <1>2, <2>1, <2>3, UnavailableIsRight, Answered
  <2> QED
    BY <2>2, <2>3
<1>4. CASE code = 200 /\ Listed(j.name) = {}
  <2>1. Reply(q, Awaiting(TRUE)) /\ job' = job
    BY <1>4 DEF Tags
  <2>2. ~Versioned(j)
    BY <1>1, <1>2, <1>4, BuiltIsPushed DEF Located, Listed, Versioned, Inv
  <2>3. Right(job[q], Awaiting(TRUE))
    BY <1>1, <1>2, <2>2, Answers DEF Right
  <2> QED
    BY <2>1, <2>3, Answered
<1>5. CASE code = 200 /\ Listed(j.name) # {} /\ chosen = None
  <2>1. Reply(q, Unavailable) /\ job' = job
    BY <1>5 DEF Tags
  <2> QED
    BY <1>1, <1>2, <2>1, UnavailableIsRight, Answered
<1>6. CASE code = 200 /\ Listed(j.name) # {} /\ chosen # None
  <2>1. Goto(q, "pull") /\ job' = [job EXCEPT ![q] = [j EXCEPT !.version = chosen]]
        /\ answer' = answer
    BY <1>6 DEF Tags
  <2>2. chosen \in chart[j.name] /\ chosen.rank > 0
    BY <1>2, <1>6, SelectedIsHighest DEF Listed
  <2> HIDE DEF chosen
  <2>3. pc'[q] = "pull" /\ job'[q] = [j EXCEPT !.version = chosen] /\ answer'[q] = answer[q]
    BY <2>1 DEF Goto, Inv, AuthInv, TokenInv, JobsInv
  <2>4. chosen \in Versions
    BY <1>2, <2>2
  <2>5. /\ job'[q] \in Named
        /\ job'[q].repo = j.repo /\ job'[q].name = j.name /\ job'[q].version = chosen
        /\ job'[q].existed = j.existed /\ job'[q].built = j.built
    BY <1>1, <2>3, <2>4 DEF Named
  <2>6. Truthful(job[q])' /\ Located(job[q])' /\ Chosen(job[q])'
    BY <1>1, <1>2, <2>2, <2>5 DEF Truthful, Located, Chosen, Grows
  <2>7. answer'[q] = None
    BY <1>1, <2>3 DEF Inv, JobsInv, JobInv
  <2> QED
    BY <2>3, <2>5, <2>6, <2>7 DEF JobInv, Told, Registering
<1> QED
  BY <1>3, <1>4, <1>5, <1>6

LEMMA PullRight ==
  ASSUME Inv, Grows, NEW q \in Requests, Pull(q)
  PROVE  JobInv(q)'
<1>1. /\ pc[q] = "pull" /\ job[q] \in Named /\ Truthful(job[q])
      /\ Located(job[q]) /\ Chosen(job[q])
      /\ Reply(q, Answer(TRUE, "published", job[q].version)) /\ job' = job
  BY DEF Pull, Inv, JobsInv, JobInv, Registering
<1>2. Right(job[q], Answer(TRUE, "published", job[q].version))
  BY <1>1, Answers DEF Right, Named, Located, Chosen
<1> QED
  BY <1>1, <1>2, Answered

LEMMA ServeRight ==
  ASSUME Inv, Grows, NEW q \in Requests, Serve(q)
  PROVE  JobInv(q)'
<1> JobInv(q)
  BY DEF Inv, JobsInv
<1>1. ASSUME pc[q] \in Waiting, Goto(q, NextCall[pc[q]]), job' = job, answer' = answer
      PROVE  JobInv(q)'
  <2>1. CASE pc[q] = "forDispatch"
    BY <1>1, <2>1, Moved DEF NextCall, Registering
  <2>2. CASE pc[q] = "forRepo"
    BY <1>1, <2>2, Moved DEF NextCall, Registering
  <2>3. CASE pc[q] = "forChart"
    <3>1. repo[job[q].repo] # None
      BY <2>3 DEF JobInv
    <3> QED
      BY <1>1, <2>3, <3>1, Moved DEF NextCall, Registering
  <2> QED
    BY <1>1, <2>1, <2>2, <2>3, Places
<1>2. CASE Cached(q)
  BY <1>1, <1>2 DEF Cached
<1>3. CASE Mint(q)
  BY <1>3, Unmoved DEF Mint, local
<1>4. CASE Minted(q)
  BY <1>1, <1>4, NoneAssumption DEF Minted, Inv, AuthInv, LockInv
<1>5. CASE MintFails(q)
  <2>1. pc[q] \in Waiting /\ Reply(q, TokenFailure(q)) /\ job' = job
    BY <1>5, NoneAssumption DEF MintFails, Inv, AuthInv, LockInv
  <2>2. CASE pc[q] = "forChart"
    <3>1. TokenFailure(q) = Unavailable /\ job[q].repo \in Repos /\ Truthful(job[q])
      BY <2>2 DEF TokenFailure, JobInv, Unnamed
    <3> QED
      BY <2>1, <3>1, UnavailableIsRight, Answered
  <2>3. CASE pc[q] # "forChart"
    BY <2>1, <2>3, Answers, Answered DEF TokenFailure
  <2> QED
    BY <2>2, <2>3
<1>6. CASE Dispatch(q)
  <2>1. job' = job /\ (Reply(q, Failed) \/ \E r : Reply(q, [accepted |-> r]))
    BY <1>6, Zenon DEF Dispatch
  <2> QED
    BY <2>1, Answers, Answered
<1>7. CASE DispatchFails(q) \/ RepoStatusFails(q)
  BY <1>7, Answers, Answered DEF DispatchFails, RepoStatusFails
<1>8. CASE Unresolved(q)
  <2>1. job[q].repo \in Repos /\ Truthful(job[q])
    BY <1>8 DEF Unresolved, JobInv, Unnamed, Named, Registering
  <2> QED
    BY <1>8, <2>1, UnavailableIsRight, Answered DEF Unresolved
<1>9. CASE EnsureLogin(q)
  <2>1. pc[q] = "login" /\ job' = job /\ answer' = answer
        /\ (Goto(q, "loggingIn") \/ Goto(q, "tags"))
    BY <1>9 DEF EnsureLogin
  <2> QED
    BY <2>1, Moved DEF Registering
<1>10. CASE LoggedIn(q)
  BY <1>10, Moved DEF LoggedIn, Registering
<1> QED
  BY <1>2, <1>3, <1>4, <1>5, <1>6, <1>7, <1>8, <1>9, <1>10, StatusRight, ReadRight,
     TagsRight, PullRight DEF Serve

\* A step of one request is none of another.
Apart(q) ==
  /\ DOMAIN job' = Requests /\ DOMAIN answer' = Requests
  /\ \A x \in Requests \ {q} :
       pc'[x] = pc[x] /\ job'[x] = job[x] /\ answer'[x] = answer[x]

LEMMA OthersUnmoved ==
  ASSUME Inv, NEW q \in Requests, Serve(q)
  PROVE  Apart(q)
<1>1. DOMAIN job = Requests /\ DOMAIN answer = Requests /\ DOMAIN pc = Requests
  BY DEF Inv, JobsInv, AuthInv, TokenInv
<1>2. ASSUME NEW a, Reply(q, a), job' = job PROVE Apart(q)
  BY <1>1, <1>2 DEF Reply, Goto, Apart
<1>3. ASSUME NEW place, Goto(q, place), answer' = answer,
             job' = job \/ \E j : job' = [job EXCEPT ![q] = j]
      PROVE  Apart(q)
  BY <1>1, <1>3 DEF Goto, Apart
<1>4. CASE Cached(q) \/ Minted(q) \/ LoggedIn(q) \/ EnsureLogin(q)
  BY <1>3, <1>4 DEF Cached, Minted, LoggedIn, EnsureLogin
<1>5. CASE Mint(q)
  BY <1>1, <1>5 DEF Mint, local, Apart
<1>6. CASE MintFails(q) \/ DispatchFails(q) \/ RepoStatusFails(q) \/ Unresolved(q) \/ Pull(q)
           \/ Dispatch(q)
  BY <1>2, <1>6
  DEF MintFails, DispatchFails, RepoStatusFails, Unresolved, Pull, Dispatch
<1>7. CASE RepoStatus(q)
  <2>1. job' = job /\ (Reply(q, Awaiting(FALSE)) \/ (Goto(q, "forChart") /\ answer' = answer))
    BY <1>7, Zenon DEF RepoStatus
  <2> QED
    BY <1>2, <1>3, <2>1
<1>8. CASE ReadUmbrellaChart(q)
  <2>1. \/ job' = job /\ Reply(q, Awaiting(TRUE))
        \/ /\ Goto(q, "login") /\ answer' = answer
           /\ \E j : job' = [job EXCEPT ![q] = j]
    BY <1>8, Zenon DEF ReadUmbrellaChart
  <2> QED
    BY <1>2, <1>3, <2>1
<1>9. CASE Tags(q)
  <2>1. \/ job' = job /\ \E a : Reply(q, a)
        \/ /\ Goto(q, "pull") /\ answer' = answer
           /\ \E j : job' = [job EXCEPT ![q] = j]
    BY <1>9, Zenon DEF Tags
  <2> QED
    BY <1>2, <1>3, <2>1
<1> QED
  BY <1>4, <1>5, <1>6, <1>7, <1>8, <1>9 DEF Serve

LEMMA BeginRight ==
  ASSUME Inv, Grows, NEW q \in Requests,
         (\E a \in Apps : CreateApp(q, a)) \/ (\E r \in Repos : StatusApp(q, r))
  PROVE  JobInv(q)' /\ Apart(q)
<1>1. DOMAIN job = Requests /\ DOMAIN answer = Requests /\ DOMAIN pc = Requests
  BY DEF Inv, JobsInv, AuthInv, TokenInv
<1>2. ASSUME NEW place, NEW about, Begin(q, place, about)
      PROVE  pc'[q] = place /\ job'[q] = about /\ answer'[q] = None /\ Apart(q)
  BY <1>1, <1>2 DEF Begin, Goto, Apart
<1>3. CASE \E a \in Apps : CreateApp(q, a)
  <2>1. PICK a \in Apps : Begin(q, "forDispatch", [app |-> a])
    BY <1>3 DEF CreateApp
  <2>2. pc'[q] = "forDispatch" /\ job'[q] = [app |-> a] /\ answer'[q] = None /\ Apart(q)
    BY <1>2, <2>1
  <2> QED
    BY <2>2 DEF JobInv, Registering, Told
<1>4. CASE \E r \in Repos : StatusApp(q, r)
  <2>1. PICK r \in Repos :
          Begin(q, "forRepo", [repo |-> r, existed |-> repo[r] # None, built |-> Builds(r)])
    BY <1>4 DEF StatusApp
  <2> DEFINE about == [repo |-> r, existed |-> repo[r] # None, built |-> Builds(r)]
  <2>2. pc'[q] = "forRepo" /\ job'[q] = about /\ answer'[q] = None /\ Apart(q)
    BY <1>2, <2>1
  <2>3. about \in Unnamed /\ about.repo = r
    BY DEF Unnamed, Builds, Versions, Inv, WorldInv
  <2>4. Truthful(about)
    BY DEF Truthful, Builds
  <2>5. Truthful(job[q])'
    BY <2>2, <2>3, <2>4 DEF Truthful, Grows
  <2> HIDE DEF about
  <2> QED
    BY <2>2, <2>3, <2>5 DEF JobInv, Registering, Told
<1> QED
  BY <1>3, <1>4

LEMMA JobsStep == Inv /\ Grows /\ [Next]_vars => JobsInv'
<1> SUFFICES ASSUME Inv, Grows, [Next]_vars PROVE JobsInv'
  OBVIOUS
<1>1. DOMAIN job = Requests /\ DOMAIN answer = Requests /\ \A q \in Requests : JobInv(q)
  BY DEF Inv, JobsInv
<1>2. ASSUME NEW q \in Requests, JobInv(q)', Apart(q) PROVE JobsInv'
  <2>1. \A x \in Requests \ {q} : JobInv(x)'
    BY <1>1, <1>2, Unmoved DEF Apart
  <2> QED
    BY <1>2, <2>1 DEF JobsInv, Apart
<1>3. CASE \/ \E q \in Requests, a \in Apps : CreateApp(q, a)
           \/ \E q \in Requests, r \in Repos : StatusApp(q, r)
  BY <1>2, <1>3, BeginRight
<1>4. CASE \E q \in Requests : Serve(q)
  BY <1>2, <1>4, ServeRight, OthersUnmoved
<1>5. ASSUME UNCHANGED <<pc, job, answer>> PROVE JobsInv'
  BY <1>1, <1>5, Unmoved DEF JobsInv
<1>6. CASE \/ \E run \in runs : CreateRepo(run)
           \/ \E r \in Repos : PushContent(r) \/ \E rank \in 0 .. MaxRank : Publish(r, rank)
           \/ Revoke \/ Tick
  BY <1>5, <1>6 DEF CreateRepo, PushContent, Publish, Revoke, Tick, local
<1>7. CASE Restart
  <2>1. pc' = [q \in Requests |-> "idle"] /\ job' = job /\ answer' = answer
    BY <1>7 DEF Restart
  <2>2. ASSUME NEW q \in Requests PROVE JobInv(q)'
    <3>1. CASE pc[q] = "idle"
      BY <1>1, <2>1, <3>1, Unmoved
    <3>2. CASE pc[q] # "idle"
      BY <1>1, <2>1, <3>2 DEF JobInv, Told, Registering
    <3> QED
      BY <3>1, <3>2
  <2> QED
    BY <1>1, <2>1, <2>2 DEF JobsInv
<1>8. CASE UNCHANGED vars
  BY <1>5, <1>8 DEF vars
<1> QED
  BY <1>3, <1>4, <1>6, <1>7, <1>8 DEF Next

LEMMA Invariant == Spec => []Inv
<1>1. Init => Inv
  BY AuthInit, WorldInit, JobsInit DEF Inv
<1>2. Inv => AppInv
  BY DEF Inv, JobsInv, JobInv, AppInv
<1>3. Inv /\ [Next]_vars => Inv'
  BY <1>2, AuthStep, WorldStep, JobsStep DEF Inv
<1> QED
  BY <1>1, <1>3, PTL DEF Spec

\* Nobody is told "not yet" of a repository, or of a build under a version, that
\* was there when the question came, whatever expires, fails or is revoked while it
\* is answered (apps.go:255-260, appartifacts.go:149-160).
THEOREM NotYetIsTrue == Spec => []AwaitingIsTrue
<1>1. Inv => AwaitingIsTrue
  BY DEF Inv, JobsInv, JobInv, Right, Versioned, AwaitingIsTrue
<1> QED
  BY <1>1, Invariant, PTL

\* Every tag of every chart is a version.
AllVersions == \A a \in Apps : \A v \in chart[a] : v.rank > 0

\* A build that ran is only waited for where some chart has a tag that is no
\* version: as long as CI publishes under versions alone, whatever a credential
\* lets the server see is reported (appartifacts.go:46-54).
THEOREM AwaitedOnlyIfUnversioned == Spec => [](AllVersions => BuiltIsNotAwaited)
<1>1. ASSUME Inv, AllVersions, NEW q \in Requests, Told(q), configured, job[q].built # {}
      PROVE  answer[q].chart # "awaiting-first-build"
  <2>1. Right(job[q], answer[q]) /\ Truthful(job[q])
    BY <1>1 DEF Inv, JobsInv, JobInv, Right
  <2>2. Versioned(job[q])
    BY <1>1, <2>1 DEF Truthful, Versioned, AllVersions
  <2> QED
    BY <1>1, <2>1, <2>2 DEF Right
<1>2. Inv => (AllVersions => BuiltIsNotAwaited)
  BY <1>1 DEF BuiltIsNotAwaited
<1> QED
  BY <1>2, Invariant, PTL

\* A version that is reported is in the registry, for the application the
\* repository was created for, whichever suffix or cut its name carries
\* (port/appartifacts.go:8-15).
THEOREM ReportedIsPublished == Spec => []PublishedIsReal
<1>1. Inv => PublishedIsReal
  BY DEF Inv, JobsInv, JobInv, Right, PublishedIsReal
<1> QED
  BY <1>1, Invariant, PTL

\* Every variable keeps its type, and the registry is only asked for charts by
\* name and pulled from by version (appartifacts.go:18-58).
THEOREM TypeCorrect == Spec => []TypeOK
<1>1. ASSUME Inv PROVE TypeOK
  <2>1. \A q \in Requests :
          /\ pc[q] \in {"login", "loggingIn", "tags", "pull"} => job[q].name \in Apps
          /\ pc[q] = "pull" => job[q].version \in Versions /\ job[q].version.rank > 0
    BY <1>1 DEF Inv, JobsInv, JobInv, WorldInv, Named, Chosen, Registering
  <2> QED
    BY <1>1, <2>1 DEF Inv, AuthInv, CacheInv, TokenInv, LockInv, WorldInv, RepoType, TypeOK
<1> QED
  BY <1>1, Invariant, PTL

(***************************************************************************)
(* Whose version it is.  A chart is an application's, and its versions are *)
(* from whichever repositories the application has had.                    *)
(***************************************************************************)

\* Only a chart that was published before has versions of no repository.
UnnamedOnlyEarlier ==
  \A a \in Apps : \A v \in chart[a] : v.repo = None => a \in Earlier

\* Repository r is the only one its application has ever had.
Sole(r) ==
  repo[r] # None =>
    /\ repo[r].app \notin Earlier
    /\ \A s \in Repos : (repo[s] # None /\ repo[s].app = repo[r].app) => s = r

LEMMA UnnamedInit == Init => UnnamedOnlyEarlier
  BY DEF Init, UnnamedOnlyEarlier

LEMMA UnnamedStep == WorldInv /\ UnnamedOnlyEarlier /\ [Next]_vars => UnnamedOnlyEarlier'
<1> SUFFICES ASSUME WorldInv, UnnamedOnlyEarlier, [Next]_vars PROVE UnnamedOnlyEarlier'
  OBVIOUS
<1>1. ASSUME chart' = chart PROVE UnnamedOnlyEarlier'
  BY <1>1 DEF UnnamedOnlyEarlier
<1>2. ASSUME NEW r \in Repos, NEW rank \in 0 .. MaxRank, Publish(r, rank)
      PROVE  UnnamedOnlyEarlier'
  <2>1. chart' = [chart EXCEPT ![repo[r].app] =
                    chart[repo[r].app] \cup {[rank |-> rank, repo |-> r]}]
    BY <1>2 DEF Publish
  <2>2. \A a \in Apps : \A v \in chart'[a] : v \in chart[a] \/ v.repo = r
    BY <2>1 DEF WorldInv
  <2>3. r # None
    BY NoneAssumption
  <2> QED
    BY <2>2, <2>3 DEF UnnamedOnlyEarlier
<1>3. ASSUME NEW q \in Requests, Serve(q) PROVE chart' = chart
  <2>1. CASE Cached(q) \/ Mint(q) \/ Minted(q) \/ MintFails(q) \/ Dispatch(q)
             \/ DispatchFails(q) \/ EnsureLogin(q) \/ LoggedIn(q) \/ Pull(q)
    BY <2>1
    DEF Cached, Mint, Minted, MintFails, Dispatch, DispatchFails, EnsureLogin, LoggedIn,
        Pull, world
  <2>2. CASE RepoStatus(q) \/ RepoStatusFails(q) \/ ReadUmbrellaChart(q) \/ Unresolved(q)
             \/ Tags(q)
    BY <2>2 DEF RepoStatus, RepoStatusFails, ReadUmbrellaChart, Unresolved, Tags, world
  <2> QED
    BY <1>3, <2>1, <2>2 DEF Serve
<1>4. CASE \/ \E q \in Requests, a \in Apps : CreateApp(q, a)
           \/ \E q \in Requests, r \in Repos : StatusApp(q, r)
  BY <1>1, <1>4 DEF CreateApp, StatusApp, Begin, world
<1>5. CASE \E run \in runs : CreateRepo(run)
  BY <1>1, <1>5 DEF CreateRepo
<1>6. CASE \E r \in Repos : PushContent(r) \/ \E rank \in 0 .. MaxRank : Publish(r, rank)
  BY <1>1, <1>2, <1>6 DEF PushContent
<1>7. CASE Revoke \/ Tick \/ Restart
  BY <1>1, <1>7 DEF Revoke, Tick, Restart, world
<1>8. CASE UNCHANGED vars
  BY <1>1, <1>8 DEF vars
<1> QED
  BY <1>1, <1>3, <1>4, <1>5, <1>6, <1>7, <1>8 DEF Next

\* The version reported for a repository is its own build, as long as every
\* application has one repository and had no chart before: the chart's name is
\* the application's (apps.go:363), so it takes a second repository, or an
\* earlier chart, to report what another built.
THEOREM MisattributedOnlyIfShared ==
  Spec => []((\A r \in Repos : Sole(r)) => VersionIsOwnBuild)
<1>1. Init => UnnamedOnlyEarlier
  BY UnnamedInit
<1>2. Inv /\ UnnamedOnlyEarlier /\ [Next]_vars => UnnamedOnlyEarlier'
  BY UnnamedStep DEF Inv
<1>3. ASSUME Inv, UnnamedOnlyEarlier, \A r \in Repos : Sole(r)
      PROVE  VersionIsOwnBuild
  <2> SUFFICES ASSUME NEW q \in Requests, Told(q), answer[q].chart = "published"
               PROVE  answer[q].version.repo = job[q].repo
    BY DEF VersionIsOwnBuild
  <2> DEFINE r == job[q].repo
             v == answer[q].version
  <2>1. r \in Repos /\ repo[r] # None /\ v \in chart[repo[r].app]
    BY <1>3 DEF Inv, JobsInv, JobInv, Right
  <2>2. repo[r].app \in Apps /\ repo[r].app \notin Earlier
    BY <1>3, <2>1 DEF Inv, WorldInv, RepoType, Sole
  <2>3. v.repo \in Repos
    <3>1. v.repo \in Repos \cup {None}
      BY <1>3, <2>1, <2>2 DEF Inv, WorldInv, Versions
    <3>2. v.repo # None
      BY <1>3, <2>1, <2>2 DEF UnnamedOnlyEarlier
    <3> QED
      BY <3>1, <3>2
  <2>4. repo[v.repo] # None /\ repo[v.repo].app = repo[r].app
    BY <1>3, <2>1, <2>2, <2>3, NoneAssumption DEF Inv, WorldInv
  <2> QED
    BY <1>3, <2>1, <2>3, <2>4 DEF Sole
<1> QED
  BY <1>1, <1>2, <1>3, Invariant, PTL DEF Spec
===========================================================================
