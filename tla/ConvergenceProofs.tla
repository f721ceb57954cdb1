------------------------- MODULE ConvergenceProofs -------------------------
(***************************************************************************)
(* What deployments that share a repository of charts or an Application    *)
(* guarantee each other, for any number of deployments, requests, projects *)
(* and crashes.                                                            *)
(***************************************************************************)
EXTENDS Convergence, TLAPS

(***************************************************************************)
(* The world: who composed what is under a tag, where Applications point.  *)
(***************************************************************************)

RequestInv ==
  /\ crashes \in 0 .. MaxCrashes
  /\ request \in [Ids -> {None} \cup Accepteds]

\* What is under a tag was composed by a deployment of that tag.
RegistryInv ==
  /\ registry \in [Tags -> Ids \cup {None}]
  /\ \A t \in Tags :
       registry[t] # None => request[registry[t]] # None /\ Tag(registry[t]) = t

\* An Application has only pointed at what one of its own deployments pushed.
OwnTags(a) ==
  {t \in Tags : /\ registry[t] # None
                /\ \E d \in Ids : request[d] # None /\ ArgoAppName(d) = a /\ Tag(d) = t}

ArgoInv ==
  /\ DOMAIN app = Names /\ DOMAIN op = Names /\ DOMAIN last = Names /\ DOMAIN live = Names
  /\ pointed \in [Names -> SUBSET Tags]
  /\ \A a \in Names :
       /\ pointed[a] \subseteq OwnTags(a)
       /\ pointed[a] # {} => app[a] # None
       /\ app[a] # None => app[a].tag \in pointed[a]
       /\ {op[a], last[a]} \subseteq pointed[a] \cup {None}
       /\ live[a] # None =>
            /\ live[a].tag \in pointed[a] /\ live[a].by \in Ids
            /\ request[live[a].by] # None /\ Tag(live[a].by) = live[a].tag

(***************************************************************************)
(* A drive, and what it has behind it.                                     *)
(***************************************************************************)

AfterPoint == {"created", "sync", "synced", "poll", "healthy", "degraded", "complete"}
AfterPush == AfterPoint \cup {"published", "validate", "post", "update"}

\* What a place in the drive and a stored status claim.
Backed(d, place, result) ==
  /\ place \in AfterPush \/ result \in Applied \cup {"ARTIFACT_PUBLISHED"} =>
       registry[Tag(d)] # None
  /\ place \in AfterPoint \/ result \in Applied => Tag(d) \in pointed[ArgoAppName(d)]

DriveInv(d) ==
  /\ pc[d] # "idle" \/ status[d] # "" => request[d] # None
  /\ Backed(d, pc[d], status[d])

DrivesInv ==
  /\ pc \in [Ids -> Places] /\ status \in [Ids -> Statuses]
  /\ \A d \in Ids : DriveInv(d)

Inv == RequestInv /\ RegistryInv /\ ArgoInv /\ DrivesInv

\* Nothing of it is taken back: requests, tags and targets only come.
Grows ==
  /\ \A d \in Ids : request[d] # None => request'[d] = request[d]
  /\ \A t \in Tags : registry[t] # None => registry'[t] # None
  /\ \A a \in Names : pointed[a] \subseteq pointed'[a]

(***************************************************************************)
(* Of a request.                                                           *)
(***************************************************************************)

LEMMA Known ==
  ASSUME RequestInv, NEW d \in Ids, request[d] # None
  PROVE  /\ Tag(d) \in Tags /\ ArgoAppName(d) \in Names
         /\ Tag(d) # None /\ ArgoSpec(d) # None
<1>1. PICK i \in Ids, n \in Seconds : request[d] = Accepted(Request[i], n)
  BY DEF RequestInv, Accepteds
<1> DEFINE r == Request[i]
<1>2. Tag(d) = [app |-> r.app, second |-> n, sha |-> r.sha]
  BY <1>1 DEF Tag, Accepted
<1>3. Tag(d) \in Tags
  BY <1>2 DEF Tags
<1>4. ArgoAppName(d) = NewArgoAppName(r)
  <2>1. /\ request[d].app = r.app /\ request[d].environment = r.environment
        /\ request[d].namespace = r.namespace
    BY <1>1 DEF Accepted
  <2> QED
    BY <2>1, Zenon DEF ArgoAppName, NewArgoAppName
<1>5. Tag(d) # None /\ ArgoSpec(d) # None
  BY <1>2, NilAssumption DEF ArgoSpec
<1> QED
  BY <1>3, <1>4, <1>5 DEF Names

LEMMA TagsAreValues ==
  ASSUME NEW t \in Tags, RequestInv, NEW d \in Ids, request[d] # None, Tag(d) = t
  PROVE  t # None /\ \A x \in Ids : [tag |-> t, by |-> x] # None
<1>1. PICK i \in Ids, n \in Seconds : request[d] = Accepted(Request[i], n)
  BY DEF RequestInv, Accepteds
<1> DEFINE r == Request[i]
<1>2. t = [app |-> r.app, second |-> n, sha |-> r.sha]
  BY <1>1 DEF Tag, Accepted
<1> QED
  BY <1>2, NilAssumption

\* The tag and the Application of a request are its own.
LEMMA Settled ==
  ASSUME NEW d \in Ids, request'[d] = request[d]
  PROVE  Tag(d)' = Tag(d) /\ ArgoAppName(d)' = ArgoAppName(d)
  BY DEF Tag, ArgoAppName

LEMMA InitKeeps == Init => Inv
<1> SUFFICES ASSUME Init PROVE Inv
  OBVIOUS
<1>1. RequestInv
  <2>1. crashes = 0
    BY DEF Init
  <2>2. request \in [Ids -> {None} \cup Accepteds]
    BY DEF Init
  <2> QED
    BY <2>1, <2>2, BoundsAssumption DEF RequestInv
<1>2. RegistryInv
  BY DEF Init, RegistryInv
<1>3. ArgoInv
  <2>1. /\ DOMAIN app = Names /\ DOMAIN op = Names /\ DOMAIN last = Names
        /\ DOMAIN live = Names /\ pointed \in [Names -> SUBSET Tags]
    BY DEF Init
  <2>2. ASSUME NEW a \in Names
        PROVE  app[a] = None /\ op[a] = None /\ last[a] = None /\ live[a] = None
               /\ pointed[a] = {}
    BY DEF Init
  <2> QED
    BY <2>1, <2>2 DEF ArgoInv
<1>4. DrivesInv
  BY DEF Init, DrivesInv, DriveInv, Backed, AfterPush, AfterPoint, Places, Statuses, Applied
<1> QED
  BY <1>1, <1>2, <1>3, <1>4 DEF Inv

(***************************************************************************)
(* What a step leaves alone.                                               *)
(***************************************************************************)

LEMMA RegistryStays ==
  ASSUME Inv, Grows, registry' = registry
  PROVE  RegistryInv'
<1>1. ASSUME NEW t \in Tags, registry[t] # None
      PROVE  request'[registry[t]] # None /\ Tag(registry[t])' = t
  <2>1. registry[t] \in Ids /\ request[registry[t]] # None /\ Tag(registry[t]) = t
    BY <1>1 DEF Inv, RegistryInv
  <2> QED
    BY <2>1 DEF Grows, Tag
<1>2. registry' \in [Tags -> Ids \cup {None}]
  BY DEF Inv, RegistryInv
<1> QED
  BY <1>1, <1>2 DEF RegistryInv, Tag

LEMMA OwnTagsStay ==
  ASSUME Inv, Grows, NEW a \in Names
  PROVE  OwnTags(a) \subseteq OwnTags(a)'
<1>1. ASSUME NEW t \in OwnTags(a) PROVE t \in OwnTags(a)'
  <2>1. PICK d \in Ids : request[d] # None /\ ArgoAppName(d) = a /\ Tag(d) = t
    BY DEF OwnTags
  <2>2. request'[d] = request[d] /\ t \in Tags /\ registry'[t] # None
    BY <2>1 DEF Grows, OwnTags
  <2>3. ArgoAppName(d)' = a /\ Tag(d)' = t
    BY <2>1, <2>2, Settled
  <2> QED
    BY <2>1, <2>2, <2>3 DEF OwnTags
<1> QED
  BY <1>1

\* Who composed a chart is still who it was.
LEMMA ComposerStays ==
  ASSUME Grows, NEW x \in Ids, request[x] # None
  PROVE  request'[x] # None /\ Tag(x)' = Tag(x)
  BY Settled DEF Grows

LEMMA ArgoStays ==
  ASSUME Inv, Grows, UNCHANGED <<app, pointed, op, last, live>>
  PROVE  ArgoInv'
<1>1. ASSUME NEW a \in Names PROVE pointed[a] \subseteq OwnTags(a)'
  BY OwnTagsStay DEF Inv, ArgoInv
<1>2. ASSUME NEW a \in Names, NEW x \in Ids, live[a] # None, x = live[a].by
      PROVE  request'[x] # None /\ Tag(x)' = live[a].tag
  BY <1>2, ComposerStays DEF Inv, ArgoInv
<1> QED
  BY <1>1, <1>2 DEF Inv, ArgoInv, Tag

LEMMA DriveStays ==
  ASSUME Inv, Grows, NEW d \in Ids, pc'[d] = pc[d], status'[d] = status[d]
  PROVE  DriveInv(d)'
<1> DriveInv(d)
  BY DEF Inv, DrivesInv
<1>1. CASE request[d] = None
  BY <1>1 DEF DriveInv, Backed, AfterPush, AfterPoint, Applied
<1>2. CASE request[d] # None
  <2>1. /\ request'[d] # None /\ Tag(d)' = Tag(d) /\ ArgoAppName(d)' = ArgoAppName(d)
    BY <1>2, Settled DEF Grows
  <2>2. Tag(d) \in Tags /\ ArgoAppName(d) \in Names
    BY <1>2, Known DEF Inv
  <2>3. /\ registry[Tag(d)] # None => registry'[Tag(d)] # None
        /\ Tag(d) \in pointed[ArgoAppName(d)] => Tag(d) \in pointed'[ArgoAppName(d)]
    BY <2>2 DEF Grows
  <2> QED
    BY <2>1, <2>3 DEF DriveInv, Backed, AfterPush, AfterPoint, Applied
<1> QED
  BY <1>1, <1>2

\* Who neither drives nor is driven stays; who drives has what it needs behind it.
LEMMA Advance ==
  ASSUME Inv, Grows, NEW d \in Ids, request'[d] = request[d], request[d] # None,
         NEW place \in Places, Goto(d, place),
         NEW result \in Statuses,
         \/ status' = [status EXCEPT ![d] = result]
         \/ status' = status /\ result = status[d],
         place \in AfterPush \/ result \in Applied \cup {"ARTIFACT_PUBLISHED"} =>
           registry'[Tag(d)] # None,
         place \in AfterPoint \/ result \in Applied => Tag(d) \in pointed'[ArgoAppName(d)]
  PROVE  DrivesInv'
<1>1. pc \in [Ids -> Places] /\ status \in [Ids -> Statuses]
  BY DEF Inv, DrivesInv
<1>2. pc' \in [Ids -> Places] /\ status' \in [Ids -> Statuses]
      /\ pc'[d] = place /\ status'[d] = result
      /\ \A x \in Ids \ {d} : pc'[x] = pc[x] /\ status'[x] = status[x]
  BY <1>1 DEF Goto
<1>3. Tag(d)' = Tag(d) /\ ArgoAppName(d)' = ArgoAppName(d) /\ request'[d] # None
  BY Settled
<1>4. DriveInv(d)'
  BY <1>2, <1>3 DEF DriveInv, Backed, AfterPush, AfterPoint, Applied
<1> QED
  BY <1>2, <1>4, DriveStays DEF DrivesInv

\* An error claims nothing new.
LEMMA Failing ==
  ASSUME Inv, Grows, NEW d \in Ids, request' = request, status' = status, pc[d] # "idle",
         Goto(d, "fail")
  PROVE  DrivesInv'
<1>1. request[d] # None /\ status[d] \in Statuses
  BY DEF Inv, DrivesInv, DriveInv
<1>2. "fail" \in Places /\ "fail" \notin AfterPush \cup AfterPoint
  BY DEF Places, AfterPush, AfterPoint
<1>3. /\ status[d] \in Applied \cup {"ARTIFACT_PUBLISHED"} => registry'[Tag(d)] # None
      /\ status[d] \in Applied => Tag(d) \in pointed'[ArgoAppName(d)]
  <2>1. Tag(d) \in Tags /\ ArgoAppName(d) \in Names
    BY <1>1, Known DEF Inv
  <2> QED
    BY <2>1 DEF Inv, DrivesInv, DriveInv, Backed, Grows
<1> QED
  BY <1>1, <1>2, <1>3, Advance

(***************************************************************************)
(* The actions.                                                            *)
(***************************************************************************)

\* A step of a driver alone, without an effect on the world.
Local == UNCHANGED <<crashes, request, registry, app, pointed, op, last, live>>

LEMMA LocalKeeps ==
  ASSUME Inv, Local
  PROVE  Grows /\ RequestInv' /\ RegistryInv' /\ ArgoInv'
<1>1. Grows
  BY DEF Local, Grows
<1>2. RequestInv'
  BY DEF Inv, RequestInv, Local
<1> QED
  BY <1>1, <1>2, RegistryStays, ArgoStays DEF Local

LEMMA CreateKeeps ==
  ASSUME Inv, NEW d \in Ids, NEW n \in Seconds, Create(d, n)
  PROVE  Inv'
<1>1. request[d] = None /\ request' = [request EXCEPT ![d] = Accepted(Request[d], n)]
  BY DEF Create
<1>2. UNCHANGED <<crashes, registry, app, pointed, op, last, live>>
  BY DEF Create, argo
<1>3. Accepted(Request[d], n) \in Accepteds /\ Accepted(Request[d], n) # None
  BY NilAssumption DEF Accepteds, Accepted
<1>4. RequestInv'
  BY <1>1, <1>2, <1>3 DEF Inv, RequestInv
<1>5. Grows
  BY <1>1, <1>2 DEF Grows, Inv, RequestInv
<1>6. RegistryInv' /\ ArgoInv'
  BY <1>2, <1>5, RegistryStays, ArgoStays
<1>7. /\ pc' = [pc EXCEPT ![d] = "publish"]
      /\ status' = [status EXCEPT ![d] = "CHART_COMPOSED"]
  BY DEF Create, Begin, Goto
<1>8. /\ pc \in [Ids -> Places] /\ status \in [Ids -> Statuses]
      /\ "publish" \in Places /\ "CHART_COMPOSED" \in Statuses
  BY DEF Inv, DrivesInv, Places, Statuses
<1>9. /\ pc' \in [Ids -> Places] /\ status' \in [Ids -> Statuses]
      /\ pc'[d] = "publish" /\ status'[d] = "CHART_COMPOSED"
      /\ \A x \in Ids \ {d} : pc'[x] = pc[x] /\ status'[x] = status[x]
  BY <1>7, <1>8
<1>10. request'[d] # None
  BY <1>1, <1>3 DEF Inv, RequestInv
<1>11. DriveInv(d)'
  BY <1>9, <1>10 DEF DriveInv, Backed, AfterPush, AfterPoint, Applied
<1> QED
  BY <1>4, <1>5, <1>6, <1>9, <1>11, DriveStays DEF Inv, DrivesInv

LEMMA Stages ==
  /\ Stage["ARTIFACT_PUBLISHED"] = "validate" /\ Stage["ARGO_APP_CREATED"] = "sync"
  /\ Stage["SYNCING"] = "poll" /\ Stage["HEALTHY"] = "complete" /\ Stage["DEGRADED"] = "fail"
  /\ Saves["published"] = "ARTIFACT_PUBLISHED" /\ Saves["created"] = "ARGO_APP_CREATED"
  /\ Saves["synced"] = "SYNCING" /\ Saves["healthy"] = "HEALTHY"
  /\ Saves["degraded"] = "DEGRADED"
  /\ DOMAIN Saves = {"published", "created", "synced", "healthy", "degraded"}
  /\ DOMAIN Ends = {"complete", "fail"}
  /\ Ends["complete"] = "COMPLETED" /\ Ends["fail"] = "FAILED"
  BY DEF Stage, Saves, Ends

LEMMA LocalStep ==
  ASSUME Inv, Local, NEW d \in Ids, request[d] # None,
         NEW place \in Places, Goto(d, place),
         NEW result \in Statuses,
         \/ status' = [status EXCEPT ![d] = result]
         \/ status' = status /\ result = status[d],
         Backed(d, place, result)
  PROVE  Inv'
<1>1. Grows /\ RequestInv' /\ RegistryInv' /\ ArgoInv'
  BY LocalKeeps
<1>2. request'[d] = request[d] /\ registry' = registry /\ pointed' = pointed
  BY DEF Local
<1>3. DrivesInv'
  BY <1>1, <1>2, Advance DEF Backed
<1> QED
  BY <1>1, <1>3 DEF Inv

LEMMA RedeployKeeps ==
  ASSUME Inv, NEW d \in Ids, Redeploy(d)
  PROVE  Inv'
<1> USE DEF AfterPush, AfterPoint, Applied, Places, Statuses
<1>1. /\ Local /\ status' = status /\ Goto(d, Stage[status[d]])
      /\ status[d] \in {"ARTIFACT_PUBLISHED", "ARGO_APP_CREATED", "SYNCING", "HEALTHY"}
  BY DEF Redeploy, Begin, Local, argo
<1>2. DriveInv(d) /\ status[d] \in Statuses
  BY DEF Inv, DrivesInv
<1>3. status[d] # "" /\ request[d] # None /\ Stage[status[d]] \in Places
  BY <1>1, <1>2, Stages DEF DriveInv
<1>4. Backed(d, Stage[status[d]], status[d])
  BY <1>1, <1>2, Stages DEF DriveInv, Backed
<1> QED
  BY <1>1, <1>2, <1>3, <1>4, LocalStep

LEMMA StepKeeps ==
  ASSUME Inv, NEW d \in Ids, Step(d)
  PROVE  Inv'
<1> USE DEF AfterPush, AfterPoint, Applied, Places, Statuses
<1>1. /\ Local /\ status' = [status EXCEPT ![d] = Saves[pc[d]]]
      /\ Goto(d, Stage[Saves[pc[d]]]) /\ pc[d] \in DOMAIN Saves
  BY DEF Step, Local, argo
<1>2. DriveInv(d)
  BY DEF Inv, DrivesInv
<1>3. request[d] # None /\ Stage[Saves[pc[d]]] \in Places /\ Saves[pc[d]] \in Statuses
  BY <1>1, <1>2, Stages DEF DriveInv
<1>4. Backed(d, Stage[Saves[pc[d]]], Saves[pc[d]])
  BY <1>1, <1>2, Stages DEF DriveInv, Backed
<1> QED
  BY <1>1, <1>3, <1>4, LocalStep

LEMMA EndKeeps ==
  ASSUME Inv, NEW d \in Ids, End(d)
  PROVE  Inv'
<1> USE DEF AfterPush, AfterPoint, Applied, Places, Statuses
<1>1. /\ Local /\ pc[d] \in {"complete", "fail"} /\ Goto(d, "idle")
      /\ status' = [status EXCEPT ![d] = Ends[pc[d]]]
  BY Stages DEF End, Local, argo
<1>2. DriveInv(d)
  BY DEF Inv, DrivesInv
<1>3. request[d] # None /\ Ends[pc[d]] \in Statuses /\ Backed(d, "idle", Ends[pc[d]])
  BY <1>1, <1>2, Stages DEF DriveInv, Backed
<1> QED
  BY <1>1, <1>3, LocalStep

LEMMA PollKeeps ==
  ASSUME Inv, NEW d \in Ids, Poll(d)
  PROVE  Inv'
<1> USE DEF AfterPush, AfterPoint, Applied, Places, Statuses
<1>1. /\ Local /\ pc[d] = "poll" /\ status' = status
      /\ \E place \in {"healthy", "degraded"} : Goto(d, place)
  BY DEF Poll, Local, argo
<1>2. DriveInv(d) /\ status[d] \in Statuses
  BY DEF Inv, DrivesInv
<1>3. request[d] # None /\ \A place \in {"healthy", "degraded"} : Backed(d, place, status[d])
  BY <1>1, <1>2 DEF DriveInv, Backed
<1> QED
  BY <1>1, <1>2, <1>3, LocalStep

LEMMA CallFailsKeeps ==
  ASSUME Inv, NEW d \in Ids, CallFails(d)
  PROVE  Inv'
<1>1. Local /\ pc[d] # "idle" /\ Goto(d, "fail") /\ request' = request /\ status' = status
  BY DEF CallFails, Calls, Local, argo
<1> QED
  BY <1>1, LocalKeeps, Failing DEF Inv

LEMMA ValidateKeeps ==
  ASSUME Inv, NEW d \in Ids, ValidateProject(d)
  PROVE  Inv'
<1> USE DEF AfterPush, AfterPoint, Applied, Places, Statuses
<1>1. /\ Local /\ pc[d] = "validate" /\ status' = status
      /\ \E place \in {"post", "fail"} : Goto(d, place)
  BY DEF ValidateProject, Calls, Local, argo
<1>2. DriveInv(d) /\ status[d] \in Statuses
  BY DEF Inv, DrivesInv
<1>3. request[d] # None /\ \A place \in {"post", "fail"} : Backed(d, place, status[d])
  BY <1>1, <1>2 DEF DriveInv, Backed
<1> QED
  BY <1>1, <1>2, <1>3, LocalStep

LEMMA PublishKeeps ==
  ASSUME Inv, NEW d \in Ids, Publish(d)
  PROVE  Inv'
<1>1. /\ pc[d] = "publish" /\ registry' = [registry EXCEPT ![Tag(d)] = d]
      /\ UNCHANGED <<crashes, request, app, pointed, op, last, live>>
      /\ status' = status /\ (Goto(d, "published") \/ Goto(d, "fail"))
  BY DEF Publish, Calls, argo
<1>2. DriveInv(d) /\ status[d] \in Statuses /\ request[d] # None
  BY <1>1 DEF Inv, DrivesInv, DriveInv
<1>3. Tag(d) \in Tags
  BY <1>2, Known DEF Inv
<1>4. /\ registry' \in [Tags -> Ids \cup {None}] /\ registry'[Tag(d)] = d
      /\ \A t \in Tags : t # Tag(d) => registry'[t] = registry[t]
  BY <1>1, <1>3 DEF Inv, RegistryInv
<1>5. Grows
  BY <1>1, <1>4, NilAssumption DEF Grows
<1>6. RegistryInv'
  <2>1. ASSUME NEW t \in Tags, registry'[t] # None
        PROVE  request'[registry'[t]] # None /\ Tag(registry[t])' = t
    <3>1. CASE t = Tag(d)
      BY <1>1, <1>2, <1>4, <3>1 DEF Tag
    <3>2. CASE t # Tag(d)
      <4>1. registry'[t] = registry[t]
        BY <1>4, <3>2
      <4>2. request[registry[t]] # None /\ Tag(registry[t]) = t
        BY <2>1, <4>1 DEF Inv, RegistryInv
      <4> QED
        BY <1>1, <4>1, <4>2 DEF Tag
    <3> QED
      BY <3>1, <3>2
  <2> QED
    BY <1>4, <2>1 DEF RegistryInv, Tag
<1>7. RequestInv' /\ ArgoInv'
  BY <1>1, <1>5, ArgoStays DEF Inv, RequestInv
<1>8. DrivesInv'
  <2>1. CASE Goto(d, "published")
    <3>1. registry'[Tag(d)] # None /\ "published" \in Places /\ "published" \notin AfterPoint
      BY <1>4, NilAssumption DEF Places, AfterPush, AfterPoint
    <3> QED
      BY <1>1, <1>2, <1>5, <2>1, <3>1, Advance DEF DriveInv, Backed
  <2>2. CASE Goto(d, "fail")
    BY <1>1, <1>5, <2>2, Failing
  <2> QED
    BY <1>1, <2>1, <2>2
<1> QED
  BY <1>5, <1>6, <1>7, <1>8 DEF Inv

\* An Application is pointed at the chart of one of its deployments.
LEMMA PointKeeps ==
  ASSUME Inv, NEW d \in Ids, request[d] # None, registry[Tag(d)] # None,
         Point(ArgoAppName(d), ArgoSpec(d)),
         UNCHANGED <<crashes, request, registry, op, last, live>>
  PROVE  /\ Grows /\ RequestInv' /\ RegistryInv' /\ ArgoInv'
         /\ Tag(d) \in pointed'[ArgoAppName(d)]
<1> DEFINE n == ArgoAppName(d)
<1>1. Tag(d) \in Tags /\ n \in Names /\ ArgoSpec(d) # None /\ ArgoSpec(d).tag = Tag(d)
  BY Known DEF Inv, ArgoSpec
<1>2. /\ app' = [app EXCEPT ![n] = ArgoSpec(d)]
      /\ pointed' = [pointed EXCEPT ![n] = pointed[n] \cup {Tag(d)}]
  BY <1>1 DEF Point
<1> HIDE DEF n
<1>3. /\ pointed' \in [Names -> SUBSET Tags] /\ DOMAIN app' = Names
      /\ app'[n] = ArgoSpec(d) /\ pointed'[n] = pointed[n] \cup {Tag(d)}
      /\ \A a \in Names : a # n => app'[a] = app[a] /\ pointed'[a] = pointed[a]
  BY <1>1, <1>2 DEF Inv, ArgoInv
<1>4. Grows
  <2>1. \A a \in Names : pointed[a] \subseteq pointed'[a]
    BY <1>3
  <2> QED
    BY <2>1 DEF Grows
<1>5. RequestInv' /\ RegistryInv'
  BY <1>4, RegistryStays DEF Inv, RequestInv
<1>6. Tag(d) \in OwnTags(n)
  BY <1>1 DEF OwnTags, n
<1>7. ASSUME NEW a \in Names PROVE pointed'[a] \subseteq OwnTags(a)'
  <2>1. OwnTags(a) \subseteq OwnTags(a)' /\ pointed[a] \subseteq OwnTags(a)
    BY <1>4, OwnTagsStay DEF Inv, ArgoInv
  <2>2. CASE a = n
    BY <1>3, <1>6, <2>1, <2>2
  <2>3. CASE a # n
    BY <1>3, <2>1, <2>3
  <2> QED
    BY <2>2, <2>3
<1>8. ASSUME NEW a \in Names
      PROVE  /\ pointed'[a] # {} => app'[a] # None
             /\ app'[a] # None => app'[a].tag \in pointed'[a]
             /\ {op'[a], last'[a]} \subseteq pointed'[a] \cup {None}
             /\ live'[a] # None =>
                  /\ live'[a].tag \in pointed'[a] /\ live'[a].by \in Ids
                  /\ request[live[a].by] # None /\ Tag(live[a].by) = live[a].tag
  BY <1>1, <1>3 DEF Inv, ArgoInv
<1>9. ArgoInv'
  BY <1>3, <1>7, <1>8 DEF Inv, ArgoInv, Tag
<1> QED
  BY <1>3, <1>4, <1>5, <1>9 DEF n

LEMMA PostKeeps ==
  ASSUME Inv, NEW d \in Ids, PostApplication(d)
  PROVE  Inv'
<1> DEFINE n == ArgoAppName(d)
<1>1. /\ pc[d] = "post" /\ status' = status
      /\ UNCHANGED <<crashes, request, registry, op, last, live>>
      /\ \/ Point(n, ArgoSpec(d)) /\ (Goto(d, "created") \/ Goto(d, "update"))
         \/ app[n] = ArgoSpec(d) /\ Goto(d, "created") /\ UNCHANGED <<app, pointed>>
         \/ Goto(d, "update") /\ UNCHANGED <<app, pointed>>
  BY DEF PostApplication, Calls, target
<1>2. DriveInv(d) /\ status[d] \in Statuses
  BY DEF Inv, DrivesInv
<1>3. request[d] # None /\ registry[Tag(d)] # None
  BY <1>1, <1>2 DEF DriveInv, Backed, AfterPush
<1>4. "created" \in Places /\ "update" \in Places /\ "update" \notin AfterPoint
  BY DEF Places, AfterPush, AfterPoint
<1>5. CASE Point(n, ArgoSpec(d)) /\ (Goto(d, "created") \/ Goto(d, "update"))
  <2>1. /\ Grows /\ RequestInv' /\ RegistryInv' /\ ArgoInv'
        /\ Tag(d) \in pointed'[n] /\ registry'[Tag(d)] # None
    BY <1>1, <1>3, <1>5, PointKeeps
  <2>2. PICK place \in {"created", "update"} : Goto(d, place)
    BY <1>4, <1>5
  <2>3. DrivesInv'
    BY <1>1, <1>2, <1>3, <1>4, <2>1, <2>2, Advance
  <2> QED
    BY <2>1, <2>3 DEF Inv
<1>6. CASE app[n] = ArgoSpec(d) /\ Goto(d, "created") /\ UNCHANGED <<app, pointed>>
  <2>1. n \in Names /\ app[n] # None /\ app[n].tag = Tag(d)
    BY <1>3, <1>6, Known DEF Inv, ArgoSpec
  <2>2. Tag(d) \in pointed[n]
    BY <2>1 DEF Inv, ArgoInv
  <2>3. Backed(d, "created", status[d])
    BY <1>3, <2>2 DEF Backed
  <2> QED
    BY <1>1, <1>2, <1>3, <1>4, <1>6, <2>3, LocalStep DEF Local
<1>7. CASE Goto(d, "update") /\ UNCHANGED <<app, pointed>>
  <2>1. Backed(d, "update", status[d])
    BY <1>2, <1>3, <1>4 DEF DriveInv, Backed
  <2> QED
    BY <1>1, <1>2, <1>3, <1>4, <1>7, <2>1, LocalStep DEF Local
<1> QED
  BY <1>1, <1>5, <1>6, <1>7

LEMMA PutKeeps ==
  ASSUME Inv, NEW d \in Ids, PutApplication(d)
  PROVE  Inv'
<1> DEFINE n == ArgoAppName(d)
<1>1. /\ pc[d] = "update" /\ Point(n, ArgoSpec(d)) /\ status' = status
      /\ UNCHANGED <<crashes, request, registry, op, last, live>>
      /\ Goto(d, "created") \/ Goto(d, "fail")
  BY DEF PutApplication, Calls
<1>2. DriveInv(d) /\ status[d] \in Statuses
  BY DEF Inv, DrivesInv
<1>3. request[d] # None /\ registry[Tag(d)] # None
  BY <1>1, <1>2 DEF DriveInv, Backed, AfterPush
<1>4. /\ Grows /\ RequestInv' /\ RegistryInv' /\ ArgoInv'
      /\ Tag(d) \in pointed'[n] /\ registry'[Tag(d)] # None
  BY <1>1, <1>3, PointKeeps
<1>5. "created" \in Places
  BY DEF Places
<1>6. CASE Goto(d, "created")
  BY <1>1, <1>2, <1>3, <1>4, <1>5, <1>6, Advance DEF Inv
<1>7. CASE Goto(d, "fail")
  BY <1>1, <1>4, <1>7, Failing DEF Inv
<1> QED
  BY <1>1, <1>6, <1>7

\* An operation is of what the Application points at, or of what it pointed at.
LEMMA OperationKeeps ==
  ASSUME Inv, UNCHANGED <<crashes, request, registry, app, pointed, last, live>>,
         NEW a \in Names, app[a] # None,
         op' \in {op, [op EXCEPT ![a] = app[a].tag]}
  PROVE  Grows /\ RequestInv' /\ RegistryInv' /\ ArgoInv'
<1>1. Grows
  BY DEF Grows
<1>2. RequestInv' /\ RegistryInv'
  BY <1>1, RegistryStays DEF Inv, RequestInv
<1>3. app[a].tag \in pointed[a]
  BY DEF Inv, ArgoInv
<1>4. DOMAIN op' = Names /\ \A b \in Names : op'[b] \in pointed[b] \cup {None}
  BY <1>3 DEF Inv, ArgoInv
<1>5. ASSUME NEW b \in Names PROVE pointed[b] \subseteq OwnTags(b)'
  BY <1>1, OwnTagsStay DEF Inv, ArgoInv
<1>6. ArgoInv'
  BY <1>4, <1>5 DEF Inv, ArgoInv, Tag
<1> QED
  BY <1>1, <1>2, <1>6

LEMMA SyncKeeps ==
  ASSUME Inv, NEW d \in Ids, Sync(d)
  PROVE  Inv'
<1> DEFINE n == ArgoAppName(d)
<1>1. /\ pc[d] = "sync" /\ status' = status
      /\ UNCHANGED <<crashes, request, registry, app, pointed, last, live>>
      /\ op' \in {op, [op EXCEPT ![n] = app[n].tag]}
      /\ Goto(d, "synced") \/ Goto(d, "fail")
  BY DEF Sync, Calls, target
<1>2. DriveInv(d) /\ status[d] \in Statuses
  BY DEF Inv, DrivesInv
<1>3. request[d] # None /\ Backed(d, "synced", status[d]) /\ Tag(d) \in pointed[n]
  BY <1>1, <1>2 DEF DriveInv, Backed, AfterPush, AfterPoint
<1>4. n \in Names /\ app[n] # None
  BY <1>3, Known DEF Inv, ArgoInv
<1>5. Grows /\ RequestInv' /\ RegistryInv' /\ ArgoInv'
  BY <1>1, <1>4, OperationKeeps
<1>6. "synced" \in Places
  BY DEF Places
<1>7. CASE Goto(d, "synced")
  BY <1>1, <1>2, <1>3, <1>5, <1>6, <1>7, Advance DEF Inv, Backed
<1>8. CASE Goto(d, "fail")
  BY <1>1, <1>5, <1>8, Failing DEF Inv
<1> QED
  BY <1>1, <1>7, <1>8

LEMMA DrivesStay ==
  ASSUME Inv, Grows, UNCHANGED <<pc, status>>
  PROVE  DrivesInv'
  BY DriveStays DEF Inv, DrivesInv

LEMMA RefreshKeeps ==
  ASSUME Inv, NEW a \in Names, Refresh(a)
  PROVE  Inv'
<1>1. /\ app[a] # None /\ op' \in {op, [op EXCEPT ![a] = app[a].tag]}
      /\ UNCHANGED <<crashes, request, registry, app, pointed, last, live, pc, status>>
  BY DEF Refresh, drives, target
<1> QED
  BY <1>1, OperationKeeps, DrivesStay DEF Inv

LEMMA EndSyncKeeps ==
  ASSUME Inv, NEW a \in Names, EndSync(a)
  PROVE  Inv'
<1> DEFINE t == op[a]
           now == [tag |-> op[a], by |-> registry[op[a]]]
<1>1. /\ op[a] # None
      /\ UNCHANGED <<crashes, request, registry, app, pointed, pc, status>>
      /\ last' = [last EXCEPT ![a] = op[a]] /\ op' = [op EXCEPT ![a] = None]
      /\ live' \in {live, [live EXCEPT ![a] = now], [live EXCEPT ![a] = None]}
  BY DEF EndSync, drives, target
<1>2. Grows
  BY <1>1 DEF Grows
<1>3. t \in pointed[a] /\ t \in Tags /\ registry[t] # None
  BY <1>1 DEF Inv, ArgoInv, OwnTags
<1>4. registry[t] \in Ids /\ request[registry[t]] # None /\ Tag(registry[t]) = t
  BY <1>3 DEF Inv, RegistryInv
<1>5. now.tag = t /\ now.by = registry[t]
  OBVIOUS
<1> HIDE DEF now
<1>6. ASSUME NEW b \in Names
      PROVE  live'[b] = live[b] \/ live'[b] = None \/ (b = a /\ live'[b] = now)
  BY <1>1 DEF Inv, ArgoInv
<1>7. ASSUME NEW b \in Names, live'[b] # None
      PROVE  /\ live'[b].tag \in pointed[b] /\ live'[b].by \in Ids
             /\ request[live'[b].by] # None
             /\ \A x \in Ids : x = live'[b].by => Tag(x) = live'[b].tag
  <2>1. CASE live'[b] = live[b]
    BY <1>7, <2>1 DEF Inv, ArgoInv
  <2>2. CASE b = a /\ live'[b] = now
    BY <1>3, <1>4, <1>5, <2>2
  <2> QED
    BY <1>6, <1>7, <2>1, <2>2
<1>8. ASSUME NEW b \in Names PROVE pointed[b] \subseteq OwnTags(b)'
  BY <1>2, OwnTagsStay DEF Inv, ArgoInv
<1>9. /\ DOMAIN op' = Names /\ DOMAIN last' = Names /\ DOMAIN live' = Names
      /\ \A b \in Names : {op'[b], last'[b]} \subseteq pointed[b] \cup {None}
  BY <1>1, <1>3 DEF Inv, ArgoInv
<1>10. ArgoInv'
  <2>1. ASSUME NEW b \in Names, live'[b] # None
        PROVE  request'[live'[b].by] # None /\ Tag(live[b].by)' = live'[b].tag
    BY <1>1, <1>7, <2>1 DEF Tag
  <2>2. ASSUME NEW b \in Names
        PROVE  /\ pointed[b] # {} => app[b] # None
               /\ app[b] # None => app[b].tag \in pointed[b]
    BY DEF Inv, ArgoInv
  <2>3. DOMAIN app = Names /\ pointed \in [Names -> SUBSET Tags]
    BY DEF Inv, ArgoInv
  <2> QED
    BY <1>1, <1>7, <1>8, <1>9, <2>1, <2>2, <2>3 DEF ArgoInv
<1>11. RequestInv' /\ RegistryInv' /\ DrivesInv'
  BY <1>1, <1>2, RegistryStays, DrivesStay DEF Inv, RequestInv
<1> QED
  BY <1>10, <1>11 DEF Inv

LEMMA EditKeeps ==
  ASSUME Inv, NEW e \in Edits, EditProject(e)
  PROVE  Inv'
<1>1. Local /\ UNCHANGED <<pc, status>>
  BY DEF EditProject, target, Local
<1> QED
  BY <1>1, LocalKeeps, DrivesStay DEF Inv

LEMMA CrashKeeps ==
  ASSUME Inv, Crash
  PROVE  Inv'
<1>1. /\ UNCHANGED <<request, registry, app, pointed, op, last, live, status>>
      /\ pc' = [d \in Ids |-> "idle"]
  BY DEF Crash, argo
<1>2. Grows
  BY <1>1 DEF Grows
<1>3. RegistryInv' /\ ArgoInv'
  BY <1>1, <1>2, RegistryStays, ArgoStays
<1>4. RequestInv'
  BY BoundsAssumption DEF Crash, Inv, RequestInv
<1>5. ASSUME NEW d \in Ids PROVE DriveInv(d)'
  <2>1. pc'[d] = "idle" /\ status'[d] = status[d] /\ DriveInv(d)
    BY <1>1 DEF Inv, DrivesInv
  <2>2. "idle" \notin AfterPush \cup AfterPoint
    BY DEF AfterPush, AfterPoint
  <2>3. Tag(d)' = Tag(d) /\ ArgoAppName(d)' = ArgoAppName(d)
    BY <1>1, Settled
  <2> QED
    BY <1>1, <2>1, <2>2, <2>3 DEF DriveInv, Backed
<1>6. "idle" \in Places
  BY DEF Places
<1>7. DrivesInv'
  BY <1>1, <1>5, <1>6 DEF Inv, DrivesInv
<1> QED
  BY <1>3, <1>4, <1>7 DEF Inv

LEMMA InvStep == Inv /\ [Next]_vars => Inv'
<1> SUFFICES ASSUME Inv, [Next]_vars PROVE Inv'
  OBVIOUS
<1>1. CASE \E d \in Ids : Drive(d)
  BY <1>1, CreateKeeps, RedeployKeeps, StepKeeps, EndKeeps, CallFailsKeeps, PublishKeeps,
     ValidateKeeps, PostKeeps, PutKeeps, SyncKeeps, PollKeeps DEF Drive
<1>2. CASE \E a \in Names : Refresh(a) \/ EndSync(a)
  BY <1>2, RefreshKeeps, EndSyncKeeps
<1>3. CASE \E e \in Edits : EditProject(e)
  BY <1>3, EditKeeps
<1>4. CASE Crash
  BY <1>4, CrashKeeps
<1>5. CASE UNCHANGED vars
  BY <1>5, LocalKeeps, DrivesStay DEF vars, Local, Inv
<1> QED
  BY <1>1, <1>2, <1>3, <1>4, <1>5 DEF Next

LEMMA Invariant == Spec => []Inv
  BY InitKeeps, InvStep, PTL DEF Spec

(***************************************************************************)
(* What follows.                                                           *)
(***************************************************************************)

\* Whatever is created first, refused, answered too late or driven again, a
\* deployment is only stored as applied when its chart was the target of its
\* Application (client.go:134-143).
THEOREM AppliedIsTargeted == Spec => []AppliedWasTarget
<1>1. Inv => AppliedWasTarget
  BY DEF Inv, DrivesInv, DriveInv, Backed, AppliedWasTarget
<1> QED
  BY <1>1, Invariant, PTL

(***************************************************************************)
(* What was in force while a drive lasted, and what it has been checked    *)
(* against.                                                                *)
(***************************************************************************)

\* What was looked at was in force in this drive.
ForceOf(d) ==
  /\ pc[d] # "idle" => project[request[d].project] \in inForce[d]
  /\ pc[d] \in {"post", "update"} =>
       \E p \in inForce[d] : Permits(p, Source, Server, request[d].namespace)

ForceInv ==
  /\ inForce \in [Ids -> SUBSET Definitions]
  /\ project \in [DOMAIN Project -> Definitions]
  /\ \A d \in Ids : ForceOf(d)

LEMMA ItsProject ==
  ASSUME RequestInv, ForceInv, NEW d \in Ids, request[d] # None
  PROVE  /\ request[d].project \in DOMAIN Project
         /\ project[request[d].project] \in Definitions
         /\ request[d].namespace \in {Request[i].namespace : i \in Ids}
<1>1. PICK i \in Ids, n \in Seconds : request[d] = Accepted(Request[i], n)
  BY DEF RequestInv, Accepteds
<1>2. request[d].project = Request[i].project /\ request[d].namespace = Request[i].namespace
  BY <1>1 DEF Accepted
<1> QED
  BY <1>2, ProjectsAssumption DEF ForceInv

LEMMA ForceInit == Init => ForceInv
<1> SUFFICES ASSUME Init PROVE ForceInv
  OBVIOUS
<1>1. inForce \in [Ids -> SUBSET Definitions] /\ \A d \in Ids : pc[d] = "idle"
  BY DEF Init
<1>2. project \in [DOMAIN Project -> Definitions]
  BY ProjectsAssumption DEF Init, Definitions
<1> QED
  BY <1>1, <1>2 DEF ForceInv, ForceOf

\* A drive begins, or goes on, with its project as it is.
LEMMA ForceGoes ==
  ASSUME ForceInv, NEW d \in Ids, NEW place, pc' = [pc EXCEPT ![d] = place],
         project' = project, DOMAIN pc = Ids,
         \A x \in Ids \ {d} : request'[x] = request[x] /\ inForce'[x] = inForce[x],
         inForce' \in [Ids -> SUBSET Definitions],
         place # "idle" => project[request'[d].project] \in inForce'[d],
         place \in {"post", "update"} =>
           \E p \in inForce'[d] : Permits(p, Source, Server, request'[d].namespace)
  PROVE  ForceInv'
<1>1. ForceOf(d)'
  BY DEF ForceOf
<1>2. ASSUME NEW x \in Ids \ {d} PROVE ForceOf(x)'
  <2>1. ForceOf(x) /\ pc'[x] = pc[x]
    BY DEF ForceInv
  <2> QED
    BY <1>2, <2>1 DEF ForceOf
<1> QED
  BY <1>1, <1>2 DEF ForceInv

LEMMA ForceDrive ==
  ASSUME Inv, ForceInv, NEW d \in Ids, Drive(d)
  PROVE  ForceInv'
<1>pc. DOMAIN pc = Ids /\ request \in [Ids -> {None} \cup Accepteds]
       /\ inForce \in [Ids -> SUBSET Definitions] /\ ForceOf(d)
  BY DEF Inv, DrivesInv, RequestInv, ForceInv
<1>known. pc[d] # "idle" => request[d] # None
  BY DEF Inv, DrivesInv, DriveInv
\* A drive goes on: to a write only from one, or after a look.
<1>goes. ASSUME project' = project, request' = request, inForce' = inForce, pc[d] # "idle",
                NEW place, Goto(d, place),
                place \in {"post", "update"} =>
                  \/ pc[d] \in {"post", "update"}
                  \/ Permits(project[request[d].project], Source, Server,
                             request[d].namespace)
         PROVE  ForceInv'
  <2>1. project[request[d].project] \in inForce[d]
    BY <1>goes, <1>pc DEF ForceOf
  <2>2. place \in {"post", "update"} =>
          \E p \in inForce[d] : Permits(p, Source, Server, request[d].namespace)
    BY <1>goes, <1>pc, <2>1 DEF ForceOf
  <2> QED
    BY <1>goes, <1>pc, <2>1, <2>2, ForceGoes DEF Goto
<1>begins. ASSUME project' = project, NEW p \in DOMAIN Project, NEW place, Begin(d, p, place),
                  place \notin {"post", "update"}, request'[d].project = p,
                  \A x \in Ids \ {d} : request'[x] = request[x]
           PROVE  ForceInv'
  <2>1. pc' = [pc EXCEPT ![d] = place] /\ inForce' = [inForce EXCEPT ![d] = {project[p]}]
    BY <1>begins DEF Begin, Goto
  <2>2. project[p] \in Definitions
    BY <1>begins DEF ForceInv
  <2>3. /\ inForce' \in [Ids -> SUBSET Definitions] /\ inForce'[d] = {project[p]}
        /\ \A x \in Ids \ {d} : inForce'[x] = inForce[x]
    BY <1>pc, <2>1, <2>2
  <2> QED
    BY <1>begins, <1>pc, <2>1, <2>3, ForceGoes
<1>1. CASE \E n \in Seconds : Create(d, n)
  <2>1. PICK n \in Seconds : Create(d, n)
    BY <1>1
  <2>2. /\ project' = project /\ Begin(d, Request[d].project, "publish")
        /\ request' = [request EXCEPT ![d] = Accepted(Request[d], n)]
    BY <2>1 DEF Create, argo
  <2>3. request'[d].project = Request[d].project
    BY <1>pc, <2>2 DEF Accepted
  <2> QED
    BY <1>pc, <1>begins, <2>2, <2>3, ProjectsAssumption
<1>2. CASE Redeploy(d)
  <2>1. /\ project' = project /\ request' = request
        /\ Begin(d, request[d].project, Stage[status[d]])
        /\ status[d] \in {"ARTIFACT_PUBLISHED", "ARGO_APP_CREATED", "SYNCING", "HEALTHY"}
    BY <1>2 DEF Redeploy, argo
  <2>2. request[d] # None /\ Stage[status[d]] \notin {"post", "update"}
    BY <2>1, Stages DEF Inv, DrivesInv, DriveInv
  <2>3. request[d].project \in DOMAIN Project
    BY <2>2, ItsProject DEF Inv
  <2> QED
    BY <1>begins, <2>1, <2>2, <2>3
<1>3. CASE Step(d)
  <2>1. /\ project' = project /\ request' = request /\ inForce' = inForce
        /\ pc[d] \in DOMAIN Saves /\ Goto(d, Stage[Saves[pc[d]]])
    BY <1>3 DEF Step, argo
  <2>2. pc[d] # "idle" /\ Stage[Saves[pc[d]]] \notin {"post", "update"}
    BY <2>1, Stages
  <2> QED
    BY <1>goes, <2>1, <2>2
<1>4. CASE End(d)
  <2>1. /\ project' = project /\ request' = request /\ Goto(d, "idle")
        /\ inForce' = [inForce EXCEPT ![d] = {}]
    BY <1>4 DEF End, argo
  <2>2. /\ inForce' \in [Ids -> SUBSET Definitions]
        /\ \A x \in Ids \ {d} : inForce'[x] = inForce[x]
    BY <1>pc, <2>1
  <2> QED
    BY <1>pc, <2>1, <2>2, ForceGoes DEF Goto
<1>5. CASE CallFails(d)
  BY <1>5, <1>goes DEF CallFails, Calls, argo
<1>6. CASE Publish(d)
  BY <1>6, <1>goes DEF Publish, Calls, argo
<1>7. CASE ValidateProject(d)
  <2>1. /\ project' = project /\ request' = request /\ inForce' = inForce
        /\ pc[d] = "validate"
        /\ \/ /\ Goto(d, "post")
              /\ Permits(project[request[d].project], Source, Server, request[d].namespace)
           \/ Goto(d, "fail")
    BY <1>7 DEF ValidateProject, Calls, argo
  <2> QED
    BY <1>goes, <2>1
<1>8. CASE PostApplication(d)
  BY <1>8, <1>goes DEF PostApplication, Calls
<1>9. CASE PutApplication(d)
  BY <1>9, <1>goes DEF PutApplication, Calls
<1>10. CASE Sync(d)
  BY <1>10, <1>goes DEF Sync, Calls
<1>11. CASE Poll(d)
  <2>1. /\ project' = project /\ request' = request /\ inForce' = inForce /\ pc[d] = "poll"
        /\ \E place \in {"healthy", "degraded"} : Goto(d, place)
    BY <1>11 DEF Poll, argo
  <2> QED
    BY <1>goes, <2>1
<1> QED
  BY <1>1, <1>2, <1>3, <1>4, <1>5, <1>6, <1>7, <1>8, <1>9, <1>10, <1>11 DEF Drive

\* An edit is in force for every drive under way.
LEMMA ForceEdit ==
  ASSUME Inv, ForceInv, NEW e \in Edits, EditProject(e)
  PROVE  ForceInv'
<1>1. /\ project' = [project EXCEPT ![e.project] = e.definition]
      /\ inForce' = [d \in Ids |-> IF pc[d] # "idle" /\ request[d].project = e.project
                                   THEN inForce[d] \cup {e.definition}
                                   ELSE inForce[d]]
      /\ pc' = pc /\ request' = request
  BY DEF EditProject
<1>2. e.definition \in Definitions /\ e.project \in DOMAIN Project
  BY ProjectsAssumption DEF Definitions
<1>3. inForce' \in [Ids -> SUBSET Definitions]
  BY <1>1, <1>2 DEF ForceInv
<1>4. project' \in [DOMAIN Project -> Definitions]
  BY <1>1, <1>2 DEF ForceInv
<1>5. ASSUME NEW d \in Ids PROVE ForceOf(d)'
  <2>1. inForce[d] \subseteq inForce'[d] /\ ForceOf(d)
    BY <1>1 DEF ForceInv
  <2>2. CASE pc[d] # "idle" /\ request[d].project = e.project
    <3>1. e.definition \in inForce'[d] /\ project'[request[d].project] = e.definition
      BY <1>1, <1>2, <2>2 DEF ForceInv
    <3> QED
      BY <1>1, <2>1, <3>1 DEF ForceOf
  <2>3. CASE pc[d] # "idle" /\ request[d].project # e.project
    <3>1. request[d].project \in DOMAIN Project
      BY <2>3, ItsProject DEF Inv, DrivesInv, DriveInv
    <3>2. project'[request[d].project] = project[request[d].project]
      BY <1>1, <2>3, <3>1 DEF ForceInv
    <3> QED
      BY <1>1, <2>1, <3>2 DEF ForceOf
  <2>4. CASE pc[d] = "idle"
    BY <1>1, <2>4 DEF ForceOf
  <2> QED
    BY <2>2, <2>3, <2>4
<1> QED
  BY <1>3, <1>4, <1>5 DEF ForceInv

LEMMA ForceStep == Inv /\ ForceInv /\ [Next]_vars => ForceInv'
<1> SUFFICES ASSUME Inv, ForceInv, [Next]_vars PROVE ForceInv'
  OBVIOUS
<1>same. ASSUME UNCHANGED <<pc, request, inForce, project>> PROVE ForceInv'
  BY <1>same DEF ForceInv, ForceOf
<1>1. CASE \E d \in Ids : Drive(d)
  BY <1>1, ForceDrive
<1>2. CASE \E a \in Names : Refresh(a) \/ EndSync(a)
  BY <1>2, <1>same DEF Refresh, EndSync, drives
<1>3. CASE \E e \in Edits : EditProject(e)
  BY <1>3, ForceEdit
<1>4. CASE Crash
  <2>1. /\ project' = project /\ \A d \in Ids : pc'[d] = "idle"
        /\ inForce' \in [Ids -> SUBSET Definitions]
    BY <1>4 DEF Crash, argo
  <2> QED
    BY <2>1 DEF ForceInv, ForceOf
<1>5. CASE UNCHANGED vars
  BY <1>5, <1>same DEF vars
<1> QED
  BY <1>1, <1>2, <1>3, <1>4, <1>5 DEF Next

LEMMA Enforced == Spec => []ForceInv
  BY InitKeeps, InvStep, ForceInit, ForceStep, PTL DEF Spec

\* The loops of ValidateProject admit no more than what the project spells out.
LEMMA PermittedIsAllowed ==
  ASSUME NEW p, NEW n \in {Request[d].namespace : d \in Ids},
         Permits(p, Source, Server, n)
  PROVE  <<Source, Server, n>> \in Allowed(p)
<1>1. PICK s \in p.sources : Admits(s, Source)
  BY DEF Permits
<1>2. PICK x \in p.destinations : Admits(x.server, Server) /\ Admits(x.namespace, n)
  BY DEF Permits
<1>3. /\ Source \in Spelled(s, {Source, "elsewhere"})
      /\ Server \in Spelled(x.server, {Server, "other"})
      /\ n \in Spelled(x.namespace, {Request[d].namespace : d \in Ids})
  BY <1>1, <1>2 DEF Admits, Spelled
<1> DEFINE triples(t, y) ==
             Spelled(t, {Source, "elsewhere"}) \X Spelled(y.server, {Server, "other"})
               \X Spelled(y.namespace, {Request[d].namespace : d \in Ids})
<1>4. <<Source, Server, n>> \in triples(s, x)
  BY <1>3
<1>5. Allowed(p) = UNION {triples(t, y) : t \in p.sources, y \in p.destinations}
  BY DEF Allowed
<1> HIDE DEF triples
<1> QED
  BY <1>4, <1>5

\* Only the two writes of CreateOrUpdate point an Application at a chart.
LEMMA OnlyWritesPoint ==
  ASSUME [Next]_vars, NEW a \in Names, app'[a] # app[a]
  PROVE  \E d \in Ids : PostApplication(d) \/ PutApplication(d)
<1>1. ASSUME NEW d \in Ids, Drive(d) PROVE PostApplication(d) \/ PutApplication(d)
  BY <1>1 DEF Drive, Create, Redeploy, Step, End, CallFails, Publish, ValidateProject, Sync,
              Poll, argo, target
<1>2. ~\E b \in Names : Refresh(b) \/ EndSync(b)
  BY DEF Refresh, EndSync, target
<1>3. ~Crash /\ ~UNCHANGED vars /\ ~\E e \in Edits : EditProject(e)
  BY DEF Crash, EditProject, argo, target, vars
<1> QED
  BY <1>1, <1>2, <1>3 DEF Next

\* Whatever administrators make of the projects meanwhile, and however often a drive is
\* interrupted and resumed, an Application is only pointed, by the POST or the PUT, at
\* what its project allowed at some time of that drive, and the loops that check it
\* admit no more than the project spells out (client.go:55-98, execute.go:241-253).
THEOREM TargetsAreAllowed == Spec => TargetIsAllowed
<1>1. ASSUME Inv, ForceInv, [Next]_vars, NEW a \in Names, app'[a] # app[a]
      PROVE  \E d \in Ids :
               /\ pc'[d] # pc[d] /\ ArgoAppName(d) = a
               /\ \E p \in inForce[d] : <<Source, Server, request[d].namespace>> \in Allowed(p)
  <2>1. PICK d \in Ids : PostApplication(d) \/ PutApplication(d)
    BY <1>1, OnlyWritesPoint
  <2>2. /\ pc[d] \in {"post", "update"} /\ app' = [app EXCEPT ![ArgoAppName(d)] = ArgoSpec(d)]
        /\ \E place \in {"created", "update", "fail"} : Goto(d, place) /\ place # pc[d]
    BY <1>1, <2>1 DEF PostApplication, PutApplication, Calls, Point, target
  <2>3. ArgoAppName(d) = a
    BY <1>1, <2>2 DEF Inv, ArgoInv
  <2>4. pc'[d] # pc[d]
    <3>1. PICK place \in {"created", "update", "fail"} : Goto(d, place) /\ place # pc[d]
      BY <2>2
    <3> QED
      BY <1>1, <3>1 DEF Goto, Inv, DrivesInv
  <2>5. PICK p \in inForce[d] : Permits(p, Source, Server, request[d].namespace)
    BY <1>1, <2>2 DEF ForceInv, ForceOf
  <2>6. request[d].namespace \in {Request[i].namespace : i \in Ids}
    BY <1>1, <2>2, ItsProject DEF Inv, DrivesInv, DriveInv
  <2> QED
    BY <2>3, <2>4, <2>5, <2>6, PermittedIsAllowed
<1>2. Inv /\ ForceInv /\ [Next]_vars =>
        [\A a \in Names :
           app'[a] # app[a] =>
             \E d \in Ids :
               /\ pc'[d] # pc[d] /\ ArgoAppName(d) = a
               /\ \E p \in inForce[d] :
                    <<Source, Server, request[d].namespace>> \in Allowed(p)]_vars
  BY <1>1
<1> QED
  BY <1>2, Invariant, Enforced, PTL DEF Spec, TargetIsAllowed

(***************************************************************************)
(* RunsItsOwn, which the run "collided" violates, and what its violation   *)
(* takes: two requests of one second.                                      *)
(***************************************************************************)

\* No two deployments of one application and commit were accepted in one second, but
\* for one Application.
NoSharedSecond ==
  \A d, x \in Ids :
    request[d] # None /\ request[x] # None /\ Tag(d) = Tag(x) =>
      ArgoAppName(d) = ArgoAppName(x)

\* RunsItsOwn is violated through two requests of one second, and in no other way: not
\* by a chart pushed while an older one is synced, nor by a shared repository
\* (valueobject.go:43-50).
THEOREM CollidedOnlyInOneSecond == Spec => [](NoSharedSecond => RunsItsOwn)
<1>1. ASSUME Inv, NoSharedSecond, NEW a \in Names, live[a] # None
      PROVE  ArgoAppName(live[a].by) = a
  <2>1. /\ live[a].tag \in pointed[a] /\ live[a].by \in Ids
        /\ request[live[a].by] # None /\ Tag(live[a].by) = live[a].tag
    BY <1>1 DEF Inv, ArgoInv
  <2>2. PICK d \in Ids : request[d] # None /\ ArgoAppName(d) = a /\ Tag(d) = live[a].tag
    BY <2>1, <1>1 DEF Inv, ArgoInv, OwnTags
  <2> QED
    BY <1>1, <2>1, <2>2 DEF NoSharedSecond
<1>2. Inv => (NoSharedSecond => RunsItsOwn)
  BY <1>1 DEF RunsItsOwn
<1> QED
  BY <1>2, Invariant, PTL

\* Every variable keeps its type, and an Application only points at a tag that
\* was pushed (publisher.go:44-81).
THEOREM TypeCorrect == Spec => []TypeOK
<1>1. ASSUME Inv, ForceInv PROVE TypeOK
  <2>1. ASSUME NEW a \in Names
        PROVE  /\ pointed[a] \subseteq {t \in Tags : registry[t] # None}
               /\ {op[a], last[a]} \subseteq pointed[a] \cup {None}
               /\ live[a] # None => live[a].tag \in pointed[a] /\ live[a].by \in Ids
    BY <1>1 DEF Inv, ArgoInv, OwnTags
  <2>2. inForce \in [Ids -> SUBSET Definitions] /\ project \in [DOMAIN Project -> Definitions]
    BY <1>1 DEF ForceInv
  <2> QED
    BY <1>1, <2>1, <2>2 DEF Inv, RequestInv, RegistryInv, DrivesInv, TypeOK
<1> QED
  BY <1>1, Invariant, Enforced, PTL

(***************************************************************************)
(* CompletedWasSynced, which the run "unsynced" violates, and what its     *)
(* violation takes: that another chart was pointed at before, so that the  *)
(* health Argo CD reports is that of what ran already.                     *)
(***************************************************************************)

\* An Application that was never pointed at a second chart.
PointedOnce(a) == \A t, u \in pointed[a] : t = u

\* A deployment that met the answer Healthy.
Confirmed(d) == pc[d] \in {"healthy", "complete"} \/ status[d] \in {"HEALTHY", "COMPLETED"}

ReportInv ==
  /\ DOMAIN seen = Names /\ DOMAIN health = Ids
  /\ \A a \in Names :
       PointedOnce(a) /\ seen[a].health = "Healthy" => seen[a].sync = "Synced"
  /\ \A d \in Ids :
       /\ Confirmed(d) /\ PointedOnce(ArgoAppName(d)) => health[d].sync = "Synced"
       /\ pc[d] = "poll" => status[d] = "SYNCING"

\* A step of the driver of d: the status of Argo CD stays, and d meets the
\* answer Healthy only in it.
Reports(d) ==
  /\ seen' = seen /\ DOMAIN health' = Ids
  /\ \A a \in Names : pointed[a] \subseteq pointed'[a]
  /\ \A x \in Ids \ {d} :
       /\ request'[x] = request[x] /\ pc'[x] = pc[x]
       /\ status'[x] = status[x] /\ health'[x] = health[x]
  /\ pc'[d] = "poll" => status'[d] = "SYNCING"
  /\ Confirmed(d)' =>
       /\ request'[d] = request[d] /\ request[d] # None
       /\ \/ Confirmed(d) /\ health'[d] = health[d]
          \/ health'[d] = seen[ArgoAppName(d)] /\ health'[d].health = "Healthy"

LEMMA ReportKept ==
  ASSUME Inv, ReportInv, NEW d \in Ids, Reports(d)
  PROVE  ReportInv'
<1>1. \A a \in Names : PointedOnce(a)' => PointedOnce(a)
  BY DEF Reports, PointedOnce
<1>2. \A a \in Names :
        PointedOnce(a)' /\ seen'[a].health = "Healthy" => seen'[a].sync = "Synced"
  BY <1>1 DEF ReportInv, Reports
<1>3. ASSUME NEW x \in Ids, Confirmed(x)', PointedOnce(ArgoAppName(x))'
      PROVE  health'[x].sync = "Synced"
  <2>1. request'[x] = request[x] /\ request[x] # None
    <3>1. CASE x = d
      BY <1>3, <3>1 DEF Reports
    <3>2. CASE x # d
      <4>1. Confirmed(x) /\ request'[x] = request[x]
        BY <1>3, <3>2 DEF Reports, Confirmed
      <4>2. request[x] # None
        BY <4>1 DEF Confirmed, Inv, DrivesInv, DriveInv
      <4> QED
        BY <4>1, <4>2
    <3> QED
      BY <3>1, <3>2
  <2>2. ArgoAppName(x)' = ArgoAppName(x) /\ ArgoAppName(x) \in Names
    BY <2>1, Settled, Known DEF Inv
  <2>3. PointedOnce(ArgoAppName(x))
    <3> DEFINE n == ArgoAppName(x)
    <3>1. \A t, u \in pointed'[n] : t = u
      BY <1>3, <2>2 DEF PointedOnce
    <3>2. pointed[n] \subseteq pointed'[n]
      BY <2>2 DEF Reports
    <3> QED
      BY <3>1, <3>2 DEF PointedOnce
  <2>4. CASE Confirmed(x) /\ health'[x] = health[x]
    BY <2>3, <2>4 DEF ReportInv
  <2>5. CASE health'[x] = seen[ArgoAppName(x)] /\ health'[x].health = "Healthy"
    BY <2>2, <2>3, <2>5 DEF ReportInv
  <2> QED
    BY <1>3, <2>4, <2>5 DEF Reports, Confirmed
<1>4. \A x \in Ids : pc'[x] = "poll" => status'[x] = "SYNCING"
  BY DEF ReportInv, Reports
<1> QED
  BY <1>2, <1>3, <1>4 DEF ReportInv, Reports

LEMMA DriveReports ==
  ASSUME Inv, ReportInv, NEW d \in Ids, Drive(d)
  PROVE  Reports(d)
<1>fun. /\ pc \in [Ids -> Places] /\ status \in [Ids -> Statuses] /\ DOMAIN health = Ids
        /\ request \in [Ids -> {None} \cup Accepteds]
  BY DEF Inv, DrivesInv, ReportInv, RequestInv
<1>known. pc[d] # "idle" => request[d] # None
  BY DEF Inv, DrivesInv, DriveInv
<1>confirmed. Confirmed(d) => request[d] # None
  BY DEF Confirmed, Inv, DrivesInv, DriveInv
\* A step that does not meet the answer.
<1>step. ASSUME seen' = seen, request' = request, health' = health,
                pointed' = pointed \/ \E a, spec : Point(a, spec),
                NEW place, Goto(d, place), NEW result,
                \/ status' = [status EXCEPT ![d] = result]
                \/ status' = status /\ result = status[d],
                place \in {"healthy", "complete"} \/ result \in {"HEALTHY", "COMPLETED"} =>
                  Confirmed(d),
                place = "poll" => result = "SYNCING"
         PROVE  Reports(d)
  <2>1. \A a \in Names : pointed[a] \subseteq pointed'[a]
    <3>1. CASE pointed' = pointed
      BY <3>1
    <3>2. ASSUME NEW a, NEW spec, Point(a, spec)
          PROVE  \A b \in Names : pointed[b] \subseteq pointed'[b]
      BY <3>2 DEF Point, Inv, ArgoInv
    <3> QED
      BY <1>step, <3>1, <3>2
  <2>2. \A x \in Ids \ {d} : pc'[x] = pc[x] /\ status'[x] = status[x]
    BY <1>fun, <1>step DEF Goto
  <2>3. pc'[d] = place /\ status'[d] = result
    BY <1>fun, <1>step DEF Goto
  <2>4. Confirmed(d)' => Confirmed(d)
    BY <1>step, <2>3 DEF Confirmed
  <2> QED
    BY <1>fun, <1>confirmed, <1>step, <2>1, <2>2, <2>3, <2>4 DEF Reports
\* A call: the record stays.
<1>call. ASSUME seen' = seen, pointed' = pointed \/ \E a, spec : Point(a, spec),
                NEW place, Calls(d, place), place \notin {"healthy", "complete", "poll"},
                status[d] \notin {"HEALTHY", "COMPLETED"} \/ Confirmed(d)
         PROVE  Reports(d)
  BY <1>call, <1>step DEF Calls, Confirmed
<1>record. status[d] \notin {"HEALTHY", "COMPLETED"} \/ Confirmed(d)
  BY DEF Confirmed
<1>1. CASE \E n \in Seconds : Create(d, n)
  <2>1. PICK n \in Seconds : Create(d, n)
    BY <1>1
  <2>2. /\ seen' = seen /\ pointed' = pointed /\ health' = health
        /\ request' = [request EXCEPT ![d] = Accepted(Request[d], n)]
        /\ pc' = [pc EXCEPT ![d] = "publish"]
        /\ status' = [status EXCEPT ![d] = "CHART_COMPOSED"]
    BY <2>1 DEF Create, Begin, Goto, argo
  <2>3. pc'[d] = "publish" /\ ~Confirmed(d)'
    BY <1>fun, <2>2 DEF Confirmed
  <2> QED
    BY <1>fun, <2>2, <2>3 DEF Reports
<1>2. CASE Redeploy(d)
  <2>1. /\ seen' = seen /\ pointed' = pointed /\ request' = request /\ health' = health
        /\ status' = status /\ Goto(d, Stage[status[d]])
        /\ status[d] \in {"ARTIFACT_PUBLISHED", "ARGO_APP_CREATED", "SYNCING", "HEALTHY"}
    BY <1>2 DEF Redeploy, Begin, argo
  <2>2. /\ Stage[status[d]] # "healthy"
        /\ Stage[status[d]] = "complete" => status[d] = "HEALTHY"
        /\ Stage[status[d]] = "poll" => status[d] = "SYNCING"
    BY <2>1, Stages
  <2> QED
    BY <1>step, <2>1, <2>2 DEF Confirmed
<1>3. CASE Step(d)
  <2>1. /\ seen' = seen /\ pointed' = pointed /\ request' = request /\ health' = health
        /\ status' = [status EXCEPT ![d] = Saves[pc[d]]]
        /\ Goto(d, Stage[Saves[pc[d]]]) /\ pc[d] \in DOMAIN Saves
    BY <1>3 DEF Step, argo
  <2>2. /\ Stage[Saves[pc[d]]] # "healthy" /\ Saves[pc[d]] # "COMPLETED"
        /\ Stage[Saves[pc[d]]] = "complete" => pc[d] = "healthy"
        /\ Saves[pc[d]] = "HEALTHY" => pc[d] = "healthy"
        /\ Stage[Saves[pc[d]]] = "poll" => Saves[pc[d]] = "SYNCING"
    BY <2>1, Stages
  <2>3. /\ Stage[Saves[pc[d]]] \in {"healthy", "complete"} => Confirmed(d)
        /\ Saves[pc[d]] \in {"HEALTHY", "COMPLETED"} => Confirmed(d)
    BY <2>2 DEF Confirmed
  <2> DEFINE result == Saves[pc[d]]
             place == Stage[result]
  <2>4. /\ Goto(d, place) /\ status' = [status EXCEPT ![d] = result]
        /\ place \in {"healthy", "complete"} \/ result \in {"HEALTHY", "COMPLETED"} =>
             Confirmed(d)
        /\ place = "poll" => result = "SYNCING"
    BY <2>1, <2>2, <2>3
  <2> HIDE DEF place, result
  <2> QED
    BY <1>step, <2>1, <2>4
<1>4. CASE End(d)
  <2>1. /\ seen' = seen /\ pointed' = pointed /\ request' = request /\ health' = health
        /\ status' = [status EXCEPT ![d] = Ends[pc[d]]]
        /\ Goto(d, "idle") /\ pc[d] \in {"complete", "fail"}
    BY <1>4, Stages DEF End, argo
  <2>2. Ends[pc[d]] \in {"HEALTHY", "COMPLETED"} => pc[d] = "complete"
    BY <2>1, Stages
  <2> DEFINE place == "idle"
             result == Ends[pc[d]]
  <2>3. /\ Goto(d, place) /\ status' = [status EXCEPT ![d] = result]
        /\ place \in {"healthy", "complete"} \/ result \in {"HEALTHY", "COMPLETED"} =>
             Confirmed(d)
        /\ place # "poll"
    BY <2>1, <2>2 DEF Confirmed
  <2> HIDE DEF place, result
  <2> QED
    BY <1>step, <2>1, <2>3
<1>5. CASE CallFails(d)
  BY <1>5, <1>call, <1>record DEF CallFails, argo
<1>6. CASE Publish(d)
  BY <1>6, <1>call, <1>record DEF Publish, argo
<1>7. CASE ValidateProject(d)
  <2>1. \E place \in {"post", "fail"} : Calls(d, place)
    BY <1>7 DEF ValidateProject
  <2> QED
    BY <1>7, <1>call, <1>record, <2>1 DEF ValidateProject, argo
<1>8. CASE PostApplication(d)
  BY <1>8, <1>call, <1>record DEF PostApplication, target
<1>9. CASE PutApplication(d)
  BY <1>9, <1>call, <1>record DEF PutApplication
<1>10. CASE Sync(d)
  BY <1>10, <1>call, <1>record DEF Sync, target
<1>11. CASE Poll(d)
  <2>1. /\ seen' = seen /\ pointed' = pointed /\ request' = request /\ status' = status
        /\ pc[d] = "poll" /\ health' = [health EXCEPT ![d] = seen[ArgoAppName(d)]]
        /\ pc' = [pc EXCEPT ![d] = IF seen[ArgoAppName(d)].health = "Healthy"
                                   THEN "healthy" ELSE "degraded"]
    BY <1>11 DEF Poll, Status, Goto, argo
  <2>2. \A x \in Ids \ {d} :
          /\ request'[x] = request[x] /\ pc'[x] = pc[x]
          /\ status'[x] = status[x] /\ health'[x] = health[x]
    BY <1>fun, <2>1
  <2>3. health'[d] = seen[ArgoAppName(d)] /\ status[d] = "SYNCING"
    BY <1>fun, <2>1 DEF ReportInv
  <2>4. Confirmed(d)' => seen[ArgoAppName(d)].health = "Healthy"
    BY <1>fun, <2>1, <2>3 DEF Confirmed
  <2>5. pc'[d] # "poll"
    BY <1>fun, <2>1
  <2> QED
    BY <1>fun, <1>known, <2>1, <2>2, <2>3, <2>4, <2>5 DEF Reports
<1> QED
  BY <1>1, <1>2, <1>3, <1>4, <1>5, <1>6, <1>7, <1>8, <1>9, <1>10, <1>11 DEF Drive

\* What Argo CD writes of an Application with one chart: what runs is that chart.
LEMMA RefreshReports ==
  ASSUME Inv, ReportInv, NEW a \in Names, Refresh(a)
  PROVE  ReportInv'
<1>1. PICK h \in IF live[a] = None THEN {"Degraded"} ELSE {"Healthy", "Degraded"} :
             seen' = [seen EXCEPT ![a] = [sync |-> IF Synced(a) THEN "Synced" ELSE "OutOfSync",
                                          health |-> h]]
  BY DEF Refresh
<1>2. app[a] # None /\ pointed' = pointed /\ request' = request /\ pc' = pc
      /\ status' = status /\ health' = health
  BY DEF Refresh, drives, target
<1>3. h = "Healthy" /\ PointedOnce(a) => Synced(a)
  <2>1. SUFFICES ASSUME h = "Healthy", PointedOnce(a) PROVE Synced(a)
    OBVIOUS
  <2>2. live[a] # None
    BY <1>1, <2>1
  <2>3. live[a].tag \in pointed[a] /\ app[a].tag \in pointed[a]
    BY <1>2, <2>2 DEF Inv, ArgoInv
  <2> QED
    BY <2>1, <2>2, <2>3 DEF PointedOnce, Synced
<1>4. /\ DOMAIN seen' = Names
      /\ seen'[a].health = h /\ (Synced(a) => seen'[a].sync = "Synced")
      /\ \A b \in Names \ {a} : seen'[b] = seen[b]
  BY <1>1 DEF ReportInv
<1>5. /\ \A b \in Names : PointedOnce(b)' <=> PointedOnce(b)
      /\ \A d \in Ids : /\ Confirmed(d)' <=> Confirmed(d)
                        /\ PointedOnce(ArgoAppName(d))' <=> PointedOnce(ArgoAppName(d))
  BY <1>2 DEF PointedOnce, Confirmed, ArgoAppName
<1>6. \A b \in Names :
        PointedOnce(b)' /\ seen'[b].health = "Healthy" => seen'[b].sync = "Synced"
  BY <1>3, <1>4, <1>5 DEF ReportInv
<1> QED
  BY <1>2, <1>4, <1>5, <1>6 DEF ReportInv

LEMMA ReportStep == Inv /\ ReportInv /\ [Next]_vars => ReportInv'
<1> SUFFICES ASSUME Inv, ReportInv, [Next]_vars PROVE ReportInv'
  OBVIOUS
\* Nothing is written of an Application, and no driver goes on.
<1>same. ASSUME UNCHANGED <<pointed, request, status, health, seen>>,
                \A d \in Ids : pc'[d] \in {pc[d], "idle"}
         PROVE  ReportInv'
  <2>1. /\ \A a \in Names : PointedOnce(a)' <=> PointedOnce(a)
        /\ \A d \in Ids : /\ Confirmed(d)' => Confirmed(d)
                          /\ PointedOnce(ArgoAppName(d))' <=> PointedOnce(ArgoAppName(d))
    BY <1>same DEF PointedOnce, Confirmed, ArgoAppName
  <2> QED
    BY <1>same, <2>1 DEF ReportInv
<1>1. CASE \E d \in Ids : Drive(d)
  BY <1>1, DriveReports, ReportKept
<1>2. CASE \E a \in Names : Refresh(a)
  BY <1>2, RefreshReports
<1>3. CASE \E a \in Names : EndSync(a)
  BY <1>3, <1>same DEF EndSync, drives, target
<1>4. CASE \E e \in Edits : EditProject(e)
  BY <1>4, <1>same DEF EditProject, target
<1>5. CASE Crash
  BY <1>5, <1>same DEF Crash, argo
<1>6. CASE UNCHANGED vars
  BY <1>6, <1>same DEF vars
<1> QED
  BY <1>1, <1>2, <1>3, <1>4, <1>5, <1>6 DEF Next

LEMMA ReportInit == Init => ReportInv
<1> SUFFICES ASSUME Init PROVE ReportInv
  OBVIOUS
<1>1. DOMAIN seen = Names /\ DOMAIN health = Ids
  BY DEF Init
<1>2. \A a \in Names : seen[a].health = ""
  BY DEF Init, Unknown
<1>3. \A d \in Ids : ~Confirmed(d) /\ pc[d] # "poll"
  BY DEF Init, Confirmed
<1> QED
  BY <1>1, <1>2, <1>3 DEF ReportInv

\* A deployment whose Application has not been pointed at another chart, before
\* or since, completes only when Argo CD reported Synced and Healthy: what the
\* poll does not look at, the sync status, only matters where another chart ran
\* before (execute.go, pollHealth).
THEOREM FirstCompletedWasSynced ==
  Spec => [](\A d \in Ids : (status[d] = "COMPLETED" /\ PointedOnce(ArgoAppName(d)))
                              => health[d].sync = "Synced")
<1>1. ReportInv => \A d \in Ids : (status[d] = "COMPLETED" /\ PointedOnce(ArgoAppName(d)))
                                    => health[d].sync = "Synced"
  BY DEF ReportInv, Confirmed
<1> QED
  BY <1>1, ReportInit, ReportStep, InitKeeps, InvStep, PTL DEF Spec

\* CompletedWasSynced is violated through an Application that two charts were
\* pointed at, and in no other way.
THEOREM UnsyncedOnlyIfRepointed ==
  Spec => []((\A a \in Names : PointedOnce(a)) => CompletedWasSynced)
<1>1. Inv /\ ReportInv => ((\A a \in Names : PointedOnce(a)) => CompletedWasSynced)
  <2> SUFFICES ASSUME Inv, ReportInv, \A a \in Names : PointedOnce(a),
                      NEW d \in Ids, status[d] = "COMPLETED"
               PROVE  health[d].sync = "Synced"
    BY DEF CompletedWasSynced
  <2>1. ArgoAppName(d) \in Names
    BY Known DEF Inv, DrivesInv, DriveInv
  <2> QED
    BY <2>1 DEF ReportInv, Confirmed
<1> QED
  BY <1>1, ReportInit, ReportStep, InitKeeps, InvStep, PTL DEF Spec
===========================================================================
