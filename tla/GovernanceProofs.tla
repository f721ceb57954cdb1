-------------------------- MODULE GovernanceProofs --------------------------
(***************************************************************************)
(* What the gates of module Governance guarantee of the composed chart,    *)
(* for every request, umbrella chart and configuration, and for every      *)
(* change of configuration between the gates and the composition.          *)
(***************************************************************************)
EXTENDS Governance, SequenceTheorems, FiniteSetTheorems, NaturalsInduction,
        WellFoundedInduction, TLAPS

(***************************************************************************)
(* Trees.                                                                  *)
(***************************************************************************)

\* A tree has every path above one it has.
LEMMA PathsAbove ==
  ASSUME NEW t, IsTree(t), NEW p \in DOMAIN t, NEW s \in Seq(Keys), s # <<>>,
         IsPrefix(s, p)
  PROVE  s \in DOMAIN t
<1>1. p \in Seq(Keys) /\ Len(s) \in 1 .. Len(p)
  BY DEF IsTree, IsPrefix
<1>2. s = SubSeq(p, 1, Len(s))
  BY SubSeqFull DEF IsPrefix
<1>3. CASE Len(s) = Len(p)
  BY <1>1, <1>2, <1>3, SubSeqFull
<1>4. CASE Len(s) \in 1 .. Len(p) - 1
  BY <1>2, <1>4 DEF IsTree
<1> QED
  BY <1>1, <1>3, <1>4

LEMMA MergeDomain ==
  ASSUME NEW low, NEW high
  PROVE  DOMAIN Merge(low, high) =
           {p \in DOMAIN low : \A q \in DOMAIN high : IsStrictPrefix(q, p) => high[q] = Map}
           \cup DOMAIN high
  BY DEF Merge

\* A path is in a merge if it is in the upper tree, or in the lower one with
\* nothing but maps of the upper one above it.
LEMMA MergeHas ==
  ASSUME NEW low, NEW high, NEW p
  PROVE  p \in DOMAIN Merge(low, high) <=>
           \/ /\ p \in DOMAIN low
              /\ \A q \in DOMAIN high : IsStrictPrefix(q, p) => high[q] = Map
           \/ p \in DOMAIN high
<1> DEFINE kept == {x \in DOMAIN low :
                      \A q \in DOMAIN high : IsStrictPrefix(q, x) => high[q] = Map}
<1>1. DOMAIN Merge(low, high) = kept \cup DOMAIN high
  BY MergeDomain, Zenon
<1>2. p \in kept <=> /\ p \in DOMAIN low
                     /\ \A q \in DOMAIN high : IsStrictPrefix(q, p) => high[q] = Map
  BY Zenon
<1> HIDE DEF kept
<1> QED
  BY <1>1, <1>2, Zenon

LEMMA MergeValue ==
  ASSUME NEW low, NEW high, NEW p \in DOMAIN Merge(low, high)
  PROVE  /\ p \in DOMAIN high => Merge(low, high)[p] = high[p]
         /\ p \notin DOMAIN high => p \in DOMAIN low /\ Merge(low, high)[p] = low[p]
  BY DEF Merge

LEMMA MergeLow ==
  ASSUME NEW low, NEW high, NEW p \in DOMAIN Merge(low, high), p \notin DOMAIN high
  PROVE  Merge(low, high)[p] = low[p]
  BY MergeValue

\* The empty overlay changes nothing.
LEMMA MergeEmpty ==
  ASSUME NEW low
  PROVE  /\ DOMAIN Merge(low, Empty) = DOMAIN low
         /\ \A p \in DOMAIN low : Merge(low, Empty)[p] = low[p]
  BY DEF Merge, Empty

LEMMA Tuples ==
  ASSUME NEW S, NEW a \in S, NEW b \in S
  PROVE  /\ <<a>> \in Seq(S) /\ Len(<<a>>) = 1 /\ <<a>>[1] = a
         /\ <<a, b>> \in Seq(S) /\ Len(<<a, b>>) = 2
  OBVIOUS

LEMMA Concat ==
  ASSUME NEW S, NEW s \in Seq(S), NEW t \in Seq(S), s # <<>>
  PROVE  s \o t \in Seq(S) /\ s \o t # <<>>
<1>1. s \o t \in Seq(S) /\ Len(s \o t) = Len(s) + Len(t)
  BY ConcatProperties
<1>2. Len(s) \in Nat \ {0} /\ Len(t) \in Nat
  BY EmptySeq, LenProperties
<1>3. Len(s \o t) # 0
  BY <1>1, <1>2
<1> QED
  BY <1>1, <1>3, EmptySeq

\* A path of one segment, and the path of the bind under a key.
LEMMA ShortPath ==
  ASSUME NEW k \in Keys
  PROVE  /\ <<k>> \in Seq(Keys) /\ <<k>> # <<>> /\ Len(<<k>>) = 1 /\ <<k>>[1] = k
         /\ <<k>> \o BindSuffix \in Seq(Keys) /\ <<k>> \o BindSuffix # <<>>
<1>1. <<k>> \in Seq(Keys) /\ <<k>> # <<>> /\ Len(<<k>>) = 1 /\ <<k>>[1] = k
  BY Tuples
<1>2. BindSuffix \in Seq(Keys)
  <2>1. "postgres" \in Keys /\ "bindBuildingBlock" \in Keys
    BY KeysAssumption
  <2> QED
    BY <2>1, Tuples DEF BindSuffix
<1> QED
  BY <1>1, <1>2, Concat

LEMMA HeadOfPrefix ==
  ASSUME NEW S, NEW k \in S, NEW p \in Seq(S), p # <<>>
  PROVE  IsPrefix(<<k>>, p) <=> p[1] = k
<1>1. Len(p) \in Nat \ {0} /\ Len(<<k>>) = 1
  BY EmptySeq, Tuples
<1>2. SubSeq(<<k>>, 1, 1) = <<k>>
  BY Tuples, SubSeqFull
<1>3. SubSeq(p, 1, 1) = <<p[1]>>
  <2>1. \A i \in 1 .. 1 : p[i] \in S
    BY <1>1, ElementOfSeq
  <2>2. /\ SubSeq(p, 1, 1) \in Seq(S) /\ Len(SubSeq(p, 1, 1)) = 1
        /\ SubSeq(p, 1, 1)[1] = p[1]
    BY <2>1, SubSeqProperties
  <2>3. /\ p[1] \in S /\ <<p[1]>> \in Seq(S) /\ Len(<<p[1]>>) = 1
        /\ <<p[1]>>[1] = p[1]
    BY <2>1, Tuples
  <2> DEFINE a == SubSeq(p, 1, 1)
             b == <<p[1]>>
  <2> HIDE DEF a, b
  <2>4. a \in Seq(S) /\ b \in Seq(S) /\ Len(a) = 1 /\ Len(b) = 1 /\ a[1] = b[1]
    BY <2>2, <2>3 DEF a, b
  <2>5. a = b
    BY <2>4, SeqEqual
  <2> QED
    BY <2>5 DEF a, b
<1>4. <<p[1]>> = <<k>> <=> p[1] = k
  OBVIOUS
<1> QED
  BY <1>1, <1>2, <1>3, <1>4 DEF IsPrefix

\* An overlay without a reserved path has nothing the platform owns.
LEMMA OwnedAbsent ==
  ASSUME NEW o, IsTree(o), ReservedValueOverrides(o) = {}, NEW p \in DOMAIN o
  PROVE  ~Owned(p)
<1>1. p \in Seq(Keys) /\ p # <<>> /\ p[1] \in Keys
  BY EmptySeq DEF IsTree
<1>2. CASE IsPrefix(<<"sqldatabase">>, p)
  <2>1. <<"sqldatabase">> \in DOMAIN o
    <3>1. "sqldatabase" \in Keys
      BY KeysAssumption
    <3> QED
      BY <1>2, <3>1, PathsAbove, ShortPath
  <2> QED
    BY <2>1 DEF ReservedValueOverrides, HasPath
<1>3. CASE IsPrefix(<<p[1]>> \o BindSuffix, p)
  <2>1. <<p[1]>> \o BindSuffix \in Seq(Keys) /\ <<p[1]>> \o BindSuffix # <<>>
    BY <1>1, ShortPath
  <2>2. <<p[1]>> \o BindSuffix \in DOMAIN o
    BY <1>3, <2>1, PathsAbove
  <2> QED
    BY <2>2 DEF ReservedValueOverrides, HasPath
<1> QED
  BY <1>2, <1>3 DEF Owned

\* Of what the platform owns, the composition keeps what it would keep without
\* the overlay.
LEMMA OwnedKept ==
  ASSUME NEW v, IsTree(v), NEW o, IsTree(o), ReservedValueOverrides(o) = {}, NEW platform
  PROVE  LET with == Merge(Merge(v, o), platform)
             without == Merge(Merge(v, Empty), platform)
         IN  /\ \A p \in DOMAIN with :
                  Owned(p) => p \in DOMAIN without /\ with[p] = without[p]
             /\ \A p \in DOMAIN without :
                  IsPrefix(<<"sqldatabase">>, p) => p \in DOMAIN with
<1> DEFINE with == Merge(Merge(v, o), platform)
           without == Merge(Merge(v, Empty), platform)
<1>1. ASSUME NEW p \in DOMAIN with, Owned(p)
      PROVE  p \in DOMAIN without /\ with[p] = without[p]
  <2>1. CASE p \in DOMAIN platform
    <3>1. p \in DOMAIN without
      BY <2>1, MergeDomain
    <3>2. with[p] = platform[p] /\ without[p] = platform[p]
      BY <2>1, <3>1, MergeValue
    <3> QED
      BY <3>1, <3>2
  <2>2. CASE p \notin DOMAIN platform
    <3>1. p \in DOMAIN Merge(v, o) /\ with[p] = Merge(v, o)[p]
      BY <2>2, MergeValue
    <3>2. p \notin DOMAIN o
      BY <1>1, OwnedAbsent
    <3>3. p \in DOMAIN v /\ Merge(v, o)[p] = v[p]
      BY <3>1, <3>2, MergeValue
    <3>4. p \in DOMAIN Merge(v, Empty) /\ Merge(v, Empty)[p] = v[p]
      BY <3>3, MergeEmpty
    <3>5. p \in DOMAIN without
      <4>1. \A q \in DOMAIN platform : IsStrictPrefix(q, p) => platform[q] = Map
        BY <1>1, <2>2, MergeDomain, Zenon
      <4> QED
        BY <3>4, <4>1, MergeDomain, Zenon
    <3>6. without[p] = Merge(v, Empty)[p]
      BY <2>2, <3>5, MergeLow, Zenon
    <3> HIDE DEF with, without
    <3> QED
      BY <3>1, <3>3, <3>4, <3>5, <3>6, Zenon
  <2> QED
    BY <2>1, <2>2
<1>2. ASSUME NEW p \in DOMAIN without, IsPrefix(<<"sqldatabase">>, p)
      PROVE  p \in DOMAIN with
  <2>1. CASE p \in DOMAIN platform
    BY <2>1, MergeDomain
  <2>2. CASE p \notin DOMAIN platform
    <3>1. p \in DOMAIN v
      BY <2>2, MergeValue, MergeEmpty
    <3>2. ASSUME NEW q \in DOMAIN o
          PROVE  ~IsStrictPrefix(q, p)
      <4>1. /\ p \in Seq(Keys) /\ p # <<>> /\ q \in Seq(Keys) /\ q # <<>>
            /\ q[1] \in Keys
        BY <3>1, EmptySeq DEF IsTree
      <4>2. SUFFICES ASSUME IsPrefix(q, p) PROVE FALSE
        BY DEF IsStrictPrefix
      <4>3. q[1] = p[1]
        <5>1. Len(q) \in 1 .. Len(p) /\ SubSeq(q, 1, Len(q)) = SubSeq(p, 1, Len(q))
          BY <4>1, <4>2, EmptySeq DEF IsPrefix
        <5> QED
          BY <4>1, <5>1
      <4>4. IsPrefix(<<"sqldatabase">>, q)
        <5>1. "sqldatabase" \in Keys
          BY KeysAssumption
        <5> QED
          BY <1>2, <4>1, <4>3, <5>1, HeadOfPrefix
      <4> QED
        BY <4>4, OwnedAbsent DEF Owned
    <3>3. p \in DOMAIN Merge(v, o)
      BY <3>1, <3>2, MergeDomain, Zenon
    <3>4. \A q \in DOMAIN platform : IsStrictPrefix(q, p) => platform[q] = Map
      BY <2>2, MergeDomain, Zenon
    <3> QED
      BY <3>3, <3>4, MergeDomain, Zenon
  <2> QED
    BY <2>1, <2>2
<1> QED
  BY <1>1, <1>2

(***************************************************************************)
(* The values of a chart that is shipped.                                  *)
(***************************************************************************)

\* A deployment that was accepted: its overlay reaches no reserved value.
Accepted(d) ==
  /\ d = [app |-> d.app, env |-> d.env, overlay |-> d.overlay, resources |-> d.resources]
  /\ IsTree(d.overlay)
  /\ ReservedValueOverrides(d.overlay) = {}

DraftShape ==
  draft = [app |-> draft.app, env |-> draft.env, overlay |-> draft.overlay,
           specs |-> draft.specs, wellFormed |-> draft.wellFormed]

\* Create is answered once, and what it stored is what is composed: that is why
\* a later configuration cannot change it.
GateInv ==
  /\ policy \in Policies
  /\ DraftShape /\ IsTree(draft.overlay)
  /\ answer = None => stored = None /\ shipped = None
  /\ stored # None => Accepted(stored)
  /\ shipped # None =>
       /\ stored # None
       /\ shipped.umbrella \in Umbrellas
       /\ shipped.values = Composed(shipped.umbrella, stored)

\* The platform layer does not depend on the overlay.
LEMMA PlatformIgnoresOverlay ==
  ASSUME NEW key, NEW d, Accepted(d)
  PROVE  PlatformValues(key, [d EXCEPT !.overlay = Empty]) = PlatformValues(key, d)
<1> DEFINE e == [d EXCEPT !.overlay = Empty]
<1>1. e.env = d.env /\ e.resources = d.resources /\ e.app = d.app
  BY DEF Accepted
<1> HIDE DEF e
<1>2. Database(e) = Database(d) /\ BindValues(key, e) = BindValues(key, d)
  BY <1>1 DEF Database, BindValues
<1>3. PlatformValues(key, e) = PlatformValues(key, d)
  BY <1>1, <1>2 DEF PlatformValues
<1> QED
  BY <1>3 DEF e

LEMMA GateInit == Init => GateInv
  BY TreeAssumption, ShapeAssumption DEF Init, GateInv, DraftShape

LEMMA GateCreate ==
  ASSUME GateInv, Create
  PROVE  GateInv'
<1>1. shipped = None /\ shipped' = None /\ policy \in Policies
  BY DEF Create, GateInv
<1>2. answer' # None
  <2>1. Verdict(draft) \in Verdicts
    BY DEF Verdict, Verdicts
  <2> QED
    BY <1>1, <2>1, ShapeAssumption DEF Create
<1>3. stored' # None => Accepted(stored')
  <2>1. CASE Verdict(draft) = "accepted"
    <3>1. ReservedValueOverrides(draft.overlay) = {}
      BY <2>1 DEF Verdict
    <3>2. stored' = [app |-> draft.app, env |-> draft.env, overlay |-> draft.overlay,
                     resources |-> BuildResources(draft.app, draft.specs)]
      BY <2>1 DEF Create
    <3> QED
      BY <3>1, <3>2 DEF GateInv, Accepted
  <2>2. CASE Verdict(draft) # "accepted"
    BY <2>2 DEF Create
  <2> QED
    BY <2>1, <2>2
<1>4. policy' = policy /\ draft' = draft
  BY DEF Create
<1> QED
  BY <1>1, <1>2, <1>3, <1>4 DEF GateInv, DraftShape

LEMMA GateNext == GateInv /\ [Next]_vars => GateInv'
<1> SUFFICES ASSUME GateInv, [Next]_vars PROVE GateInv'
  OBVIOUS
<1>1. CASE ValidateTunables
  BY <1>1 DEF ValidateTunables, GateInv, DraftShape
<1>2. CASE Create
  BY <1>2, GateCreate
<1>3. CASE CreateApp
  BY <1>3 DEF CreateApp, GateInv, DraftShape
<1>4. CASE Adopt
  <2>1. draft' = [app |-> draft.app, env |-> draft.env, overlay |-> draft.overlay,
                  specs |-> Declared(scaffold.shape), wellFormed |-> draft.wellFormed]
    BY <1>4 DEF Adopt, GateInv, DraftShape
  <2> QED
    BY <1>4, <2>1 DEF Adopt, GateInv, DraftShape
<1>5. ASSUME NEW u \in Umbrellas, Compose(u)
      PROVE  GateInv'
  BY <1>5 DEF Compose, GateInv, DraftShape
<1>6. ASSUME NEW u \in Umbrellas, ComposeRefused(u)
      PROVE  GateInv'
  BY <1>6 DEF ComposeRefused, GateInv, DraftShape
<1>7. ASSUME NEW p \in Policies, Restart(p)
      PROVE  GateInv'
  BY <1>7 DEF Restart, GateInv, DraftShape
<1>8. CASE UNCHANGED vars
  BY <1>8 DEF vars, GateInv, DraftShape
<1> QED
  BY <1>1, <1>2, <1>3, <1>4, <1>5, <1>6, <1>7, <1>8 DEF Next

LEMMA GateInvariant == Spec => []GateInv
  BY GateInit, GateNext, PTL DEF Spec

LEMMA GateReserved == GateInv => ReservedIsPlatforms
<1> SUFFICES ASSUME GateInv, shipped # None
             PROVE  /\ \A p \in DOMAIN shipped.values :
                         Owned(p) => p \in DOMAIN Baseline /\ shipped.values[p] = Baseline[p]
                    /\ \A p \in DOMAIN Baseline :
                         IsPrefix(<<"sqldatabase">>, p) => p \in DOMAIN shipped.values
  BY DEF ReservedIsPlatforms
<1> DEFINE u == shipped.umbrella
           platform == PlatformValues(AppValuesKeyOf(u.deps), stored)
           e == [stored EXCEPT !.overlay = Empty]
<1>1. Accepted(stored) /\ IsTree(u.values) /\ shipped.values = Composed(u, stored)
  BY TreeAssumption DEF GateInv
<1>2. shipped.values = Merge(Merge(u.values, stored.overlay), platform)
  BY <1>1 DEF Composed
<1>3. Baseline = Merge(Merge(u.values, Empty), platform)
  <2>1. e.overlay = Empty
    BY <1>1 DEF Accepted
  <2>2. PlatformValues(AppValuesKeyOf(u.deps), e) = platform
    BY <1>1, PlatformIgnoresOverlay
  <2> QED
    BY <2>1, <2>2 DEF Baseline, Composed
<1>4. IsTree(stored.overlay) /\ ReservedValueOverrides(stored.overlay) = {}
  BY <1>1 DEF Accepted
<1> HIDE DEF u, platform
<1> QED
  BY <1>1, <1>2, <1>3, <1>4, OwnedKept

\* No overlay decides a reserved value: whatever the mode of the allowlist, the
\* umbrella chart and the key its application goes by, and whatever was
\* configured since, the composed chart holds at every reserved path what it
\* would hold without the overlay (resources.go:89, composer.go).
THEOREM ReservedValuesAreThePlatforms == Spec => []ReservedIsPlatforms
  BY GateInvariant, GateReserved, PTL

(***************************************************************************)
(* The verdicts, and what they were given under.                           *)
(***************************************************************************)

\* What the dry run and create lock, under the configuration p.
LockedBy(p, d) ==
  \/ AllowlistRejects(p.allowlist, d.overlay, d.env)
  \/ ReservedValueOverrides(d.overlay) # {}

\* The resources of d were allowed in its environment.
AllowedBy(rp, d) ==
  d.resources # <<>> =>
    /\ rp # None
    /\ rp.mode = "enforce" => rp.configured /\ Within(RulesFor(rp, d.env), d.resources)

VerdictInv ==
  /\ dry # None => (dry.blocked <=> LockedBy(dry.policy, draft))
  /\ answer # None => (answer.verdict = "locked" <=> LockedBy(answer.policy, draft))
  /\ stored # None => answer # None /\ AllowedBy(answer.policy.resources, stored)

LEMMA VerdictInit == Init => VerdictInv
  BY DEF Init, VerdictInv

LEMMA VerdictCreate ==
  ASSUME GateInv, VerdictInv, Create
  PROVE  VerdictInv'
<1> DEFINE resources == BuildResources(draft.app, draft.specs)
<1>1. answer' = [policy |-> policy, verdict |-> Verdict(draft)] /\ UNCHANGED <<draft, dry>>
  BY DEF Create
<1>2. Verdict(draft) = "locked" <=> LockedBy(policy, draft)
  BY DEF Verdict, LockedBy
<1>3. answer' # None
  <2>1. Verdict(draft) \in Verdicts
    BY DEF Verdict, Verdicts
  <2> QED
    BY <1>1, <2>1, ShapeAssumption DEF GateInv
<1>4. ASSUME stored' # None
      PROVE  AllowedBy(answer'.policy.resources, stored')
  <2>1. /\ Verdict(draft) = "accepted"
        /\ stored' = [app |-> draft.app, env |-> draft.env, overlay |-> draft.overlay,
                      resources |-> resources]
    BY <1>4 DEF Create
  <2>2. ~Refused(policy.resources, resources, draft.env)
    BY <2>1 DEF Verdict
  <2>3. stored'.resources = resources /\ stored'.env = draft.env
    BY <2>1
  <2>4. answer'.policy = policy
    BY <1>1
  <2> QED
    BY <2>2, <2>3, <2>4 DEF Refused, AllowedBy
<1> QED
  BY <1>1, <1>2, <1>3, <1>4 DEF VerdictInv, LockedBy

LEMMA VerdictNext == GateInv /\ VerdictInv /\ [Next]_vars => VerdictInv'
<1> SUFFICES ASSUME GateInv, VerdictInv, [Next]_vars PROVE VerdictInv'
  OBVIOUS
<1>1. CASE ValidateTunables
  <2>1. dry' = [policy |-> policy, blocked |-> Blocked(draft)]
    BY <1>1 DEF ValidateTunables
  <2>2. dry'.blocked <=> LockedBy(dry'.policy, draft)
    BY <2>1 DEF Blocked, LockedBy
  <2> QED
    BY <1>1, <2>2 DEF ValidateTunables, VerdictInv, LockedBy
<1>2. CASE Create
  BY <1>2, VerdictCreate
<1>3. CASE CreateApp
  BY <1>3 DEF CreateApp, VerdictInv, LockedBy
<1>4. CASE Adopt
  <2>1. draft'.overlay = draft.overlay /\ draft'.env = draft.env
    BY <1>4 DEF Adopt, GateInv, DraftShape
  <2>2. \A p : LockedBy(p, draft') <=> LockedBy(p, draft)
    BY <2>1 DEF LockedBy
  <2> QED
    BY <1>4, <2>2 DEF Adopt, VerdictInv
<1>5. ASSUME NEW u \in Umbrellas, Compose(u)
      PROVE  VerdictInv'
  BY <1>5 DEF Compose, VerdictInv, LockedBy
<1>6. ASSUME NEW u \in Umbrellas, ComposeRefused(u)
      PROVE  VerdictInv'
  BY <1>6 DEF ComposeRefused, VerdictInv, LockedBy
<1>7. ASSUME NEW p \in Policies, Restart(p)
      PROVE  VerdictInv'
  BY <1>7 DEF Restart, VerdictInv, LockedBy
<1>8. CASE UNCHANGED vars
  BY <1>8 DEF vars, VerdictInv, LockedBy
<1> QED
  BY <1>1, <1>2, <1>3, <1>4, <1>5, <1>6, <1>7, <1>8 DEF Next

LEMMA VerdictInvariant == Spec => []VerdictInv
  BY VerdictInit, VerdictNext, GateInvariant, PTL DEF Spec

\* Under one configuration the dry run blocks exactly what create refuses as
\* locked, whatever the client asked in between and whatever restarts came
\* between the two (resources.go:54-57, deployment.go:326-331).
THEOREM DryRunIsFaithful == Spec => []DryRunAgrees
<1>1. VerdictInv => DryRunAgrees
  BY DEF VerdictInv, DryRunAgrees
<1> QED
  BY <1>1, VerdictInvariant, PTL

(***************************************************************************)
(* Where a database in the composed chart comes from.                      *)
(***************************************************************************)

LEMMA InstancesOwned == Owned(Instances)
<1> DEFINE S == {"sqldatabase", "databases", "sql"}
<1>1. ASSUME NEW T, NEW a \in T, NEW b \in T, NEW c \in T
      PROVE  <<a, b, c>> \in Seq(T) /\ Len(<<a, b, c>>) = 3 /\ <<a, b, c>>[1] = a
  OBVIOUS
<1>2. Instances \in Seq(S) /\ Len(Instances) = 3 /\ Instances[1] = "sqldatabase"
  BY <1>1 DEF Instances
<1>3. Instances # <<>>
  BY DEF Instances
<1>4. "sqldatabase" \in S
  OBVIOUS
<1> HIDE DEF S
<1>5. IsPrefix(<<"sqldatabase">>, Instances)
  BY <1>2, <1>3, <1>4, HeadOfPrefix
<1> QED
  BY <1>5 DEF Owned

\* No path of the bind is the list of databases, whatever the application's key.
LEMMA BindIsElsewhere ==
  ASSUME NEW key, NEW d
  PROVE  Instances \notin DOMAIN BindValues(key, d)
<1> DEFINE S == {key, "postgres", "bindBuildingBlock", "enabled", "instanceName"}
<1>1. DOMAIN BindValues(key, d) =
        {<<key>>, <<key, "postgres">>, <<key>> \o BindSuffix,
         <<key>> \o BindSuffix \o <<"enabled">>, <<key>> \o BindSuffix \o <<"instanceName">>}
  BY DEF BindValues
<1>2. /\ key \in S /\ "postgres" \in S /\ "bindBuildingBlock" \in S
      /\ "enabled" \in S /\ "instanceName" \in S
  OBVIOUS
<1> HIDE DEF S
<1>3. /\ <<key>> \in Seq(S) /\ Len(<<key>>) = 1
      /\ <<"enabled">> \in Seq(S) /\ <<"instanceName">> \in Seq(S)
  BY <1>2, Tuples
<1>4. BindSuffix \in Seq(S) /\ Len(BindSuffix) = 2 /\ BindSuffix[1] = "postgres"
  BY <1>2, Tuples DEF BindSuffix
<1>5. ASSUME NEW s \in Seq(S), Len(s) = 1, NEW t \in Seq(S), Len(t) = 2
      PROVE  s \o t \in Seq(S) /\ Len(s \o t) = 3 /\ (s \o t)[2] = t[1]
  <2>1. /\ s \o t \in Seq(S) /\ Len(s \o t) = Len(s) + Len(t)
        /\ \A i \in 1 .. Len(s) + Len(t) :
             (s \o t)[i] = IF i <= Len(s) THEN s[i] ELSE t[i - Len(s)]
    BY ConcatProperties
  <2> QED
    BY <1>5, <2>1
<1>6. ASSUME NEW s \in Seq(S), Len(s) = 3, NEW t \in Seq(S), Len(t) = 1
      PROVE  Len(s \o t) = 4
  <2>1. Len(s \o t) = Len(s) + Len(t)
    BY ConcatProperties
  <2> QED
    BY <1>6, <2>1
<1>7. /\ <<key>> \o BindSuffix \in Seq(S) /\ Len(<<key>> \o BindSuffix) = 3
      /\ (<<key>> \o BindSuffix)[2] = "postgres"
  BY <1>3, <1>4, <1>5
<1>8. /\ Len(<<key>> \o BindSuffix \o <<"enabled">>) = 4
      /\ Len(<<key>> \o BindSuffix \o <<"instanceName">>) = 4
  BY <1>2, <1>3, <1>6, <1>7, Tuples
<1>9. Len(Instances) = 3 /\ Instances[2] = "databases"
  BY DEF Instances
<1> QED
  BY <1>1, <1>3, <1>7, <1>8, <1>9, Tuples

\* The list the platform layer puts there is the one declared.
LEMMA PlatformInstances ==
  ASSUME NEW key, NEW d, Instances \in DOMAIN PlatformValues(key, d)
  PROVE  d.resources # <<>> /\ PlatformValues(key, d)[Instances] = List(d.resources)
<1>1. d.resources # <<>>
  BY DEF PlatformValues, Empty
<1>2. Instances \notin DOMAIN BindValues(key, d)
  BY BindIsElsewhere
<1> DEFINE db == Database(d)
           rest == [p \in {q \in DOMAIN db : q[1] # key} |-> db[p]]
<1>3. PlatformValues(key, d) = Merge(rest, BindValues(key, d))
  BY <1>1 DEF PlatformValues
<1>4. Instances \in DOMAIN rest /\ PlatformValues(key, d)[Instances] = rest[Instances]
  BY <1>2, <1>3, MergeValue
<1>5. /\ Instances # <<"sqldatabase", "enabled">>
      /\ Instances # <<"sqldatabase", "environment">>
  BY DEF Instances
<1>6. db[Instances] = List(d.resources)
  BY <1>5 DEF Database
<1> QED
  BY <1>1, <1>4, <1>6

LEMMA SpendInv == GateInv /\ VerdictInv => SpendWasAuthorized
<1> SUFFICES ASSUME GateInv, VerdictInv, shipped # None, Instances \in DOMAIN shipped.values
             PROVE  LET rp == answer.policy.resources
                        asked == shipped.values[Instances]
                        own == shipped.umbrella.values
                    IN  \/ Instances \in DOMAIN own /\ own[Instances] = asked
                        \/ /\ rp # None
                           /\ rp.mode = "enforce" =>
                                /\ rp.configured
                                /\ stored.env \in DOMAIN rp.envs =>
                                     Within(rp.envs[stored.env], asked[2])
                                /\ stored.env \notin DOMAIN rp.envs =>
                                     Within(rp.default, asked[2])
  BY DEF SpendWasAuthorized
<1> DEFINE u == shipped.umbrella
           platform == PlatformValues(AppValuesKeyOf(u.deps), stored)
           low == Merge(u.values, stored.overlay)
<1>1. /\ Accepted(stored) /\ shipped.values = Merge(low, platform)
      /\ AllowedBy(answer.policy.resources, stored)
  BY DEF GateInv, VerdictInv, Composed
<1>2. CASE Instances \in DOMAIN platform
  <2>1. stored.resources # <<>> /\ platform[Instances] = List(stored.resources)
    BY <1>2, PlatformInstances
  <2>2. shipped.values[Instances] = List(stored.resources)
    BY <1>1, <1>2, <2>1, MergeValue
  <2>3. shipped.values[Instances][2] = stored.resources
    BY <2>2 DEF List
  <2> QED
    BY <1>1, <2>1, <2>3 DEF AllowedBy, RulesFor
<1>3. CASE Instances \notin DOMAIN platform
  <2>1. Instances \in DOMAIN low /\ shipped.values[Instances] = low[Instances]
    BY <1>1, <1>3, MergeValue
  <2>2. Instances \notin DOMAIN stored.overlay
    BY <1>1, InstancesOwned, OwnedAbsent DEF Accepted
  <2>3. Instances \in DOMAIN u.values /\ low[Instances] = u.values[Instances]
    BY <2>1, <2>2, MergeValue
  <2> QED
    BY <2>1, <2>3
<1> QED
  BY <1>2, <1>3

\* A database in the composed chart that the chart did not bring itself was
\* allowed when its deployment was accepted, by the rules of its environment:
\* no overlay, no key of the application and no later configuration puts one
\* there (policy/resource.go, resources.go:89).
THEOREM SpendIsAuthorized == Spec => []SpendWasAuthorized
  BY GateInvariant, VerdictInvariant, SpendInv, PTL

(***************************************************************************)
(* What is built from a declaration, and what is remembered of it.         *)
(***************************************************************************)

LEMMA OneElement ==
  ASSUME NEW x
  PROVE  /\ <<x>> \in Seq(Range(<<x>>)) /\ <<x>> # <<>>
         /\ DOMAIN <<x>> = {1} /\ Len(<<x>>) = 1 /\ <<x>>[1] = x
<1>1. <<x>> \in Seq({x}) /\ Len(<<x>>) = 1 /\ <<x>>[1] = x /\ DOMAIN <<x>> = 1 .. 1
  OBVIOUS
<1>2. Range(<<x>>) = {x}
  BY <1>1 DEF Range
<1> QED
  BY <1>1, <1>2

\* A declaration that is accepted builds resources of the application's name,
\* within the contract of the XRD, also where a field was left unset.
LEMMA BuiltAsContracted ==
  ASSUME NEW app, NEW specs, specs \in Seq(Range(specs)), Buildable(app, specs)
  PROVE  /\ BuildResources(app, specs) \in Seq(Resource)
         /\ Len(BuildResources(app, specs)) = Len(specs)
         /\ \A k \in 1 .. Len(specs) : BuildResources(app, specs)[k] = NewResource(app, specs[k])
<1> DEFINE resources == BuildResources(app, specs)
<1>1. Len(specs) \in Nat /\ DOMAIN specs = 1 .. Len(specs)
  BY LenProperties
<1>2. resources = [k \in 1 .. Len(specs) |-> NewResource(app, specs[k])]
  BY <1>1 DEF BuildResources
<1>3. ASSUME NEW k \in 1 .. Len(specs)
      PROVE  NewResource(app, specs[k]) \in Resource
  <2>1. Valid(app, specs[k])
    BY <1>1 DEF Buildable
  <2> QED
    BY <2>1, DefaultsAssumption DEF Valid, NewResource, Resource
<1>4. resources \in Seq(Resource) /\ Len(resources) = Len(specs)
  <2> HIDE DEF Resource
  <2> QED
    BY <1>1, <1>2, <1>3
<1> QED
  BY <1>2, <1>4

\* The answer create gives under the configuration p.
VerdictUnder(p, d) ==
  LET resources == BuildResources(d.app, d.specs)
  IN  IF ReservedValueOverrides(d.overlay) # {} THEN "locked"
      ELSE IF AllowlistRejects(p.allowlist, d.overlay, d.env) THEN "locked"
      ELSE IF ~Buildable(d.app, d.specs) THEN "invalid"
      ELSE IF Refused(p.resources, resources, d.env) THEN "not allowed"
      ELSE IF ~d.wellFormed \/ d.env = "" \/ Len(resources) > 1 THEN "invalid"
      ELSE "accepted"

\* A shape the scaffolder was handed: it declares itself, and the rules without
\* an environment allowed it.
ShapeOf(app, rp, shape) ==
  /\ shape \in Resource /\ shape.name = app
  /\ shape.size = "" => DefaultSize = ""
  /\ shape.mb = 0 => DefaultMb = 0
  /\ rp # None
  /\ rp.mode = "enforce" => rp.configured /\ Within(RulesFor(rp, ""), <<shape>>)

\* What the request, the scaffolded shape and the stored deployment owe to the
\* gates they passed.
OriginInv ==
  /\ draft.specs \in Seq(Range(draft.specs)) /\ IsFiniteSet(DOMAIN draft.overlay)
  /\ scaffold # None =>
       /\ scaffold.policy \in Policies
       /\ ShapeOf(draft.app, scaffold.policy.resources, scaffold.shape)
  /\ answer # None =>
       /\ answer.policy \in Policies
       /\ answer.verdict = VerdictUnder(answer.policy, draft)
  /\ stored # None =>
       /\ answer # None /\ IsFiniteSet(DOMAIN stored.overlay)
       /\ ~AllowlistRejects(answer.policy.allowlist, stored.overlay, stored.env)
       /\ stored.resources \in Seq(Resource)
       /\ stored.resources # <<>> =>
            Len(stored.resources) = 1 /\ stored.resources[1].name = stored.app
  /\ (shipped # None /\ stored.resources # <<>>) =>
       AppValuesKeyOf(shipped.umbrella.deps) # ""
  /\ dry # None => dry.policy \in Policies /\ dry.blocked \in BOOLEAN
  /\ restarts \in 0 .. MaxRestarts

LEMMA OriginInit == Init => OriginInv
  BY TreeAssumption, ShapeAssumption, BoundAssumption DEF Init, OriginInv

LEMMA OriginCreate ==
  ASSUME GateInv, OriginInv, Create
  PROVE  OriginInv'
<1> DEFINE resources == BuildResources(draft.app, draft.specs)
<1>1. /\ answer' = [policy |-> policy, verdict |-> Verdict(draft)]
      /\ UNCHANGED <<policy, draft, dry, scaffold, shipped, restarts>>
      /\ shipped = None
  BY DEF Create, GateInv
<1>2. Verdict(draft) = VerdictUnder(policy, draft)
  BY DEF Verdict, VerdictUnder
<1>3. answer' # None
  <2>1. Verdict(draft) \in Verdicts
    BY DEF Verdict, Verdicts
  <2> QED
    BY <1>1, <2>1, ShapeAssumption DEF GateInv
<1>4. ASSUME stored' # None
      PROVE  /\ IsFiniteSet(DOMAIN stored'.overlay)
             /\ ~AllowlistRejects(policy.allowlist, stored'.overlay, stored'.env)
             /\ stored'.resources \in Seq(Resource)
             /\ stored'.resources # <<>> =>
                  Len(stored'.resources) = 1 /\ stored'.resources[1].name = stored'.app
  <2>1. /\ Verdict(draft) = "accepted"
        /\ stored' = [app |-> draft.app, env |-> draft.env, overlay |-> draft.overlay,
                      resources |-> resources]
    BY <1>4 DEF Create
  <2>2. /\ ~AllowlistRejects(policy.allowlist, draft.overlay, draft.env)
        /\ Buildable(draft.app, draft.specs) /\ ~(Len(resources) > 1)
    BY <2>1 DEF Verdict
  <2>3. /\ resources \in Seq(Resource) /\ Len(resources) = Len(draft.specs)
        /\ \A k \in 1 .. Len(draft.specs) : resources[k] = NewResource(draft.app, draft.specs[k])
    BY <2>2, BuiltAsContracted DEF OriginInv
  <2>4. resources # <<>> => Len(resources) = 1 /\ resources[1].name = draft.app
    <3> HAVE resources # <<>>
    <3> HIDE DEF resources, Resource
    <3>1. Len(resources) \in Nat \ {0}
      BY <2>3, EmptySeq, LenProperties
    <3>2. Len(resources) = 1
      <4>1. ~(Len(resources) > 1)
        BY <2>2
      <4> QED
        BY <3>1, <4>1
    <3>3. resources[1] = NewResource(draft.app, draft.specs[1])
      BY <2>3, <3>2
    <3>4. NewResource(draft.app, draft.specs[1]).name = draft.app
      BY DEF NewResource
    <3> QED
      BY <3>2, <3>3, <3>4
  <2>5. /\ stored'.overlay = draft.overlay /\ stored'.env = draft.env
        /\ stored'.app = draft.app /\ stored'.resources = resources
    BY <2>1
  <2> HIDE DEF resources
  <2> QED
    BY <2>2, <2>3, <2>4, <2>5 DEF OriginInv
<1> QED
  BY <1>1, <1>2, <1>3, <1>4 DEF OriginInv, GateInv, VerdictUnder

LEMMA OriginCreateApp ==
  ASSUME GateInv, OriginInv, CreateApp
  PROVE  OriginInv'
<1> DEFINE resources == BuildResources(draft.app, draft.specs)
           shape == Head(resources)
           rp == policy.resources
<1>1. /\ draft.specs # <<>> /\ Buildable(draft.app, draft.specs)
      /\ ~Refused(rp, resources, "")
      /\ scaffold' = [policy |-> policy, shape |-> shape]
      /\ UNCHANGED <<policy, draft, dry, answer, stored, shipped, restarts>>
  BY DEF CreateApp
<1>2. /\ resources \in Seq(Resource) /\ Len(resources) = Len(draft.specs)
      /\ \A k \in 1 .. Len(draft.specs) : resources[k] = NewResource(draft.app, draft.specs[k])
  BY <1>1, BuiltAsContracted DEF OriginInv
<1>3. Len(draft.specs) \in Nat \ {0}
  BY <1>1, EmptySeq, LenProperties DEF OriginInv
<1>4. shape = NewResource(draft.app, draft.specs[1]) /\ shape = resources[1] /\ shape \in Resource
      /\ resources # <<>>
  <2> HIDE DEF resources, Resource
  <2>1. 1 \in 1 .. Len(draft.specs)
    BY <1>3
  <2>2. resources # <<>>
    BY <1>2, <1>3, EmptySeq
  <2>3. shape = resources[1] /\ resources[1] \in Resource
    BY <1>2, <2>1, <2>2
  <2> QED
    BY <1>2, <2>1, <2>2, <2>3
<1>5. /\ shape.name = draft.app /\ (shape.size = "" => DefaultSize = "")
      /\ (shape.mb = 0 => DefaultMb = 0)
  <2> DEFINE r == NewResource(draft.app, draft.specs[1])
  <2>1. r.name = draft.app /\ (r.size = "" => DefaultSize = "") /\ (r.mb = 0 => DefaultMb = 0)
    BY DEF NewResource
  <2>2. shape = r
    BY <1>4
  <2> HIDE DEF shape, r
  <2> QED
    BY <2>1, <2>2
<1>6. /\ rp # None
      /\ rp.mode = "enforce" => rp.configured /\ Within(RulesFor(rp, ""), resources)
  BY <1>1, <1>4 DEF Refused
<1>7. ASSUME NEW rules, rules.postgres.instances \in Int, Within(rules, resources)
      PROVE  Within(rules, <<shape>>)
  <2> HIDE DEF resources, shape, Resource
  <2>1. 1 \in DOMAIN resources /\ Len(resources) \in Nat /\ 1 <= Len(resources)
    BY <1>2, <1>3, LenProperties
  <2>2. DOMAIN <<shape>> = {1} /\ <<shape>>[1] = shape /\ Len(<<shape>>) = 1
    BY OneElement
  <2>3. rules.postgres.instances > 0 => 1 <= rules.postgres.instances
    BY <1>7
  <2> QED
    BY <1>4, <1>7, <2>1, <2>2, <2>3 DEF Within
<1>8. rp.mode = "enforce" => RulesFor(rp, "").postgres.instances \in Int
  <2> HAVE rp.mode = "enforce"
  <2>1. RulesFor(rp, "").postgres # None
    BY <1>6 DEF Within
  <2>2. RulesFor(rp, "") \in {rp.default} \cup Range(rp.envs)
    BY DEF RulesFor, Range
  <2> QED
    BY <1>6, <2>1, <2>2, PolicyAssumption DEF GateInv
<1>9. ShapeOf(draft.app, rp, shape)
  BY <1>4, <1>5, <1>6, <1>7, <1>8 DEF ShapeOf
<1> HIDE DEF shape, rp
<1> QED
  BY <1>1, <1>9 DEF OriginInv, GateInv, rp

LEMMA OriginNext == GateInv /\ OriginInv /\ [Next]_vars => OriginInv'
<1> SUFFICES ASSUME GateInv, OriginInv, [Next]_vars PROVE OriginInv'
  OBVIOUS
<1>1. CASE ValidateTunables
  <2>1. /\ dry' = [policy |-> policy, blocked |-> Blocked(draft)]
        /\ UNCHANGED <<policy, draft, scaffold, answer, stored, shipped, restarts>>
    BY <1>1 DEF ValidateTunables
  <2>2. Blocked(draft) \in BOOLEAN
    BY DEF Blocked
  <2>3. dry'.policy \in Policies /\ dry'.blocked \in BOOLEAN
    BY <2>1, <2>2 DEF GateInv
  <2> QED
    BY <2>1, <2>3 DEF OriginInv
<1>2. CASE Create
  BY <1>2, OriginCreate
<1>3. CASE CreateApp
  BY <1>3, OriginCreateApp
<1>4. CASE Adopt
  <2>1. /\ draft' = [draft EXCEPT !.specs = Declared(scaffold.shape)]
        /\ answer = None /\ stored = None /\ shipped = None
        /\ UNCHANGED <<policy, dry, scaffold, answer, stored, shipped, restarts>>
    BY <1>4 DEF Adopt, GateInv
  <2>2. draft'.specs = Declared(scaffold.shape) /\ draft'.app = draft.app
        /\ draft'.overlay = draft.overlay
    BY <2>1 DEF GateInv, DraftShape
  <2>3. draft'.specs \in Seq(Range(draft'.specs))
    BY <2>2, OneElement DEF Declared
  <2> QED
    BY <2>1, <2>2, <2>3 DEF OriginInv
<1>5. ASSUME NEW u \in Umbrellas, Compose(u)
      PROVE  OriginInv'
  <2>1. /\ stored.resources # <<>> => AppValuesKeyOf(u.deps) # ""
        /\ shipped' = [umbrella |-> u, values |-> Composed(u, stored)]
        /\ UNCHANGED <<policy, draft, dry, scaffold, answer, stored, restarts>>
    BY <1>5 DEF Compose
  <2>2. shipped'.umbrella = u
    BY <2>1
  <2> QED
    BY <2>1, <2>2 DEF OriginInv
<1>6. ASSUME NEW u \in Umbrellas, ComposeRefused(u)
      PROVE  OriginInv'
  BY <1>6 DEF ComposeRefused, OriginInv
<1>7. ASSUME NEW p \in Policies, Restart(p)
      PROVE  OriginInv'
  <2>1. /\ restarts < MaxRestarts /\ restarts' = restarts + 1
        /\ UNCHANGED <<draft, dry, scaffold, answer, stored, shipped>>
    BY <1>7 DEF Restart
  <2>2. restarts \in 0 .. MaxRestarts
    BY DEF OriginInv
  <2>3. restarts' \in 0 .. MaxRestarts
    BY <2>1, <2>2, BoundAssumption
  <2> QED
    BY <2>1, <2>3 DEF OriginInv
<1>8. CASE UNCHANGED vars
  BY <1>8 DEF vars, OriginInv
<1> QED
  BY <1>1, <1>2, <1>3, <1>4, <1>5, <1>6, <1>7, <1>8 DEF Next

LEMMA OriginInvariant == Spec => []OriginInv
  BY OriginInit, OriginNext, GateInvariant, PTL DEF Spec

(***************************************************************************)
(* A scaffolded application can be deployed.                               *)
(***************************************************************************)

\* No policies file has rules under the empty name: AuthorizeResources counts on
\* it when it asks for the default rules that way (resources.go:141-142), while
\* rulesFor would find such an entry.
NoNamelessRules ==
  \A p \in Policies : p.resources # None => "" \notin DOMAIN p.resources.envs

\* An overlay that tunes nothing is stopped by neither gate of the values.
LEMMA NothingLocked ==
  ASSUME NEW allowlist, NEW env
  PROVE  ReservedValueOverrides(Empty) = {} /\ ~AllowlistRejects(allowlist, Empty, env)
<1>1. FlattenKeys(Empty) = {}
  BY DEF FlattenKeys, Empty
<1>2. ReservedValueOverrides(Empty) = {}
  BY DEF ReservedValueOverrides, HasPath, Empty
<1> QED
  BY <1>1, <1>2 DEF AllowlistRejects, Violations

\* The shape declares itself.
LEMMA ShapeRebuilt ==
  ASSUME NEW app, NEW rp, NEW shape, ShapeOf(app, rp, shape), app \in ResourceNames
  PROVE  /\ Buildable(app, Declared(shape))
         /\ BuildResources(app, Declared(shape)) = <<shape>>
<1> DEFINE spec == [type |-> "postgres", size |-> shape.size, mb |-> shape.mb]
<1>1. /\ shape.size \in Sizes /\ shape.mb \in MinMb .. MaxMb
      /\ shape = [name |-> app, size |-> shape.size, mb |-> shape.mb]
  BY DEF ShapeOf, Resource
<1>2. spec.type = "postgres" /\ spec.size = shape.size /\ spec.mb = shape.mb
  OBVIOUS
<1>3. Declared(shape) = <<spec>>
  BY DEF Declared
<1>4. NewResource(app, spec) = shape
  <2>1. (IF spec.size = "" THEN DefaultSize ELSE spec.size) = shape.size
    BY <1>2 DEF ShapeOf
  <2>2. (IF spec.mb = 0 THEN DefaultMb ELSE spec.mb) = shape.mb
    BY <1>2 DEF ShapeOf
  <2> HIDE DEF spec
  <2> QED
    BY <1>1, <2>1, <2>2 DEF NewResource
<1>5. Valid(app, spec)
  BY <1>1, <1>2 DEF Valid
<1> HIDE DEF spec
<1>6. DOMAIN <<spec>> = {1} /\ <<spec>>[1] = spec
  BY OneElement
<1>7. BuildResources(app, <<spec>>) = [k \in {1} |-> shape]
  BY <1>4, <1>6 DEF BuildResources
<1>8. [k \in {1} |-> shape] = <<shape>>
  OBVIOUS
<1> QED
  BY <1>3, <1>5, <1>6, <1>7, <1>8 DEF Buildable

LEMMA ScaffoldInv == NoNamelessRules /\ OriginInv => ScaffoldedIsDeployable
<1> SUFFICES ASSUME NoNamelessRules, OriginInv,
                    scaffold # None, answer # None, answer.policy = scaffold.policy,
                    scaffold.policy.resources # None =>
                      draft.env \notin DOMAIN scaffold.policy.resources.envs,
                    draft.env # "", draft.wellFormed, draft.overlay = Empty,
                    draft.specs = Declared(scaffold.shape)
             PROVE  answer.verdict = "accepted"
  BY DEF ScaffoldedIsDeployable
<1> DEFINE rp == answer.policy.resources
           shape == scaffold.shape
<1>1. ShapeOf(draft.app, rp, shape) /\ answer.policy \in Policies
  BY DEF OriginInv
<1>2. /\ Buildable(draft.app, draft.specs)
      /\ BuildResources(draft.app, draft.specs) = <<shape>>
  <2>1. draft.app \in ResourceNames
    BY <1>1 DEF ShapeOf, Resource
  <2> QED
    BY <1>1, <2>1, ShapeRebuilt
<1>3. ~Refused(rp, <<shape>>, draft.env)
  <2>1. RulesFor(rp, draft.env) = RulesFor(rp, "")
    BY <1>1 DEF RulesFor, ShapeOf, NoNamelessRules
  <2> QED
    BY <1>1, <2>1 DEF Refused, ShapeOf
<1>4. ~(Len(<<shape>>) > 1)
  <2>1. Len(<<shape>>) = 1
    BY OneElement
  <2> HIDE DEF shape
  <2> QED
    BY ONLY <2>1
<1>5. answer.verdict = VerdictUnder(answer.policy, draft)
  BY DEF OriginInv
<1>6. ~AllowlistRejects(answer.policy.allowlist, draft.overlay, draft.env)
      /\ ReservedValueOverrides(draft.overlay) = {}
  BY NothingLocked
<1> HIDE DEF shape, rp
<1>7. ~(Len(BuildResources(draft.app, draft.specs)) > 1)
  BY <1>2, <1>4
<1>8. ~Refused(answer.policy.resources, BuildResources(draft.app, draft.specs), draft.env)
  BY <1>2, <1>3 DEF rp
<1> QED
  BY <1>2, <1>5, <1>6, <1>7, <1>8 DEF VerdictUnder

\* What POST /apps wrote into a repository, POST /deployments accepts: if the
\* configuration is still the same, the environment has no rules of its own and
\* nothing else is wrong with the request, whatever was declared to begin with
\* and whatever happened in between (resources.go:113-116).
THEOREM ScaffoldsAreDeployable == NoNamelessRules => (Spec => []ScaffoldedIsDeployable)
<1> SUFFICES ASSUME NoNamelessRules PROVE Spec => []ScaffoldedIsDeployable
  OBVIOUS
<1>1. OriginInv => ScaffoldedIsDeployable
  BY ScaffoldInv
<1> QED
  BY <1>1, OriginInvariant, PTL

(***************************************************************************)
(* Prefixes, element by element.                                           *)
(***************************************************************************)

LEMMA PrefixElements ==
  ASSUME NEW S, NEW s \in Seq(S), NEW t \in Seq(S)
  PROVE  IsPrefix(s, t) <=> Len(s) <= Len(t) /\ \A i \in 1 .. Len(s) : s[i] = t[i]
<1>1. Len(s) \in Nat /\ Len(t) \in Nat /\ SubSeq(s, 1, Len(s)) = s
  BY SubSeqFull, LenProperties
<1>2. ASSUME Len(s) <= Len(t)
      PROVE  s = SubSeq(t, 1, Len(s)) <=> \A i \in 1 .. Len(s) : s[i] = t[i]
  <2> DEFINE u == SubSeq(t, 1, Len(s))
  <2>1. \A i \in 1 .. Len(s) : t[i] \in S
    BY <1>1, <1>2, ElementOfSeq
  <2>2. u \in Seq(S) /\ Len(u) = Len(s) /\ \A i \in 1 .. Len(s) : u[i] = t[i]
    BY <1>1, <2>1, SubSeqProperties
  <2> HIDE DEF u
  <2>3. ASSUME \A i \in 1 .. Len(s) : s[i] = t[i]
        PROVE  s = u
    BY <2>2, <2>3, SeqEqual
  <2> QED
    BY <2>2, <2>3 DEF u
<1> QED
  BY <1>1, <1>2 DEF IsPrefix

LEMMA PrefixTransitive ==
  ASSUME NEW S, NEW s \in Seq(S), NEW t \in Seq(S), NEW u \in Seq(S),
         IsPrefix(s, t), IsPrefix(t, u)
  PROVE  IsPrefix(s, u)
<1>1. Len(s) \in Nat /\ Len(t) \in Nat /\ Len(u) \in Nat
  BY LenProperties
<1> QED
  BY <1>1, PrefixElements

\* Two prefixes of one path lie on one line.
LEMMA PrefixesCompare ==
  ASSUME NEW S, NEW s \in Seq(S), NEW t \in Seq(S), NEW u \in Seq(S),
         IsPrefix(s, u), IsPrefix(t, u)
  PROVE  IsPrefix(s, t) \/ IsPrefix(t, s)
<1>1. Len(s) \in Nat /\ Len(t) \in Nat /\ Len(u) \in Nat
  BY LenProperties
<1>2. CASE Len(s) <= Len(t)
  BY <1>1, <1>2, PrefixElements
<1>3. CASE Len(t) <= Len(s)
  BY <1>1, <1>3, PrefixElements
<1> QED
  BY <1>1, <1>2, <1>3

LEMMA PrefixAntisymmetric ==
  ASSUME NEW S, NEW s \in Seq(S), NEW t \in Seq(S), IsPrefix(s, t), IsPrefix(t, s)
  PROVE  s = t
<1>1. Len(s) \in Nat /\ Len(t) \in Nat
  BY LenProperties
<1> QED
  BY <1>1, PrefixElements, SeqEqual

\* The part of a path above its end.
LEMMA ProperPart ==
  ASSUME NEW S, NEW p \in Seq(S), NEW n \in 1 .. Len(p) - 1
  PROVE  LET s == SubSeq(p, 1, n)
         IN  s \in Seq(S) /\ s # <<>> /\ Len(s) = n /\ s[1] = p[1] /\ IsStrictPrefix(s, p)
<1> DEFINE s == SubSeq(p, 1, n)
<1>1. Len(p) \in Nat /\ n \in 1 .. Len(p)
  BY LenProperties
<1>2. \A i \in 1 .. n : p[i] \in S
  BY <1>1, ElementOfSeq
<1>3. s \in Seq(S) /\ Len(s) = n /\ \A i \in 1 .. n : s[i] = p[i]
  BY <1>1, <1>2, SubSeqProperties
<1> HIDE DEF s
<1>4. s # <<>> /\ s[1] = p[1] /\ s # p
  BY <1>1, <1>3
<1>5. IsPrefix(s, p)
  BY <1>1, <1>3, PrefixElements
<1> QED
  BY <1>3, <1>4, <1>5 DEF IsStrictPrefix, s

(***************************************************************************)
(* The layers are trees, and so is what they compose to.                   *)
(***************************************************************************)

LEMMA MergeOfTrees ==
  ASSUME NEW low, NEW high, IsTree(low), IsTree(high)
  PROVE  IsTree(Merge(low, high))
<1> DEFINE merged == Merge(low, high)
<1> SUFFICES ASSUME NEW p \in DOMAIN merged
             PROVE  /\ p \in Seq(Keys) /\ p # <<>>
                    /\ \A n \in 1 .. Len(p) - 1 :
                         SubSeq(p, 1, n) \in DOMAIN merged /\ merged[SubSeq(p, 1, n)] = Map
  BY DEF IsTree
<1>1. p \in Seq(Keys) /\ p # <<>>
  BY MergeDomain DEF IsTree
<1>2. ASSUME NEW n \in 1 .. Len(p) - 1
      PROVE  SubSeq(p, 1, n) \in DOMAIN merged /\ merged[SubSeq(p, 1, n)] = Map
  <2> DEFINE s == SubSeq(p, 1, n)
  <2>1. s \in Seq(Keys) /\ IsStrictPrefix(s, p)
    BY <1>1, ProperPart
  <2>2. CASE p \in DOMAIN high
    <3>1. s \in DOMAIN high /\ high[s] = Map
      BY <2>2 DEF IsTree
    <3> HIDE DEF s
    <3>2. s \in DOMAIN merged
      BY <3>1, MergeDomain
    <3> QED
      BY <3>1, <3>2, MergeValue DEF s
  <2>3. CASE p \notin DOMAIN high
    <3>1. /\ p \in DOMAIN low
          /\ \A q \in DOMAIN high : IsStrictPrefix(q, p) => high[q] = Map
      BY <2>3, MergeDomain
    <3>2. s \in DOMAIN low /\ low[s] = Map
      BY <3>1 DEF IsTree
    <3> HIDE DEF s, merged
    <3>3. CASE s \in DOMAIN high
      <4>1. s \in DOMAIN merged
        BY <3>3, MergeDomain DEF merged
      <4> QED
        BY <2>1, <3>1, <3>3, <4>1, MergeValue DEF s, merged
    <3>4. CASE s \notin DOMAIN high
      <4>1. ASSUME NEW q \in DOMAIN high, IsStrictPrefix(q, s)
            PROVE  high[q] = Map
        <5>1. q \in Seq(Keys)
          BY DEF IsTree
        <5>2. IsPrefix(q, p) /\ q # p
          BY <1>1, <2>1, <2>3, <4>1, <5>1, PrefixTransitive DEF IsStrictPrefix
        <5> QED
          BY <3>1, <5>2 DEF IsStrictPrefix
      <4>2. s \in DOMAIN merged
        BY <3>2, <4>1, MergeDomain DEF merged
      <4> QED
        BY <3>2, <3>4, <4>2, MergeValue DEF s, merged
    <3> QED
      BY <3>3, <3>4
  <2> QED
    BY <2>2, <2>3
<1> QED
  BY <1>1, <1>2

LEMMA EmptyIsTree == IsTree(Empty)
  BY DEF IsTree, Empty

\* The paths of the platform's layers, written out.
LEMMA PartIs ==
  ASSUME NEW S, NEW p \in Seq(S), NEW q \in Seq(S), Len(q) <= Len(p),
         \A i \in 1 .. Len(q) : q[i] = p[i]
  PROVE  SubSeq(p, 1, Len(q)) = q
<1>1. Len(p) \in Nat /\ Len(q) \in Nat /\ SubSeq(q, 1, Len(q)) = q
  BY SubSeqFull, LenProperties
<1>2. IsPrefix(q, p)
  BY PrefixElements
<1> QED
  BY <1>1, <1>2 DEF IsPrefix

LEMMA Pair ==
  ASSUME NEW a \in Keys, NEW b \in Keys
  PROVE  /\ <<a, b>> \in Seq(Keys) /\ <<a, b>> # <<>> /\ Len(<<a, b>>) = 2
         /\ <<a, b>>[1] = a /\ <<a, b>>[2] = b
         /\ SubSeq(<<a, b>>, 1, 1) = <<a>>
<1> DEFINE p == <<a, b>>
           q == <<a>>
<1>1. /\ p \in Seq(Keys) /\ p # <<>> /\ Len(p) = 2 /\ p[1] = a /\ p[2] = b
      /\ q \in Seq(Keys) /\ Len(q) = 1 /\ q[1] = a
  OBVIOUS
<1> HIDE DEF p, q
<1>2. SubSeq(p, 1, Len(q)) = q
  BY <1>1, PartIs
<1>3. SubSeq(p, 1, 1) = q
  BY <1>1, <1>2
<1> QED
  BY <1>1, <1>3 DEF p, q

LEMMA Triple ==
  ASSUME NEW a \in Keys, NEW b \in Keys, NEW c \in Keys
  PROVE  /\ <<a, b, c>> \in Seq(Keys) /\ <<a, b, c>> # <<>> /\ Len(<<a, b, c>>) = 3
         /\ <<a, b, c>>[1] = a /\ <<a, b, c>>[2] = b /\ <<a, b, c>>[3] = c
         /\ SubSeq(<<a, b, c>>, 1, 1) = <<a>>
         /\ SubSeq(<<a, b, c>>, 1, 2) = <<a, b>>
<1> DEFINE p == <<a, b, c>>
           q == <<a>>
           r == <<a, b>>
<1>1. /\ p \in Seq(Keys) /\ p # <<>> /\ Len(p) = 3 /\ p[1] = a /\ p[2] = b /\ p[3] = c
      /\ q \in Seq(Keys) /\ Len(q) = 1 /\ q[1] = a
      /\ r \in Seq(Keys) /\ Len(r) = 2 /\ r[1] = a /\ r[2] = b
  OBVIOUS
<1> HIDE DEF p, q, r
<1>2. SubSeq(p, 1, Len(q)) = q /\ SubSeq(p, 1, Len(r)) = r
  BY <1>1, PartIs
<1>3. SubSeq(p, 1, 1) = q /\ SubSeq(p, 1, 2) = r
  BY <1>1, <1>2
<1> QED
  BY <1>1, <1>3 DEF p, q, r

LEMMA Quadruple ==
  ASSUME NEW a \in Keys, NEW b \in Keys, NEW c \in Keys, NEW d \in Keys
  PROVE  /\ <<a, b, c, d>> \in Seq(Keys) /\ <<a, b, c, d>> # <<>> /\ Len(<<a, b, c, d>>) = 4
         /\ <<a, b, c, d>>[1] = a /\ <<a, b, c, d>>[4] = d
         /\ SubSeq(<<a, b, c, d>>, 1, 1) = <<a>>
         /\ SubSeq(<<a, b, c, d>>, 1, 2) = <<a, b>>
         /\ SubSeq(<<a, b, c, d>>, 1, 3) = <<a, b, c>>
<1> DEFINE p == <<a, b, c, d>>
           q == <<a>>
           r == <<a, b>>
           s == <<a, b, c>>
<1>1. /\ p \in Seq(Keys) /\ p # <<>> /\ Len(p) = 4
      /\ p[1] = a /\ p[2] = b /\ p[3] = c /\ p[4] = d
      /\ q \in Seq(Keys) /\ Len(q) = 1 /\ q[1] = a
      /\ r \in Seq(Keys) /\ Len(r) = 2 /\ r[1] = a /\ r[2] = b
      /\ s \in Seq(Keys) /\ Len(s) = 3 /\ s[1] = a /\ s[2] = b /\ s[3] = c
  OBVIOUS
<1> HIDE DEF p, q, r, s
<1>2. SubSeq(p, 1, Len(q)) = q /\ SubSeq(p, 1, Len(r)) = r /\ SubSeq(p, 1, Len(s)) = s
  BY <1>1, PartIs
<1>3. SubSeq(p, 1, 1) = q /\ SubSeq(p, 1, 2) = r /\ SubSeq(p, 1, 3) = s
  BY <1>1, <1>2
<1> QED
  BY <1>1, <1>3 DEF p, q, r, s

\* The paths under the application's key, written out.
LEMMA BindPaths ==
  ASSUME NEW key \in Keys
  PROVE  /\ <<key>> \o BindSuffix = <<key, "postgres", "bindBuildingBlock">>
         /\ \A x \in Keys : <<key>> \o BindSuffix \o <<x>> =
                              <<key, "postgres", "bindBuildingBlock", x>>
<1>1. "postgres" \in Keys /\ "bindBuildingBlock" \in Keys
  BY KeysAssumption
<1> DEFINE k == <<key>>
           b == BindSuffix
           t == <<key, "postgres", "bindBuildingBlock">>
<1>2. /\ k \in Seq(Keys) /\ Len(k) = 1 /\ k[1] = key
      /\ b \in Seq(Keys) /\ Len(b) = 2 /\ b[1] = "postgres" /\ b[2] = "bindBuildingBlock"
      /\ t \in Seq(Keys) /\ Len(t) = 3
      /\ t[1] = key /\ t[2] = "postgres" /\ t[3] = "bindBuildingBlock"
  BY <1>1 DEF BindSuffix
<1>3. k \o b = t
  <2> HIDE DEF k, b, t
  <2>0. /\ k \o b \in Seq(Keys) /\ Len(k \o b) = Len(k) + Len(b)
        /\ \A i \in 1 .. Len(k) + Len(b) :
             (k \o b)[i] = IF i <= Len(k) THEN k[i] ELSE b[i - Len(k)]
    BY <1>2, ConcatProperties
  <2>1. /\ k \o b \in Seq(Keys) /\ Len(k \o b) = 3
        /\ \A i \in 1 .. 3 : (k \o b)[i] = IF i <= 1 THEN k[i] ELSE b[i - 1]
    BY <1>2, <2>0
  <2>2. (k \o b)[1] = k[1] /\ (k \o b)[2] = b[1] /\ (k \o b)[3] = b[2]
    BY <2>1
  <2>3. \A i \in 1 .. 3 : i = 1 \/ i = 2 \/ i = 3
    OBVIOUS
  <2>4. \A i \in 1 .. 3 : (k \o b)[i] = t[i]
    BY <1>2, <2>2, <2>3
  <2> QED
    BY <1>2, <2>1, <2>4, SeqEqual
<1>4. ASSUME NEW x \in Keys
      PROVE  t \o <<x>> = <<key, "postgres", "bindBuildingBlock", x>>
  <2> DEFINE e == <<x>>
             u == <<key, "postgres", "bindBuildingBlock", x>>
  <2>1. /\ e \in Seq(Keys) /\ Len(e) = 1 /\ e[1] = x
        /\ u \in Seq(Keys) /\ Len(u) = 4
        /\ u[1] = key /\ u[2] = "postgres" /\ u[3] = "bindBuildingBlock" /\ u[4] = x
    BY <1>1
  <2> HIDE DEF t, e, u
  <2>0. /\ t \o e \in Seq(Keys) /\ Len(t \o e) = Len(t) + Len(e)
        /\ \A i \in 1 .. Len(t) + Len(e) :
             (t \o e)[i] = IF i <= Len(t) THEN t[i] ELSE e[i - Len(t)]
    BY <1>2, <2>1, ConcatProperties
  <2>2. /\ t \o e \in Seq(Keys) /\ Len(t \o e) = 4
        /\ \A i \in 1 .. 4 : (t \o e)[i] = IF i <= 3 THEN t[i] ELSE e[i - 3]
    BY <1>2, <2>0, <2>1
  <2>3. /\ (t \o e)[1] = t[1] /\ (t \o e)[2] = t[2] /\ (t \o e)[3] = t[3]
        /\ (t \o e)[4] = e[1]
    BY <2>2
  <2>4. \A i \in 1 .. 4 : i = 1 \/ i = 2 \/ i = 3 \/ i = 4
    OBVIOUS
  <2>5. \A i \in 1 .. 4 : (t \o e)[i] = u[i]
    BY <1>2, <2>1, <2>3, <2>4
  <2>6. t \o e = u
    BY <2>1, <2>2, <2>5, SeqEqual
  <2> QED
    BY <2>6 DEF e, u
<1> QED
  BY <1>3, <1>4

\* A path with nothing but maps above it.
Rooted(t, p) ==
  /\ p \in Seq(Keys) /\ p # <<>>
  /\ \A n \in 1 .. Len(p) - 1 : SubSeq(p, 1, n) \in DOMAIN t /\ t[SubSeq(p, 1, n)] = Map

LEMMA RootedOne ==
  ASSUME NEW t, NEW a \in Keys
  PROVE  Rooted(t, <<a>>)
<1>1. <<a>> \in Seq(Keys) /\ <<a>> # <<>> /\ Len(<<a>>) = 1
  BY ShortPath
<1>2. 1 .. Len(<<a>>) - 1 = {}
  BY <1>1
<1> QED
  BY <1>1, <1>2 DEF Rooted

LEMMA RootedTwo ==
  ASSUME NEW t, NEW a \in Keys, NEW b \in Keys, <<a>> \in DOMAIN t, t[<<a>>] = Map
  PROVE  Rooted(t, <<a, b>>)
<1> DEFINE p == <<a, b>>
<1>1. p \in Seq(Keys) /\ p # <<>> /\ Len(p) = 2 /\ SubSeq(p, 1, 1) = <<a>>
  BY Pair
<1> HIDE DEF p
<1>2. \A n \in 1 .. Len(p) - 1 : n = 1
  BY <1>1
<1>3. Rooted(t, p)
  BY <1>1, <1>2 DEF Rooted
<1> QED
  BY <1>3 DEF p

LEMMA RootedThree ==
  ASSUME NEW t, NEW a \in Keys, NEW b \in Keys, NEW c \in Keys,
         <<a>> \in DOMAIN t, t[<<a>>] = Map, <<a, b>> \in DOMAIN t, t[<<a, b>>] = Map
  PROVE  Rooted(t, <<a, b, c>>)
<1> DEFINE p == <<a, b, c>>
<1>1. /\ p \in Seq(Keys) /\ p # <<>> /\ Len(p) = 3
      /\ SubSeq(p, 1, 1) = <<a>> /\ SubSeq(p, 1, 2) = <<a, b>>
  BY Triple
<1> HIDE DEF p
<1>2. \A n \in 1 .. Len(p) - 1 : n = 1 \/ n = 2
  BY <1>1
<1>3. Rooted(t, p)
  BY <1>1, <1>2 DEF Rooted
<1> QED
  BY <1>3 DEF p

LEMMA RootedFour ==
  ASSUME NEW t, NEW a \in Keys, NEW b \in Keys, NEW c \in Keys, NEW d \in Keys,
         <<a>> \in DOMAIN t, t[<<a>>] = Map, <<a, b>> \in DOMAIN t, t[<<a, b>>] = Map,
         <<a, b, c>> \in DOMAIN t, t[<<a, b, c>>] = Map
  PROVE  Rooted(t, <<a, b, c, d>>)
<1> DEFINE p == <<a, b, c, d>>
<1>1. /\ p \in Seq(Keys) /\ p # <<>> /\ Len(p) = 4
      /\ SubSeq(p, 1, 1) = <<a>> /\ SubSeq(p, 1, 2) = <<a, b>> /\ SubSeq(p, 1, 3) = <<a, b, c>>
  BY Quadruple
<1> HIDE DEF p
<1>2. \A n \in 1 .. Len(p) - 1 : n = 1 \/ n = 2 \/ n = 3
  BY <1>1
<1>3. Rooted(t, p)
  BY <1>1, <1>2 DEF Rooted
<1> QED
  BY <1>3 DEF p

LEMMA DatabaseIsTree ==
  ASSUME NEW key, NEW d
  PROVE  IsTree([p \in {q \in DOMAIN Database(d) : q[1] # key} |-> Database(d)[p]])
<1> DEFINE db == Database(d)
           t == [p \in {q \in DOMAIN db : q[1] # key} |-> db[p]]
           one == <<"sqldatabase">>
           two == <<"sqldatabase", "databases">>
           enabled == <<"sqldatabase", "enabled">>
           environment == <<"sqldatabase", "environment">>
<1>1. /\ "sqldatabase" \in Keys /\ "enabled" \in Keys /\ "environment" \in Keys
      /\ "databases" \in Keys /\ "sql" \in Keys
  BY KeysAssumption
<1>2. /\ one[1] = "sqldatabase" /\ two[1] = "sqldatabase" /\ enabled[1] = "sqldatabase"
      /\ environment[1] = "sqldatabase" /\ Instances[1] = "sqldatabase"
  BY DEF Instances
<1>3. /\ one # enabled /\ one # environment /\ one # Instances
      /\ two # enabled /\ two # environment /\ two # Instances
  BY DEF Instances
<1>4. DOMAIN db = {one, two, enabled, environment, Instances} /\ db[one] = Map /\ db[two] = Map
  BY <1>3 DEF Database
<1>5. CASE key = "sqldatabase"
  <2>1. DOMAIN t = {}
    BY <1>2, <1>4, <1>5
  <2> QED
    BY <2>1 DEF IsTree
<1>6. CASE key # "sqldatabase"
  <2>1. DOMAIN t = {one, two, enabled, environment, Instances} /\ t[one] = Map /\ t[two] = Map
    BY <1>2, <1>4, <1>6
  <2> HIDE DEF t
  <2>2. Rooted(t, one)
    BY <1>1, RootedOne
  <2>3. Rooted(t, two) /\ Rooted(t, enabled) /\ Rooted(t, environment)
    BY <1>1, <2>1, RootedTwo
  <2>4. Rooted(t, Instances)
    BY <1>1, <2>1, RootedThree DEF Instances
  <2> HIDE DEF one, two, enabled, environment
  <2>5. \A p \in DOMAIN t : Rooted(t, p)
    BY <2>1, <2>2, <2>3, <2>4
  <2>6. IsTree(t)
    BY <2>5 DEF Rooted, IsTree
  <2> QED
    BY <2>6 DEF t
<1> QED
  BY <1>5, <1>6

LEMMA BindIsTree ==
  ASSUME NEW key \in Keys, NEW d
  PROVE  /\ IsTree(BindValues(key, d))
         /\ \A p \in DOMAIN BindValues(key, d) : p[1] = key
         /\ LET bound == <<key>> \o BindSuffix \o <<"instanceName">>
            IN  /\ bound \in DOMAIN BindValues(key, d)
                /\ BindValues(key, d)[bound] = Scalar(Head(d.resources).name)
<1> DEFINE t == BindValues(key, d)
           one == <<key>>
           two == <<key, "postgres">>
           three == <<key, "postgres", "bindBuildingBlock">>
           enabled == <<key, "postgres", "bindBuildingBlock", "enabled">>
           bound == <<key, "postgres", "bindBuildingBlock", "instanceName">>
           name == Scalar(Head(d.resources).name)
<1>1. /\ "postgres" \in Keys /\ "bindBuildingBlock" \in Keys /\ "enabled" \in Keys
      /\ "instanceName" \in Keys
  BY KeysAssumption
<1>2. /\ one[1] = key /\ two[1] = key /\ three[1] = key /\ enabled[1] = key /\ bound[1] = key
  OBVIOUS
<1>3. /\ one # enabled /\ two # enabled /\ three # enabled /\ bound # enabled
      /\ one # bound /\ two # bound /\ three # bound
  OBVIOUS
<1>4. /\ <<key>> \o BindSuffix = three
      /\ three \o <<"enabled">> = enabled
      /\ three \o <<"instanceName">> = bound
  BY <1>1, BindPaths
<1>5. DOMAIN t = {one, two, three, three \o <<"enabled">>, three \o <<"instanceName">>}
  <2> HIDE DEF three
  <2> QED
    BY <1>4 DEF BindValues
<1>6. ASSUME NEW p \in DOMAIN t
      PROVE  /\ p = three \o <<"instanceName">> /\ p # three \o <<"enabled">> => t[p] = name
             /\ p # three \o <<"enabled">> /\ p # three \o <<"instanceName">> => t[p] = Map
  <2> HIDE DEF three, name
  <2> QED
    BY <1>4, <1>6 DEF BindValues, name
<1> HIDE DEF t
<1>7. /\ DOMAIN t = {one, two, three, enabled, bound}
      /\ t[one] = Map /\ t[two] = Map /\ t[three] = Map /\ t[bound] = name
  <2> HIDE DEF one, two, three, enabled, bound, name
  <2> QED
    BY <1>3, <1>4, <1>5, <1>6
<1>8. Rooted(t, one)
  BY RootedOne
<1>9. Rooted(t, two)
  BY <1>1, <1>7, RootedTwo
<1>10. Rooted(t, three)
  BY <1>1, <1>7, RootedThree
<1>11. Rooted(t, enabled) /\ Rooted(t, bound)
  BY <1>1, <1>7, RootedFour
<1> HIDE DEF one, two, three, enabled, bound, name
<1>12. \A p \in DOMAIN t : Rooted(t, p) /\ p[1] = key
  BY <1>2, <1>7, <1>8, <1>9, <1>10, <1>11
<1>13. IsTree(t)
  BY <1>12 DEF Rooted, IsTree
<1>14. bound \in DOMAIN t /\ t[bound] = name
  BY <1>7
<1>15. <<key>> \o BindSuffix \o <<"instanceName">> = bound
  BY <1>4
<1> QED
  BY <1>12, <1>13, <1>14, <1>15 DEF t, name

LEMMA PlatformIsTree ==
  ASSUME NEW key, NEW d, d.resources # <<>> => key \in Keys
  PROVE  IsTree(PlatformValues(key, d))
<1>1. CASE d.resources = <<>>
  BY <1>1, EmptyIsTree DEF PlatformValues
<1>2. CASE d.resources # <<>>
  <2> DEFINE rest == [p \in {q \in DOMAIN Database(d) : q[1] # key} |-> Database(d)[p]]
  <2>1. PlatformValues(key, d) = Merge(rest, BindValues(key, d))
    BY <1>2 DEF PlatformValues
  <2>2. IsTree(rest)
    BY DatabaseIsTree
  <2>3. IsTree(BindValues(key, d))
    BY <1>2, BindIsTree
  <2> HIDE DEF rest
  <2> QED
    BY <2>1, <2>2, <2>3, MergeOfTrees
<1> QED
  BY <1>1, <1>2

(***************************************************************************)
(* The key of the application.                                             *)
(***************************************************************************)

Below == {w \in Nat \X Nat : w[1] < w[2]}

LEMMA Least ==
  ASSUME NEW T, T \subseteq Nat, T # {}
  PROVE  \E n \in T : \A m \in T : n <= m
<1>1. IsWellFoundedOn(Below, Nat)
  BY NatLessThanWellFounded DEF OpToRel, Below
<1>2. PICK n \in T : \A m \in T : <<m, n>> \notin Below
  BY <1>1, WFMin
<1>3. ASSUME NEW m \in T PROVE n <= m
  <2>1. m \in Nat /\ n \in Nat /\ <<m, n>> \notin Below
    BY <1>2
  <2> QED
    BY <2>1 DEF Below
<1> QED
  BY <1>3

LEMMA IntervalInNat ==
  ASSUME NEW l \in Nat
  PROVE  1 .. l \subseteq Nat
  OBVIOUS

LEMMA AppDependency ==
  ASSUME NEW u \in Umbrellas, AppValuesKeyOf(u.deps) # ""
  PROVE  /\ AppValuesKeyOf(u.deps) \in Keys
         /\ \E n \in DOMAIN u.deps :
              /\ u.deps[n].local
              /\ AppValuesKeyOf(u.deps) =
                   IF u.deps[n].alias # "" THEN u.deps[n].alias ELSE u.deps[n].name
<1> DEFINE deps == u.deps
           I == {i \in 1 .. Len(deps) : deps[i].local}
           n == IF I # {} THEN Min(I) ELSE 0
<1>1. AppValuesKeyOf(deps) =
        IF n = 0 THEN "" ELSE IF deps[n].alias # "" THEN deps[n].alias ELSE deps[n].name
  BY DEF AppValuesKeyOf, SelectInSeq
<1>2. Len(deps) \in Nat /\ DOMAIN deps = 1 .. Len(deps)
  BY TreeAssumption, LenProperties
<1>3. n # 0 => n \in I
  <2>1. I \subseteq Nat
    <3>1. 1 .. Len(deps) \subseteq Nat
      BY <1>2, IntervalInNat
    <3> QED
      BY <3>1, Zenon
  <2>2. ASSUME I # {} PROVE Min(I) \in I
    <3>1. \E x \in I : \A y \in I : x <= y
      BY <2>1, <2>2, Least
    <3> HIDE DEF I
    <3> QED
      BY <3>1 DEF Min
  <2> QED
    BY <2>2
<1>4. n # 0
  BY <1>1
<1>5. n \in 1 .. Len(deps) /\ deps[n].local
  BY <1>3, <1>4
<1>6. deps[n] \in Range(deps)
  BY <1>2, <1>5 DEF Range
<1> HIDE DEF n, I
<1>7. deps[n].name \in Keys /\ deps[n].alias \in Keys
  BY <1>6, TreeAssumption
<1> QED
  BY <1>1, <1>2, <1>4, <1>5, <1>7

(***************************************************************************)
(* Types.                                                                  *)
(***************************************************************************)

LEMMA ComposedIsTree ==
  ASSUME NEW u \in Umbrellas, NEW d, IsTree(d.overlay),
         d.resources # <<>> => AppValuesKeyOf(u.deps) # ""
  PROVE  IsTree(Composed(u, d))
<1> DEFINE key == AppValuesKeyOf(u.deps)
<1>1. d.resources # <<>> => key \in Keys
  BY AppDependency
<1> HIDE DEF key
<1>2. IsTree(PlatformValues(key, d))
  BY <1>1, PlatformIsTree
<1>3. IsTree(Merge(u.values, d.overlay))
  BY TreeAssumption, MergeOfTrees
<1>4. IsTree(Merge(Merge(u.values, d.overlay), PlatformValues(key, d)))
  BY <1>2, <1>3, MergeOfTrees
<1> QED
  BY <1>4 DEF Composed, key

\* Every variable keeps its type: what is declared is built into resources the
\* contract of the XRD allows, and what is composed is a tree of values again
\* (resource.go:30-47, composer.go:136-153).
THEOREM TypeCorrect == Spec => []TypeOK
<1>1. ASSUME GateInv, VerdictInv, OriginInv
      PROVE  TypeOK
  <2>1. scaffold # None => scaffold.policy \in Policies /\ scaffold.shape \in Resource
    BY <1>1 DEF OriginInv, ShapeOf
  <2>2. answer # None => answer.policy \in Policies /\ answer.verdict \in Verdicts
    <3>1. answer # None => answer.verdict = VerdictUnder(answer.policy, draft)
      BY <1>1 DEF OriginInv
    <3>2. VerdictUnder(answer.policy, draft) \in Verdicts
      BY DEF VerdictUnder, Verdicts
    <3>3. answer # None => answer.policy \in Policies
      BY <1>1 DEF OriginInv
    <3> QED
      BY <3>1, <3>2, <3>3
  <2>3. stored # None => IsTree(stored.overlay) /\ stored.resources \in Seq(Resource)
    BY <1>1 DEF OriginInv, GateInv, Accepted
  <2>4. shipped # None => IsTree(shipped.values)
    <3> HAVE shipped # None
    <3>1. /\ stored # None /\ shipped.umbrella \in Umbrellas
          /\ shipped.values = Composed(shipped.umbrella, stored)
      BY <1>1 DEF GateInv
    <3>2. stored.resources # <<>> => AppValuesKeyOf(shipped.umbrella.deps) # ""
      BY <1>1 DEF OriginInv
    <3> QED
      BY <2>3, <3>1, <3>2, ComposedIsTree
  <2>5. /\ policy \in Policies /\ IsTree(draft.overlay)
        /\ dry # None => dry.policy \in Policies /\ dry.blocked \in BOOLEAN
        /\ restarts \in 0 .. MaxRestarts
    BY <1>1 DEF GateInv, OriginInv
  <2> QED
    BY <2>1, <2>2, <2>3, <2>4, <2>5 DEF TypeOK
<1> QED
  BY <1>1, GateInvariant, VerdictInvariant, OriginInvariant, PTL

(***************************************************************************)
(* The bind names the database that is there.                              *)
(***************************************************************************)

\* No umbrella chart hands its application the key of the building block: with
\* such a key the two blocks of platformValues are one entry of one map, and the
\* bind replaces the database (execute.go:475-504).
NoClash == \A u \in Umbrellas : AppValuesKeyOf(u.deps) # "sqldatabase"

\* The platform layer holds both: the list that was declared, and the bind.
LEMMA PlatformHolds ==
  ASSUME NEW key \in Keys, key # "sqldatabase", NEW d, d.resources # <<>>
  PROVE  LET platform == PlatformValues(key, d)
             bound == <<key>> \o BindSuffix \o <<"instanceName">>
         IN  /\ Instances \in DOMAIN platform /\ platform[Instances] = List(d.resources)
             /\ bound \in DOMAIN platform /\ platform[bound] = Scalar(Head(d.resources).name)
<1> DEFINE db == Database(d)
           rest == [p \in {q \in DOMAIN db : q[1] # key} |-> db[p]]
           bind == BindValues(key, d)
           platform == PlatformValues(key, d)
           bound == <<key>> \o BindSuffix \o <<"instanceName">>
<1>1. platform = Merge(rest, bind)
  BY DEF PlatformValues
<1>2. /\ IsTree(bind) /\ \A p \in DOMAIN bind : p[1] = key
      /\ bound \in DOMAIN bind /\ bind[bound] = Scalar(Head(d.resources).name)
  BY BindIsTree
<1>3. /\ Instances \in Seq(Keys) /\ Instances # <<>> /\ Instances[1] = "sqldatabase"
      /\ Len(Instances) = 3
  BY Triple, KeysAssumption DEF Instances
<1>4. Instances \in DOMAIN rest
  <2>1. Instances \in DOMAIN db
    BY DEF Database
  <2> QED
    BY <1>3, <2>1
<1> HIDE DEF rest, bind, platform, bound
<1>5. ASSUME NEW q \in DOMAIN bind
      PROVE  ~IsStrictPrefix(q, Instances)
  <2>1. q \in Seq(Keys) /\ q # <<>> /\ q[1] = key
    BY <1>2 DEF IsTree
  <2>2. Len(q) \in Nat \ {0}
    BY <2>1, EmptySeq, LenProperties
  <2>3. 1 \in 1 .. Len(q)
    BY <2>2
  <2>4. IsPrefix(q, Instances) => q[1] = Instances[1]
    BY <1>3, <2>1, <2>3, PrefixElements
  <2> QED
    BY <1>3, <2>1, <2>4 DEF IsStrictPrefix
<1>6. Instances \in DOMAIN platform
  BY <1>1, <1>4, <1>5, MergeDomain
<1>7. platform[Instances] = List(d.resources)
  BY <1>6, PlatformInstances DEF platform
<1>8. bound \in DOMAIN platform /\ platform[bound] = bind[bound]
  <2>1. bound \in DOMAIN platform
    BY <1>1, <1>2, MergeDomain
  <2> QED
    BY <1>1, <1>2, <2>1, MergeValue
<1> QED
  BY <1>2, <1>6, <1>7, <1>8 DEF platform, bound

LEMMA BindInv == NoClash /\ GateInv /\ OriginInv => BindMatchesInstance
<1> SUFFICES ASSUME NoClash, GateInv, OriginInv, shipped # None, stored.resources # <<>>
             PROVE  \E n \in DOMAIN shipped.umbrella.deps :
                      LET dep == shipped.umbrella.deps[n]
                          key == IF dep.alias # "" THEN dep.alias ELSE dep.name
                          bound == <<key>> \o BindSuffix \o <<"instanceName">>
                          list == shipped.values[Instances][2]
                      IN  /\ dep.local
                          /\ Len(list) = 1 /\ list[1].name = stored.app
                          /\ bound \in DOMAIN shipped.values
                          /\ shipped.values[bound] = Scalar(list[1].name)
  BY DEF BindMatchesInstance
<1> DEFINE u == shipped.umbrella
           key == AppValuesKeyOf(u.deps)
           platform == PlatformValues(key, stored)
           bound == <<key>> \o BindSuffix \o <<"instanceName">>
<1>1. u \in Umbrellas /\ key # "" /\ key # "sqldatabase" /\ stored # None
  BY DEF GateInv, OriginInv, NoClash
<1>2. /\ key \in Keys
      /\ \E n \in DOMAIN u.deps :
           /\ u.deps[n].local
           /\ key = IF u.deps[n].alias # "" THEN u.deps[n].alias ELSE u.deps[n].name
  BY <1>1, AppDependency
<1>3. /\ Instances \in DOMAIN platform /\ platform[Instances] = List(stored.resources)
      /\ bound \in DOMAIN platform /\ platform[bound] = Scalar(Head(stored.resources).name)
  BY <1>1, <1>2, PlatformHolds
<1>4. shipped.values = Merge(Merge(u.values, stored.overlay), platform)
  BY DEF GateInv, Composed
<1>5. /\ stored.resources \in Seq(Resource) /\ Len(stored.resources) = 1
      /\ stored.resources[1].name = stored.app
  BY <1>1 DEF OriginInv
<1>6. Head(stored.resources) = stored.resources[1]
  BY <1>5
<1> HIDE DEF platform, bound
<1>7. /\ Instances \in DOMAIN shipped.values /\ bound \in DOMAIN shipped.values
      /\ shipped.values[Instances] = List(stored.resources)
      /\ shipped.values[bound] = Scalar(Head(stored.resources).name)
  <2> DEFINE low == Merge(u.values, stored.overlay)
  <2> HIDE DEF low
  <2>1. shipped.values = Merge(low, platform)
    BY <1>4 DEF low
  <2>2. ASSUME NEW p \in DOMAIN platform
        PROVE  p \in DOMAIN Merge(low, platform) /\ Merge(low, platform)[p] = platform[p]
    <3>1. p \in DOMAIN Merge(low, platform)
      BY MergeDomain
    <3> QED
      BY <3>1, MergeValue
  <2> QED
    BY <1>3, <2>1, <2>2
<1>8. shipped.values[Instances][2] = stored.resources
  BY <1>7 DEF List
<1>9. PICK n \in DOMAIN u.deps :
        /\ u.deps[n].local
        /\ key = IF u.deps[n].alias # "" THEN u.deps[n].alias ELSE u.deps[n].name
  BY <1>2
<1>10. /\ bound = <<key>> \o BindSuffix \o <<"instanceName">>
       /\ shipped.values[bound] = Scalar(shipped.values[Instances][2][1].name)
  BY <1>6, <1>7, <1>8 DEF bound
<1> HIDE DEF key
<1> QED
  BY <1>5, <1>7, <1>8, <1>9, <1>10

\* A composed chart of a deployment with resources holds one database, named
\* after the application, and the application is bound to that very one under
\* the key Helm hands its subchart, whatever the chart and the overlay say of
\* either (execute.go:490-504, ADR-0023).
THEOREM BindIsTheDatabases == NoClash => (Spec => []BindMatchesInstance)
<1> SUFFICES ASSUME NoClash PROVE Spec => []BindMatchesInstance
  OBVIOUS
<1>1. GateInv /\ OriginInv => BindMatchesInstance
  BY BindInv
<1> QED
  BY <1>1, GateInvariant, OriginInvariant, PTL

(***************************************************************************)
(* A longer path, in dotted notation, is longer: FlattenSeq is computed    *)
(* from the left, so what it makes of a prefix is where it starts.         *)
(***************************************************************************)

\* Induction over the indexes of a sequence, for a set.
LEMMA Inductive ==
  ASSUME NEW m \in Nat, NEW T, 1 \in T, \A n \in 1 .. m - 1 : n \in T => n + 1 \in T
  PROVE  \A n \in 1 .. m : n \in T
<1> SUFFICES ASSUME NEW k \in 1 .. m, k \notin T PROVE FALSE
  OBVIOUS
<1> DEFINE missing == {n \in Nat : n \in 1 .. m /\ n \notin T}
<1>1. missing \subseteq Nat /\ missing # {}
  <2>1. k \in Nat
    OBVIOUS
  <2>2. k \in missing
    BY <2>1
  <2> QED
    BY <2>2, Zenon
<1>2. PICK n \in missing : \A i \in missing : n <= i
  BY <1>1, Least
<1>3. n \in Nat /\ n \in 1 .. m /\ n \notin T
  OBVIOUS
<1>4. n # 1
  BY <1>3
<1>5. n - 1 \in 1 .. m - 1 /\ n - 1 \in Nat /\ n - 1 \in 1 .. m /\ (n - 1) + 1 = n
  BY <1>3, <1>4
<1>6. n - 1 \notin T
  BY <1>3, <1>5
<1>7. n - 1 \in missing
  BY <1>5, <1>6
<1> HIDE DEF missing
<1>8. n <= n - 1
  BY <1>2, <1>7
<1> QED
  BY <1>3, <1>8

\* The function of FlattenSeq, up to n of its elements.
Flattens(s, n, f) ==
  f = [i \in 1 .. n |-> IF i = 1 THEN s[i] ELSE f[i - 1] \o s[i]]

Flat(s) == CHOOSE f : Flattens(s, Len(s), f)

LEMMA FlattenIsFlat ==
  ASSUME NEW s, Len(s) # 0
  PROVE  FlattenSeq(s) = Flat(s)[Len(s)]
  BY DEF FlattenSeq, Flat, Flattens

LEMMA FlatExists ==
  ASSUME NEW S, NEW s \in Seq(Seq(S)), s # <<>>
  PROVE  Flattens(s, Len(s), Flat(s))
<1> DEFINE T == {n \in Nat : \E f : Flattens(s, n, f)}
<1>1. Len(s) \in Nat \ {0}
  BY EmptySeq, LenProperties
<1>2. 1 \in T
  <2> DEFINE f == [i \in 1 .. 1 |-> s[i]]
  <2>1. Flattens(s, 1, f)
    <3>1. f = [i \in 1 .. 1 |-> IF i = 1 THEN s[i] ELSE f[i - 1] \o s[i]]
      OBVIOUS
    <3> HIDE DEF f
    <3> QED
      BY <3>1 DEF Flattens
  <2> QED
    BY <2>1
<1>3. ASSUME NEW n \in 1 .. Len(s) - 1, n \in T
      PROVE  n + 1 \in T
  <2>1. PICK f : Flattens(s, n, f)
    BY <1>3
  <2> DEFINE g == [i \in 1 .. n + 1 |-> IF i = n + 1 THEN f[n] \o s[n + 1] ELSE f[i]]
  <2>2. n \in Nat \ {0}
    BY <1>1
  <2>3. ASSUME NEW i \in 1 .. n + 1
        PROVE  g[i] = IF i = 1 THEN s[i] ELSE g[i - 1] \o s[i]
    <3>1. CASE i = n + 1
      <4>1. i # 1 /\ i - 1 = n /\ n \in 1 .. n + 1 /\ n # n + 1
        BY <2>2, <3>1
      <4>2. g[i] = f[n] \o s[i] /\ g[i - 1] = f[n]
        BY <3>1, <4>1
      <4> QED
        BY <4>1, <4>2
    <3>2. CASE i # n + 1
      <4>1. i \in 1 .. n
        BY <2>2, <3>2
      <4>2. g[i] = f[i] /\ f[i] = IF i = 1 THEN s[i] ELSE f[i - 1] \o s[i]
        BY <2>1, <3>2, <4>1 DEF Flattens
      <4>3. i # 1 => i - 1 \in 1 .. n + 1 /\ i - 1 # n + 1
        BY <2>2, <4>1
      <4>4. i # 1 => g[i - 1] = f[i - 1]
        BY <4>3
      <4> HIDE DEF g
      <4> QED
        BY <4>2, <4>4
    <3> QED
      BY <3>1, <3>2
  <2>4. g = [i \in 1 .. n + 1 |-> g[i]]
    OBVIOUS
  <2> HIDE DEF g
  <2>5. Flattens(s, n + 1, g)
    BY <2>3, <2>4 DEF Flattens
  <2> QED
    BY <2>2, <2>5
<1>4. Len(s) \in 1 .. Len(s)
  BY <1>1
<1> HIDE DEF T
<1>5. Len(s) \in T
  BY <1>1, <1>2, <1>3, <1>4, Inductive
<1>6. \E f : Flattens(s, Len(s), f)
  BY <1>5 DEF T
<1> QED
  BY <1>6 DEF Flat

LEMMA FlatValue ==
  ASSUME NEW S, NEW s \in Seq(Seq(S)), s # <<>>
  PROVE  \A i \in 1 .. Len(s) :
           Flat(s)[i] = IF i = 1 THEN s[i] ELSE Flat(s)[i - 1] \o s[i]
<1> DEFINE f == Flat(s)
<1>1. Flattens(s, Len(s), f)
  BY FlatExists, Zenon
<1> HIDE DEF f
<1>2. \A i \in 1 .. Len(s) : f[i] = IF i = 1 THEN s[i] ELSE f[i - 1] \o s[i]
  BY <1>1 DEF Flattens
<1> QED
  BY <1>2 DEF f

\* Its values are sequences, each where the later ones start.
LEMMA FlatGrows ==
  ASSUME NEW S, NEW s \in Seq(Seq(S)), s # <<>>
  PROVE  /\ \A n \in 1 .. Len(s) : Flat(s)[n] \in Seq(S)
         /\ \A m, n \in 1 .. Len(s) : m <= n => IsPrefix(Flat(s)[m], Flat(s)[n])
<1> DEFINE f == Flat(s)
           typed == {n \in Nat : f[n] \in Seq(S)}
<1>1. Len(s) \in Nat \ {0}
  BY EmptySeq, LenProperties
<1>2. \A i \in 1 .. Len(s) : s[i] \in Seq(S)
  BY ElementOfSeq
<1>3. \A i \in 1 .. Len(s) : f[i] = IF i = 1 THEN s[i] ELSE f[i - 1] \o s[i]
  BY FlatValue, Zenon
<1> HIDE DEF f
<1>4. 1 \in typed
  <2>1. 1 \in 1 .. Len(s)
    BY <1>1
  <2>2. f[1] = s[1]
    BY <1>3, <2>1
  <2> QED
    BY <1>2, <2>1, <2>2
<1>5. ASSUME NEW n \in 1 .. Len(s) - 1
      PROVE  /\ n \in Nat /\ n + 1 \in Nat /\ n \in 1 .. Len(s) /\ n + 1 \in 1 .. Len(s)
             /\ f[n + 1] = f[n] \o s[n + 1]
  <2>1. n \in Nat \ {0} /\ n \in 1 .. Len(s) /\ n + 1 \in 1 .. Len(s)
    BY <1>1
  <2>2. n + 1 # 1 /\ (n + 1) - 1 = n
    BY <2>1
  <2>3. f[n + 1] = f[(n + 1) - 1] \o s[n + 1]
    BY <1>3, <2>1, <2>2
  <2>4. f[(n + 1) - 1] = f[n]
    BY <2>2
  <2>5. n \in Nat /\ n + 1 \in Nat
    BY <2>1
  <2> QED
    BY <2>1, <2>3, <2>4, <2>5
<1>6. ASSUME NEW n \in 1 .. Len(s) - 1, n \in typed
      PROVE  n + 1 \in typed
  <2>1. f[n] \in Seq(S) /\ s[n + 1] \in Seq(S)
    BY <1>2, <1>5, <1>6
  <2>2. f[n] \o s[n + 1] \in Seq(S)
    BY <2>1, ConcatProperties
  <2> QED
    BY <1>5, <2>2
<1>7. \A n \in 1 .. Len(s) : f[n] \in Seq(S)
  <2> HIDE DEF typed
  <2>1. \A n \in 1 .. Len(s) : n \in typed
    BY <1>1, <1>4, <1>6, Inductive
  <2> QED
    BY <2>1 DEF typed
<1>8. ASSUME NEW a \in Seq(S), NEW b \in Seq(S)
      PROVE  IsPrefix(a, a \o b)
  <2>1. Len(a) \in Nat /\ Len(b) \in Nat
    BY LenProperties
  <2>2. /\ a \o b \in Seq(S) /\ Len(a \o b) = Len(a) + Len(b)
        /\ \A i \in 1 .. Len(a) + Len(b) :
             (a \o b)[i] = IF i <= Len(a) THEN a[i] ELSE b[i - Len(a)]
    BY ConcatProperties
  <2>3. \A i \in 1 .. Len(a) : i \in 1 .. Len(a) + Len(b) /\ i <= Len(a)
    BY <2>1
  <2>4. \A i \in 1 .. Len(a) : a[i] = (a \o b)[i]
    BY <2>2, <2>3
  <2>5. Len(a) <= Len(a \o b)
    BY <2>1, <2>2
  <2> QED
    BY <2>2, <2>4, <2>5, PrefixElements
<1>9. ASSUME NEW m \in 1 .. Len(s)
      PROVE  \A n \in 1 .. Len(s) : m <= n => IsPrefix(f[m], f[n])
  <2> DEFINE T == {n \in Nat : m <= n => IsPrefix(f[m], f[n])}
  <2>1. IsPrefix(f[m], f[m])
    <3>1. Len(f[m]) \in Nat
      BY <1>7, LenProperties
    <3> QED
      BY <1>7, <3>1, PrefixElements
  <2>2. 1 \in T
    <3>1. m <= 1 => m = 1
      BY <1>1
    <3> QED
      BY <2>1, <3>1
  <2>3. ASSUME NEW n \in 1 .. Len(s) - 1, n \in T
        PROVE  n + 1 \in T
    <3>1. /\ n \in Nat /\ n + 1 \in Nat /\ n \in 1 .. Len(s) /\ n + 1 \in 1 .. Len(s)
          /\ f[n + 1] = f[n] \o s[n + 1]
      BY <1>5
    <3>2. m <= n + 1 => m <= n \/ m = n + 1
      BY <1>1, <3>1
    <3>3. IsPrefix(f[n], f[n + 1])
      BY <1>2, <1>7, <1>8, <3>1
    <3>4. m <= n => IsPrefix(f[m], f[n + 1])
      BY <1>7, <2>3, <3>1, <3>3, PrefixTransitive
    <3> QED
      BY <2>1, <3>1, <3>2, <3>4
  <2> HIDE DEF T
  <2>4. \A n \in 1 .. Len(s) : n \in T
    BY <1>1, <2>2, <2>3, Inductive
  <2> QED
    BY <2>4 DEF T
<1> QED
  BY <1>7, <1>9 DEF f

\* Of a prefix it computes the same values.
LEMMA FlatAgrees ==
  ASSUME NEW S, NEW s \in Seq(Seq(S)), NEW t \in Seq(Seq(S)), s # <<>>, t # <<>>,
         IsPrefix(s, t)
  PROVE  \A n \in 1 .. Len(s) : Flat(s)[n] = Flat(t)[n]
<1> DEFINE f == Flat(s)
           g == Flat(t)
           T == {n \in Nat : f[n] = g[n]}
<1>1. Len(s) \in Nat \ {0} /\ Len(t) \in Nat /\ Len(s) <= Len(t)
  BY EmptySeq, LenProperties, PrefixElements
<1>2. \A i \in 1 .. Len(s) : s[i] = t[i] /\ i \in 1 .. Len(t)
  BY <1>1, PrefixElements
<1>3. \A i \in 1 .. Len(s) : f[i] = IF i = 1 THEN s[i] ELSE f[i - 1] \o s[i]
  BY FlatValue, Zenon
<1>4. \A i \in 1 .. Len(t) : g[i] = IF i = 1 THEN t[i] ELSE g[i - 1] \o t[i]
  BY FlatValue, Zenon
<1> HIDE DEF f, g
<1>5. 1 \in T
  <2>1. 1 \in 1 .. Len(s) /\ 1 \in 1 .. Len(t)
    BY <1>1
  <2>2. f[1] = s[1] /\ g[1] = t[1]
    BY <1>3, <1>4, <2>1
  <2> QED
    BY <1>2, <2>1, <2>2
<1>6. ASSUME NEW n \in 1 .. Len(s) - 1, n \in T
      PROVE  n + 1 \in T
  <2>1. n \in Nat \ {0} /\ n + 1 \in Nat /\ n + 1 \in 1 .. Len(s)
    BY <1>1
  <2>2. n + 1 # 1 /\ (n + 1) - 1 = n
    BY <2>1
  <2>3. f[n + 1] = f[n] \o s[n + 1] /\ g[n + 1] = g[n] \o t[n + 1]
    BY <1>2, <1>3, <1>4, <2>1, <2>2
  <2> QED
    BY <1>2, <1>6, <2>1, <2>3
<1> HIDE DEF T
<1>7. \A n \in 1 .. Len(s) : n \in T
  BY <1>1, <1>5, <1>6, Inductive
<1> QED
  BY <1>7 DEF T, f, g

\* The segments of the keys of a path, one sequence per key.
LEMMA SegmentsOf ==
  ASSUME NEW p \in Seq(Keys), p # <<>>
  PROVE  LET s == [n \in DOMAIN p |-> Segments(p[n])]
         IN  s \in Seq(Seq(Keys)) /\ s # <<>> /\ Len(s) = Len(p)
               /\ \A n \in 1 .. Len(p) : s[n] = Segments(p[n])
<1> DEFINE s == [n \in DOMAIN p |-> Segments(p[n])]
<1>1. Len(p) \in Nat \ {0} /\ DOMAIN p = 1 .. Len(p)
  BY EmptySeq, LenProperties
<1>2. ASSUME NEW k \in Keys
      PROVE  Segments(k) \in Seq(Keys)
  <2>1. <<k>> \in Seq(Keys)
    BY ShortPath
  <2> QED
    BY <2>1, KeysAssumption DEF Segments
<1>3. \A n \in 1 .. Len(p) : Segments(p[n]) \in Seq(Keys)
  BY <1>2, ElementOfSeq
<1>4. s = [n \in 1 .. Len(p) |-> Segments(p[n])]
  BY <1>1
<1>5. s \in Seq(Seq(Keys)) /\ Len(s) = Len(p)
  BY <1>1, <1>3, <1>4
<1>6. \A n \in 1 .. Len(p) : s[n] = Segments(p[n])
  BY <1>4
<1> HIDE DEF s
<1>7. s # <<>>
  BY <1>1, <1>5
<1> QED
  BY <1>5, <1>6, <1>7 DEF s

LEMMA DottedGrows ==
  ASSUME NEW p \in Seq(Keys), NEW q \in Seq(Keys), p # <<>>, q # <<>>, IsPrefix(p, q)
  PROVE  /\ Dotted(p) \in Seq(Keys) /\ Dotted(q) \in Seq(Keys)
         /\ IsPrefix(Dotted(p), Dotted(q))
<1> DEFINE s == [n \in DOMAIN p |-> Segments(p[n])]
           t == [n \in DOMAIN q |-> Segments(q[n])]
<1>1. /\ s \in Seq(Seq(Keys)) /\ s # <<>> /\ Len(s) = Len(p)
      /\ \A n \in 1 .. Len(p) : s[n] = Segments(p[n])
  BY SegmentsOf
<1>2. /\ t \in Seq(Seq(Keys)) /\ t # <<>> /\ Len(t) = Len(q)
      /\ \A n \in 1 .. Len(q) : t[n] = Segments(q[n])
  BY SegmentsOf
<1>3. Dotted(p) = FlattenSeq(s) /\ Dotted(q) = FlattenSeq(t)
  BY DEF Dotted
<1> HIDE DEF s, t
<1>4. /\ Len(p) \in Nat \ {0} /\ Len(q) \in Nat \ {0} /\ Len(p) <= Len(q)
      /\ \A n \in 1 .. Len(p) : p[n] = q[n]
  BY EmptySeq, LenProperties, PrefixElements
<1>5. \A n \in 1 .. Len(p) : n \in 1 .. Len(q)
  BY <1>4
<1>6. \A n \in 1 .. Len(s) : s[n] = t[n]
  BY <1>1, <1>2, <1>4, <1>5
<1>7. IsPrefix(s, t)
  BY <1>1, <1>2, <1>4, <1>6, PrefixElements
<1>8. Len(s) # 0 /\ Len(t) # 0 /\ Len(s) \in 1 .. Len(s) /\ Len(t) \in 1 .. Len(t)
      /\ Len(s) \in 1 .. Len(t) /\ Len(s) <= Len(t)
  BY <1>1, <1>2, <1>4
<1>9. Dotted(p) = Flat(s)[Len(s)] /\ Dotted(q) = Flat(t)[Len(t)]
  BY <1>3, <1>8, FlattenIsFlat
<1>10. Flat(s)[Len(s)] = Flat(t)[Len(s)]
  BY <1>1, <1>2, <1>7, <1>8, FlatAgrees
<1>11. /\ Flat(t)[Len(s)] \in Seq(Keys) /\ Flat(t)[Len(t)] \in Seq(Keys)
       /\ IsPrefix(Flat(t)[Len(s)], Flat(t)[Len(t)])
  BY <1>2, <1>8, FlatGrows
<1> QED
  BY <1>9, <1>10, <1>11

(***************************************************************************)
(* What an overlay changes, it has a leaf for.                             *)
(***************************************************************************)

Leaf(t, q) == q \in DOMAIN t /\ \A r \in DOMAIN t : ~IsStrictPrefix(q, r)

\* Beneath every path of a finite document there is a leaf.
LEMMA LeafBeneath ==
  ASSUME NEW t, IsTree(t), IsFiniteSet(DOMAIN t), NEW p \in DOMAIN t
  PROVE  \E q \in DOMAIN t : Leaf(t, q) /\ IsPrefix(p, q)
<1> DEFINE under(q) == {r \in DOMAIN t : IsPrefix(q, r)}
           sizes == {Cardinality(under(q)) : q \in under(p)}
<1>1. \A q \in DOMAIN t : q \in Seq(Keys)
  BY DEF IsTree
<1>2. ASSUME NEW q \in DOMAIN t
      PROVE  q \in under(q)
  <2>1. Len(q) \in Nat
    BY <1>1, LenProperties
  <2>2. IsPrefix(q, q)
    BY <1>1, <2>1, PrefixElements
  <2> QED
    BY <2>2
<1>3. ASSUME NEW q \in DOMAIN t
      PROVE  IsFiniteSet(under(q)) /\ Cardinality(under(q)) \in Nat
  <2>1. under(q) \in SUBSET DOMAIN t
    OBVIOUS
  <2>2. IsFiniteSet(under(q))
    BY <2>1, FS_Subset
  <2> QED
    BY <2>2, FS_CardinalityType
<1>4. sizes \subseteq Nat /\ sizes # {}
  <2>1. \A q \in under(p) : Cardinality(under(q)) \in Nat
    BY <1>3
  <2>2. Cardinality(under(p)) \in sizes
    BY <1>2
  <2> QED
    BY <2>1, <2>2, Zenon
<1>5. PICK n \in sizes : \A m \in sizes : n <= m
  BY <1>4, Least
<1>6. PICK q \in under(p) : n = Cardinality(under(q))
  OBVIOUS
<1>7. ASSUME NEW r \in DOMAIN t, IsStrictPrefix(q, r)
      PROVE  FALSE
  <2>1. q \in DOMAIN t /\ IsPrefix(p, q) /\ IsPrefix(q, r) /\ q # r
    BY <1>7 DEF IsStrictPrefix
  <2>2. r \in under(p)
    BY <1>1, <2>1, PrefixTransitive
  <2>3. under(r) \in SUBSET under(q)
    BY <1>1, <2>1, PrefixTransitive
  <2>4. q \in under(q) /\ q \notin under(r)
    BY <1>1, <1>2, <2>1, PrefixAntisymmetric
  <2>5. n <= Cardinality(under(r))
    BY <1>5, <2>2
  <2> DEFINE a == under(q)
             b == under(r)
             i == Cardinality(a)
             j == Cardinality(b)
  <2>6. IsFiniteSet(a) /\ b \in SUBSET a /\ a # b
    BY <1>3, <2>1, <2>3, <2>4
  <2>7. i \in Nat /\ j \in Nat /\ i <= j
    BY <1>3, <1>6, <2>1, <2>5
  <2> HIDE DEF a, b
  <2>8. j <= i /\ i # j
    BY <2>6, FS_Subset
  <2> HIDE DEF i, j
  <2> QED
    BY <2>7, <2>8
<1> QED
  BY <1>6, <1>7 DEF Leaf

\* A value that replaces a map of the chart, or a leaf of it, is one itself.
LEMMA ScalarIsLeaf ==
  ASSUME NEW t, IsTree(t), NEW q \in DOMAIN t, t[q] # Map
  PROVE  Leaf(t, q)
<1> SUFFICES ASSUME NEW r \in DOMAIN t, IsStrictPrefix(q, r) PROVE FALSE
  BY DEF Leaf
<1>1. q \in Seq(Keys) /\ q # <<>> /\ r \in Seq(Keys)
  BY DEF IsTree
<1>2. Len(q) \in Nat \ {0} /\ Len(r) \in Nat
  BY <1>1, EmptySeq, LenProperties
<1>3. Len(q) <= Len(r) /\ SubSeq(q, 1, Len(q)) = SubSeq(r, 1, Len(q)) /\ q # r
  BY DEF IsStrictPrefix, IsPrefix
<1>4. q = SubSeq(r, 1, Len(q))
  BY <1>1, <1>3, SubSeqFull
<1>5. Len(q) # Len(r)
  BY <1>1, <1>3, <1>4, SubSeqFull
<1>6. Len(q) \in 1 .. Len(r) - 1
  BY <1>2, <1>3, <1>5
<1> QED
  BY <1>4, <1>6 DEF IsTree

LEMMA ChangeHasLeaf ==
  ASSUME NEW v, NEW o, IsTree(o), IsFiniteSet(DOMAIN o), NEW platform, NEW p,
         LET with == Merge(Merge(v, o), platform)
             without == Merge(Merge(v, Empty), platform)
         IN  /\ p \in DOMAIN without \cup DOMAIN with
             /\ \/ p \notin DOMAIN without \/ p \notin DOMAIN with
                \/ without[p] # with[p]
  PROVE  \E q \in DOMAIN o : Leaf(o, q) /\ (IsPrefix(p, q) \/ IsPrefix(q, p))
<1> DEFINE high == Merge(v, o)
           low == Merge(v, Empty)
           with == Merge(high, platform)
           without == Merge(low, platform)
           spared == \A q \in DOMAIN platform : IsStrictPrefix(q, p) => platform[q] = Map
<1>1. /\ p \in DOMAIN with <=> (p \in DOMAIN high /\ spared) \/ p \in DOMAIN platform
      /\ p \in DOMAIN without <=> (p \in DOMAIN low /\ spared) \/ p \in DOMAIN platform
  <2>1. ASSUME NEW t
        PROVE  p \in DOMAIN Merge(t, platform) <=>
                 (p \in DOMAIN t /\ spared) \/ p \in DOMAIN platform
    BY MergeHas, Zenon
  <2> HIDE DEF high, low, spared
  <2>2. p \in DOMAIN with <=> (p \in DOMAIN high /\ spared) \/ p \in DOMAIN platform
    BY <2>1, Zenon
  <2>3. p \in DOMAIN without <=> (p \in DOMAIN low /\ spared) \/ p \in DOMAIN platform
    BY <2>1, Zenon
  <2> QED
    BY <2>2, <2>3, Zenon
<1>2. DOMAIN low = DOMAIN v /\ \A q \in DOMAIN v : low[q] = v[q]
  BY MergeEmpty
<1>3. p \notin DOMAIN platform
  <2> SUFFICES ASSUME p \in DOMAIN platform PROVE FALSE
    OBVIOUS
  <2>1. p \in DOMAIN with /\ p \in DOMAIN without
    BY <1>1
  <2>2. with[p] = platform[p] /\ without[p] = platform[p]
    BY <2>1, MergeValue
  <2> QED
    BY <2>1, <2>2
<1>4. CASE p \in DOMAIN o
  BY <1>4, LeafBeneath
<1>5. CASE p \notin DOMAIN o
  <2>1. p \in DOMAIN v /\ spared
    <3>1. p \in DOMAIN with \/ p \in DOMAIN without
      OBVIOUS
    <3>2. p \in DOMAIN high => p \in DOMAIN v
      BY <1>5, MergeValue
    <3> QED
      BY <1>1, <1>2, <1>3, <3>1, <3>2
  <2>2. p \in DOMAIN without /\ without[p] = v[p]
    <3>1. p \in DOMAIN without
      BY <1>1, <1>2, <2>1
    <3> QED
      BY <1>2, <1>3, <2>1, <3>1, MergeValue
  <2>3. p \notin DOMAIN high
    <3> SUFFICES ASSUME p \in DOMAIN high PROVE FALSE
      OBVIOUS
    <3>1. p \in DOMAIN with
      BY <1>1, <2>1
    <3>2. with[p] = high[p] /\ high[p] = v[p]
      BY <1>3, <1>5, <3>1, MergeValue
    <3> QED
      BY <2>2, <3>1, <3>2
  <2>4. PICK q \in DOMAIN o : IsStrictPrefix(q, p) /\ o[q] # Map
    <3>1. DOMAIN high =
            {r \in DOMAIN v : \A q \in DOMAIN o : IsStrictPrefix(q, r) => o[q] = Map}
            \cup DOMAIN o
      BY MergeDomain
    <3>2. ~\A q \in DOMAIN o : IsStrictPrefix(q, p) => o[q] = Map
      BY <2>1, <2>3, <3>1
    <3> QED
      BY <3>2
  <2>5. Leaf(o, q)
    BY <2>4, ScalarIsLeaf
  <2> QED
    BY <2>4, <2>5 DEF IsStrictPrefix
<1> QED
  BY <1>4, <1>5

LEMMA TunableInv == GateInv /\ OriginInv => EnforcedOverlayIsTunable
<1> DEFINE allowlist == answer.policy.allowlist
           entries == IF stored.env \in DOMAIN allowlist.envs
                      THEN allowlist.envs[stored.env] ELSE allowlist.default
           differs(p) == \/ p \notin DOMAIN Baseline \/ p \notin DOMAIN shipped.values
                         \/ Baseline[p] # shipped.values[p]
<1> SUFFICES ASSUME GateInv, OriginInv,
                    shipped # None, allowlist # None, allowlist.mode = "enforce",
                    NEW p \in DOMAIN Baseline \cup DOMAIN shipped.values, differs(p)
             PROVE  \E entry \in entries :
                      IsPrefix(entry, Dotted(p)) \/ IsPrefix(Dotted(p), entry)
  BY DEF EnforcedOverlayIsTunable
<1> DEFINE u == shipped.umbrella
           o == stored.overlay
           platform == PlatformValues(AppValuesKeyOf(u.deps), stored)
           e == [stored EXCEPT !.overlay = Empty]
<1>1. /\ stored # None /\ Accepted(stored) /\ u \in Umbrellas /\ IsTree(u.values)
      /\ shipped.values = Composed(u, stored)
  BY TreeAssumption DEF GateInv
<1>2. /\ IsTree(o) /\ IsFiniteSet(DOMAIN o) /\ answer # None /\ answer.policy \in Policies
      /\ ~AllowlistRejects(allowlist, o, stored.env)
      /\ stored.resources # <<>> => AppValuesKeyOf(u.deps) # ""
  BY <1>1 DEF OriginInv, Accepted
<1>3. /\ e.overlay = Empty /\ e.resources = stored.resources
      /\ PlatformValues(AppValuesKeyOf(u.deps), e) = platform
  <2>1. e.overlay = Empty /\ e.resources = stored.resources
    BY <1>1 DEF Accepted
  <2>2. PlatformValues(AppValuesKeyOf(u.deps), e) = platform
    BY <1>1, PlatformIgnoresOverlay
  <2> QED
    BY <2>1, <2>2
<1>4. /\ shipped.values = Merge(Merge(u.values, o), platform)
      /\ Baseline = Merge(Merge(u.values, Empty), platform)
  BY <1>1, <1>3 DEF Baseline, Composed
\* The path is one of a tree.
<1>5. p \in Seq(Keys) /\ p # <<>>
  <2>1. IsTree(shipped.values)
    BY <1>1, <1>2, ComposedIsTree
  <2>2. IsTree(Baseline)
    <3>1. e.resources # <<>> => AppValuesKeyOf(u.deps) # ""
      BY <1>2, <1>3
    <3> HIDE DEF e
    <3>2. IsTree(Composed(u, e))
      BY <1>1, <1>3, <3>1, EmptyIsTree, ComposedIsTree
    <3> QED
      BY <3>2 DEF Baseline, e
  <2> QED
    BY <2>1, <2>2 DEF IsTree
\* The overlay has a leaf on its line, and an entry covers the leaf.
<1>6. PICK q \in DOMAIN o : Leaf(o, q) /\ (IsPrefix(p, q) \/ IsPrefix(q, p))
  <2> HIDE DEF u, platform, o
  <2> QED
    BY <1>2, <1>4, ChangeHasLeaf
<1>7. PICK entry \in entries : IsPrefix(entry, Dotted(q))
  <2>1. Dotted(q) \in FlattenKeys(o)
    BY <1>6 DEF FlattenKeys, Leaf
  <2>2. Violations(allowlist, o, stored.env) = {}
    BY <1>2 DEF AllowlistRejects
  <2> QED
    BY <2>1, <2>2 DEF Violations, KeysFor
<1>8. entry \in Seq(Keys)
  <2>1. entries \in {allowlist.default} \cup Range(allowlist.envs)
    BY DEF Range
  <2>2. entries \subseteq Seq(Keys)
    BY <1>2, <2>1, PolicyAssumption
  <2> QED
    BY <1>7, <2>2
<1>9. q \in Seq(Keys) /\ q # <<>>
  BY <1>2 DEF IsTree
<1>10. CASE IsPrefix(p, q)
  <2>1. /\ Dotted(p) \in Seq(Keys) /\ Dotted(q) \in Seq(Keys)
        /\ IsPrefix(Dotted(p), Dotted(q))
    BY <1>5, <1>9, <1>10, DottedGrows
  <2> QED
    BY <1>7, <1>8, <2>1, PrefixesCompare
<1>11. CASE IsPrefix(q, p)
  <2>1. /\ Dotted(p) \in Seq(Keys) /\ Dotted(q) \in Seq(Keys)
        /\ IsPrefix(Dotted(q), Dotted(p))
    BY <1>5, <1>9, <1>11, DottedGrows
  <2> QED
    BY <1>7, <1>8, <2>1, PrefixTransitive
<1> QED
  BY <1>6, <1>10, <1>11

\* With an enforcing allowlist, an overlay changes nothing in the composed chart
\* but what is covered by an entry for its environment, or is above or beneath
\* such a value: also where it cuts a map of the chart off with a leaf, where its
\* keys contain dots, and where the allowlist was replaced after the deployment
\* was accepted (allowlist.go:114-169).
THEOREM EnforcedOverlaysAreTunable == Spec => []EnforcedOverlayIsTunable
  BY TunableInv, GateInvariant, OriginInvariant, PTL
=============================================================================
