-------------------------- MODULE ServerGroupProofs -------------------------
(***************************************************************************)
(* Theorems about ServerGroup, for any finite set of servers, any labels,  *)
(* any health policies and any number of changes.                          *)
(***************************************************************************)
EXTENDS ServerGroup, FiniteSetTheorems, TLAPS

-----------------------------------------------------------------------------
(* Counting *)

\* A member list is finite, and so is every part of it.
LEMMA ProvidersFinite ==
  ASSUME NEW P \in SUBSET (Servers \X States)
  PROVE  IsFiniteSet(P) /\ Cardinality(P) \in Nat
<1>1. IsFiniteSet(States)
  <2>1. {"Initializing"} \cup {"Ready"} = {"Initializing", "Ready"}
    OBVIOUS
  <2>2. IsFiniteSet({"Initializing"})
    BY FS_Singleton
  <2>3. IsFiniteSet({"Initializing", "Ready"})
    BY <2>1, <2>2, FS_AddElement
  <2>4. {"Initializing", "Ready"} \cup {"Degraded"} = {"Initializing", "Ready", "Degraded"}
    OBVIOUS
  <2>5. IsFiniteSet({"Initializing", "Ready", "Degraded"})
    BY <2>3, <2>4, FS_AddElement
  <2>6. {"Initializing", "Ready", "Degraded"} \cup {"Cold"}
          = {"Initializing", "Ready", "Degraded", "Cold"}
    OBVIOUS
  <2>7. IsFiniteSet({"Initializing", "Ready", "Degraded", "Cold"})
    BY <2>5, <2>6, FS_AddElement
  <2>8. {"Initializing", "Ready", "Degraded", "Cold"} \cup {"Dead"} = States
    BY DEF States
  <2> QED
    BY <2>7, <2>8, FS_AddElement
<1>2. IsFiniteSet(Servers \X States)
  BY <1>1, ServersAssumption, FS_Product
<1> QED
  BY <1>2, FS_Subset, FS_CardinalityType

\* The counters of a member list are numbers.
LEMMA TallyType ==
  ASSUME NEW P \in SUBSET (Servers \X States)
  PROVE  Tally(P) \in [States -> Nat]
<1>1. ASSUME NEW t \in States PROVE Cardinality({m \in P : m[2] = t}) \in Nat
  BY ProvidersFinite
<1> QED
  BY <1>1 DEF Tally

\* Rounding down does not change the verdict on a percentage: the quotient reaches a
\* whole number exactly when the dividend reaches its product with the divisor.
LEMMA DivReaches ==
  ASSUME NEW a \in Nat, NEW b \in Nat, b > 0, NEW m \in Nat
  PROVE  a \div b >= m <=> a >= m * b
<1>1. /\ a \div b \in Nat
      /\ b * (a \div b) <= a /\ a < b * ((a \div b) + 1)
  OBVIOUS
<1>2. ASSUME NEW x \in Nat, NEW y \in Nat, x <= y PROVE b * x <= b * y
  BY <1>2
<1>3. a \div b >= m => b * m <= b * (a \div b)
  BY <1>1, <1>2
<1>4. a \div b < m => b * ((a \div b) + 1) <= b * m
  BY <1>1, <1>2
<1> QED
  BY <1>1, <1>3, <1>4

\* IsHealthy on the counters says what the policy asks of the members
\* (MCPServerGroupStatus.IsHealthy).
LEMMA HealthyMeets ==
  ASSUME NEW P \in SUBSET (Servers \X States), NEW policy \in Policies
  PROVE  IsHealthy(Tally(P)["Ready"], Cardinality(P), policy) <=> Meets(P, policy)
<1> DEFINE R == {m \in P : m[2] = "Ready"}
<1>1. Tally(P)["Ready"] = Cardinality(R)
  BY DEF Tally, States
<1>2. /\ Cardinality(P) \in Nat /\ (Cardinality(P) > 0 <=> P # {})
      /\ Cardinality(R) \in Nat /\ (Cardinality(R) > 0 <=> R # {})
  BY ProvidersFinite, FS_EmptySet
<1>3. policy.kind \in {"none", "count", "percent"} /\ policy.min \in Nat
  BY PolicyAssumption DEF Policy
<1>4. Cardinality(P) > 0 =>
        ((Cardinality(R) * 100) \div Cardinality(P) >= policy.min
           <=> 100 * Cardinality(R) >= policy.min * Cardinality(P))
  BY <1>2, <1>3, DivReaches
<1> HIDE DEF R
<1>5. Meets(P, policy) <=>
        /\ P # {}
        /\ policy.kind = "none" => R # {}
        /\ policy.kind = "count" => Cardinality(R) >= policy.min
        /\ policy.kind = "percent" => 100 * Cardinality(R) >= policy.min * Cardinality(P)
  BY DEF Meets, R
<1> QED
  BY <1>1, <1>2, <1>3, <1>4, <1>5 DEF IsHealthy

-----------------------------------------------------------------------------
(* The inductive invariants *)

\* Every change of the spec counts in the generation, so its bound follows from the
\* bound on changes.
Bounded == live.generation <= changes + 1

\* What a version of the group says of the versions before it: the copy is the
\* latest one unless it is behind, so is what the pass holds unless it is stale, an
\* equal generation means an equal spec, and a deletion is not undone.
VersionInv ==
    /\ ~behind => cache = live
    /\ pc # "idle" /\ ~stale => held = live
    /\ cache.generation <= live.generation
    /\ cache.generation = live.generation => cache.spec = live.spec
    /\ live.phase = "live" => cache.phase = "live"

\* The status st is the work of one pass, on the spec of obj if it says so.
OfOnePass(st, obj) ==
    /\ st.observed <= obj.generation
    /\ st.available # "None" =>
           /\ st.providerCount = Cardinality(st.providers)
           /\ st.count = Tally(st.providers)
           /\ st.available = Truth(st.count["Ready"] > 0)
           /\ st.degraded = Truth(st.count["Degraded"] + st.count["Dead"] > 0)
           /\ st.ready = "True" => st.providerCount > 0
           /\ st.observed = obj.generation /\ obj.spec.selector # Invalid =>
                (st.ready = "True" <=> Meets(st.providers, obj.spec.policy))

\* So is the status that is there, and the one a pass is about to write over it.
OnePassInv ==
    /\ OfOnePass(live.status, live)
    /\ pc = "updateStatus" /\ ~stale => OfOnePass(new, live)

\* The informer has seen the spec, and no pass is due.
Caught == /\ live.phase = "live" /\ live.spec.selector # Invalid
          /\ live.generation = cache.generation
          /\ ~queued /\ ~lagged

\* A pass that started on the latest version loses it only to a change that brings
\* another pass, and what it counted is still what is there unless a server's event
\* brings another.
ExactInv ==
    /\ pc # "idle" /\ Caught => ~stale
    /\ pc = "updateStatus" /\ Caught => new = Aggregate(live)
    /\ pc = "idle" /\ Caught => live.status = Aggregate(live)

-----------------------------------------------------------------------------
(* What a pass computes *)

\* The members of a group with their states.
Members(obj) == {<<s, server[s].state>> : s \in {x \in Servers : Selects(obj.spec, x)}}

\* The empty status is a status, and it has no conditions.
LEMMA NoStatusType == NoStatus \in StatusSet /\ NoStatus.available = "None"
<1>1. [t \in States |-> 0] \in [States -> Nat] /\ 0 \in 0 .. MaxChanges + 1
  BY ChangesAssumption
<1> QED
  BY <1>1 DEF NoStatus, StatusSet, Condition

\* evaluateConditions sets the conditions and keeps the rest.
LEMMA EvaluatedParts ==
  ASSUME NEW st \in StatusSet, NEW policy
  PROVE  LET e == evaluateConditions(st, policy)
         IN  /\ e \in StatusSet
             /\ e.observed = st.observed /\ e.providers = st.providers
             /\ e.providerCount = st.providerCount /\ e.count = st.count
             /\ e.ready = IF st.providerCount = 0 THEN "Unknown"
                          ELSE Truth(IsHealthy(st.count["Ready"], st.providerCount, policy))
             /\ e.available = Truth(st.count["Ready"] > 0)
             /\ e.degraded = Truth(st.count["Degraded"] + st.count["Dead"] > 0)
<1>1. \A b : Truth(b) \in Condition
  BY DEF Truth, Condition
<1>2. "Unknown" \in Condition
  BY DEF Condition
<1> QED
  BY <1>1, <1>2 DEF evaluateConditions, StatusSet

\* What a pass computes from the servers it listed is a status, and all of it follows
\* from the members.
LEMMA AggregateParts ==
  ASSUME NEW obj \in ObjectSet, server \in [Servers -> Member]
  PROVE  LET P  == Members(obj)
             st == Aggregate(obj)
         IN  /\ P \in SUBSET (Servers \X States)
             /\ st \in StatusSet
             /\ st.observed = obj.generation /\ st.providers = P
             /\ st.providerCount = Cardinality(P) /\ st.count = Tally(P)
             /\ st.ready = IF Cardinality(P) = 0 THEN "Unknown"
                           ELSE Truth(IsHealthy(Tally(P)["Ready"], Cardinality(P),
                                                obj.spec.policy))
             /\ st.available = Truth(st.count["Ready"] > 0)
             /\ st.degraded = Truth(st.count["Degraded"] + st.count["Dead"] > 0)
<1> DEFINE P == Members(obj)
           b == [NoStatus EXCEPT !.observed = obj.generation, !.providers = P,
                                 !.providerCount = Cardinality(P), !.count = Tally(P)]
<1>1. P \in SUBSET (Servers \X States)
  BY DEF Members, Member
<1>2. /\ Tally(P) \in [States -> Nat] /\ Cardinality(P) \in Nat
      /\ obj.generation \in 0 .. MaxChanges + 1
  BY <1>1, TallyType, ProvidersFinite, ChangesAssumption DEF ObjectSet
<1>3. Aggregate(obj) = evaluateConditions(b, obj.spec.policy)
  BY DEF Aggregate, Members
<1> HIDE DEF P
<1>4. /\ b \in StatusSet
      /\ b.observed = obj.generation /\ b.providers = P
      /\ b.providerCount = Cardinality(P) /\ b.count = Tally(P)
  BY <1>1, <1>2, NoStatusType DEF StatusSet
<1> HIDE DEF b
<1>5. P = Members(obj)
  BY DEF P
<1> QED
  BY <1>1, <1>3, <1>4, <1>5, EvaluatedParts

-----------------------------------------------------------------------------
(* Type correctness *)

\* The value that stands for no group is a group.
LEMMA NoObjectType == NoObject \in ObjectSet
<1>1. (CHOOSE s \in SpecSet : TRUE) \in SpecSet
  <2>1. PICK q \in Policies : TRUE
    BY PolicyAssumption
  <2>2. [selector |-> Invalid, policy |-> q] \in SpecSet
    BY DEF SpecSet
  <2> QED
    BY <2>2
<1>2. 1 \in 1 .. MaxChanges + 1
  BY ChangesAssumption
<1> QED
  BY <1>1, <1>2, NoStatusType DEF NoObject, ObjectSet

\* Every variable keeps a value of its kind through every step; the generation stays
\* within its bound because each change counts once.
THEOREM TypeCorrect == Spec => [](TypeOK /\ Bounded)
<1>1. Init => TypeOK /\ Bounded
  <2> SUFFICES ASSUME Init PROVE TypeOK /\ Bounded
    OBVIOUS
  <2>1. live \in ObjectSet /\ live.generation = 1
    BY NoStatusType, ChangesAssumption DEF Init, ObjectSet
  <2>2. server \in [Servers -> Member]
    BY StartAssumption DEF Init
  <2>3. changes \in 0 .. MaxChanges /\ Bounded
    BY <2>1, ChangesAssumption DEF Init, Bounded
  <2>4. pc \in Calls
    BY DEF Init, Calls
  <2> QED
    BY <2>1, <2>2, <2>3, <2>4, NoObjectType, NoStatusType DEF Init, TypeOK
<1>2. TypeOK /\ Bounded /\ [Next]_vars => TypeOK' /\ Bounded'
  <2> SUFFICES ASSUME TypeOK, Bounded, [Next]_vars PROVE TypeOK' /\ Bounded'
    OBVIOUS
  <2>a. changes \in Nat /\ MaxChanges \in Nat /\ live.generation \in Nat
    <3>1. live.generation \in 1 .. MaxChanges + 1
      BY DEF TypeOK, ObjectSet
    <3> QED
      BY <3>1, ChangesAssumption DEF TypeOK
  <2>b. ASSUME Change PROVE changes' \in 0 .. MaxChanges /\ changes' = changes + 1
    BY <2>a, <2>b DEF Change
  <2> USE NoObjectType, NoStatusType DEF TypeOK, Bounded, pass, End, Retry, Write
  <2>1. ASSUME Reconcile PROVE TypeOK' /\ Bounded'
    <3>1. pc' \in Calls /\ held' \in ObjectSet /\ stale' \in BOOLEAN
      BY <2>1 DEF Reconcile, Calls
    <3> QED
      BY <2>1, <3>1 DEF Reconcile
  <2>2. ASSUME RemoveFinalizer PROVE TypeOK' /\ Bounded'
    <3>1. live' \in ObjectSet /\ live'.generation = live.generation
      <4>1. CASE live' = [live EXCEPT !.fin = FALSE, !.phase = "gone"]
        BY <4>1 DEF ObjectSet
      <4>2. CASE live' = [live EXCEPT !.fin = FALSE]
        BY <4>2 DEF ObjectSet
      <4> QED
        BY <2>2, <4>1, <4>2 DEF RemoveFinalizer
    <3>2. pc' \in Calls /\ held' \in ObjectSet
      BY <2>2, <3>1 DEF RemoveFinalizer, Calls
    <3> QED
      BY <2>2, <3>1, <3>2 DEF RemoveFinalizer
  <2>3. ASSUME List PROVE TypeOK' /\ Bounded'
    <3>1. CASE held.spec.selector = Invalid
      <4>1. held.generation \in 0 .. MaxChanges + 1 /\ held.status \in StatusSet
        BY <2>a DEF ObjectSet
      <4>2. [held.status EXCEPT !.observed = held.generation, !.ready = "False"] \in StatusSet
        BY <4>1 DEF StatusSet, Condition
      <4> QED
        BY <2>3, <3>1, <4>2 DEF List, Calls
    <3>2. CASE held.spec.selector # Invalid
      <4>1. Aggregate(held) \in StatusSet
        BY AggregateParts
      <4> QED
        BY <2>3, <3>2, <4>1 DEF List, Calls
    <3> QED
      BY <3>1, <3>2
  <2>4. ASSUME updateStatus PROVE TypeOK' /\ Bounded'
    <3>1. live' \in ObjectSet /\ live'.generation = live.generation
      <4>1. CASE live' = [live EXCEPT !.status = new]
        BY <4>1 DEF ObjectSet
      <4> QED
        BY <2>4, <4>1 DEF updateStatus
    <3> QED
      BY <2>4, <3>1 DEF updateStatus, Calls
  <2>5. ASSUME CallFails \/ Requeue PROVE TypeOK' /\ Bounded'
    <3>1. /\ changes' \in 0 .. MaxChanges /\ live.generation <= changes' + 1
          /\ pc' \in Calls
      BY <2>5, <2>a, <2>b DEF CallFails, Requeue, Calls
    <3> QED
      BY <2>5, <3>1 DEF CallFails, Requeue
  <2>6. ASSUME Sync PROVE TypeOK' /\ Bounded'
    BY <2>6 DEF Sync
  <2>7. ASSUME NEW s \in Servers, ServerChanges(s) PROVE TypeOK' /\ Bounded'
    <3>1. PICK m \in Member : /\ server' = [server EXCEPT ![s] = m]
                              /\ queued' = (queued \/ findGroupsForMCPServer(server[s], m))
      BY <2>7 DEF ServerChanges
    <3>2. server' \in [Servers -> Member]
      BY <3>1
    <3>3. queued' \in BOOLEAN
      BY <3>1
    <3>4. changes' \in 0 .. MaxChanges /\ live.generation <= changes' + 1
      BY <2>7, <2>a, <2>b DEF ServerChanges
    <3> QED
      BY <2>7, <3>2, <3>3, <3>4 DEF ServerChanges
  <2>8. ASSUME EditSpec \/ DeleteGroup PROVE TypeOK' /\ Bounded'
    <3>1. changes < MaxChanges /\ changes' \in 0 .. MaxChanges /\ changes' = changes + 1
      BY <2>8, <2>b DEF EditSpec, DeleteGroup, Change
    <3>2. live.generation + 1 \in 1 .. MaxChanges + 1 /\ live.generation + 1 <= changes' + 1
      BY <2>a, <3>1
    <3>3. live' \in ObjectSet /\ live'.generation = live.generation + 1
      <4>1. ASSUME NEW s \in SpecSet,
                   live' = [live EXCEPT !.spec = s, !.generation = @ + 1]
            PROVE  live' \in ObjectSet /\ live'.generation = live.generation + 1
        BY <3>2, <4>1 DEF ObjectSet
      <4>2. ASSUME NEW ph \in {"deleting", "gone"},
                   live' = [live EXCEPT !.phase = ph, !.generation = @ + 1]
            PROVE  live' \in ObjectSet /\ live'.generation = live.generation + 1
        BY <3>2, <4>2 DEF ObjectSet
      <4> QED
        BY <2>8, <4>1, <4>2 DEF EditSpec, DeleteGroup
    <3>4. stale' \in BOOLEAN
      BY <2>8 DEF EditSpec, DeleteGroup
    <3> QED
      BY <2>8, <3>1, <3>2, <3>3, <3>4 DEF EditSpec, DeleteGroup
  <2>9. ASSUME Crash PROVE TypeOK' /\ Bounded'
    <3>1. /\ changes' \in 0 .. MaxChanges /\ live.generation <= changes' + 1
          /\ pc' \in Calls
      BY <2>9, <2>a, <2>b DEF Crash, Calls
    <3> QED
      BY <2>9, <3>1 DEF Crash
  <2>10. ASSUME UNCHANGED vars PROVE TypeOK' /\ Bounded'
    BY <2>10 DEF vars
  <2> QED
    BY <2>1, <2>2, <2>3, <2>4, <2>5, <2>6, <2>7, <2>8, <2>9, <2>10 DEF Next, Step
<1> QED
  BY <1>1, <1>2, PTL DEF Spec

-----------------------------------------------------------------------------
(* Versions *)

\* What each write of the group leaves alone: the finalizer and the status do not
\* touch the generation or the spec, an edit and a deletion count in the generation.
LEMMA Written ==
  ASSUME TypeOK
  PROVE  /\ RemoveFinalizer =>
              /\ live'.generation = live.generation /\ live'.spec = live.spec
              /\ live'.status = live.status /\ (live'.phase = "live" => live.phase = "live")
         /\ updateStatus =>
              /\ live'.generation = live.generation /\ live'.spec = live.spec
              /\ live'.phase = live.phase
              /\ live'.status = live.status \/ (~stale /\ live'.status = new)
         /\ EditSpec \/ DeleteGroup =>
              /\ live'.generation = live.generation + 1 /\ live'.status = live.status
              /\ live'.phase = "live" => live.phase = "live"
<1>1. live \in ObjectSet
  BY DEF TypeOK
<1>2. ASSUME RemoveFinalizer
      PROVE  /\ live'.generation = live.generation /\ live'.spec = live.spec
             /\ live'.status = live.status /\ (live'.phase = "live" => live.phase = "live")
  BY <1>1, <1>2 DEF RemoveFinalizer, Write, ObjectSet
<1>3. ASSUME updateStatus
      PROVE  /\ live'.generation = live.generation /\ live'.spec = live.spec
             /\ live'.phase = live.phase
             /\ live'.status = live.status \/ (~stale /\ live'.status = new)
  BY <1>1, <1>3 DEF updateStatus, Write, ObjectSet
<1>4. ASSUME EditSpec \/ DeleteGroup
      PROVE  /\ live'.generation = live.generation + 1 /\ live'.status = live.status
             /\ live'.phase = "live" => live.phase = "live"
  BY <1>1, <1>4 DEF EditSpec, DeleteGroup, Write, ObjectSet
<1> QED
  BY <1>2, <1>3, <1>4

\* A change of the group makes what a running pass holds stale.
LEMMA MadeStale == EditSpec \/ DeleteGroup => (stale' <=> pc # "idle")
  BY Zenon DEF EditSpec, DeleteGroup

\* Every step keeps VersionInv.
LEMMA VersionStep == TypeOK /\ VersionInv /\ [Next]_vars => VersionInv'
<1> SUFFICES ASSUME TypeOK, VersionInv, [Next]_vars PROVE VersionInv'
  OBVIOUS
<1>a. live.generation \in Nat /\ cache.generation \in Nat
  <2>1. live.generation \in 1 .. MaxChanges + 1 /\ cache.generation \in 1 .. MaxChanges + 1
    BY DEF TypeOK, ObjectSet
  <2> QED
    BY <2>1, ChangesAssumption
<1> USE <1>a DEF VersionInv, pass, End, Retry
<1>1. ASSUME Reconcile PROVE VersionInv'
  BY <1>1 DEF Reconcile
<1>2. ASSUME RemoveFinalizer PROVE VersionInv'
  BY <1>2, Written DEF RemoveFinalizer, Write
<1>3. ASSUME List PROVE VersionInv'
  BY <1>3 DEF List
<1>4. ASSUME updateStatus PROVE VersionInv'
  BY <1>4, Written DEF updateStatus, Write
<1>5. ASSUME CallFails \/ Requeue PROVE VersionInv'
  BY <1>5 DEF CallFails, Requeue
<1>6. ASSUME Sync PROVE VersionInv'
  BY <1>6 DEF Sync
<1>7. ASSUME NEW s \in Servers, ServerChanges(s) PROVE VersionInv'
  BY <1>7 DEF ServerChanges
<1>8. ASSUME EditSpec \/ DeleteGroup PROVE VersionInv'
  <2>1. behind' /\ UNCHANGED <<cache, held, pc>>
    BY <1>8 DEF EditSpec, DeleteGroup, Write
  <2> QED
    BY <1>8, <2>1, Written, MadeStale
<1>9. ASSUME Crash PROVE VersionInv'
  BY <1>9 DEF Crash
<1>10. ASSUME UNCHANGED vars PROVE VersionInv'
  BY <1>10 DEF vars
<1> QED
  BY <1>1, <1>2, <1>3, <1>4, <1>5, <1>6, <1>7, <1>8, <1>9, <1>10 DEF Next, Step

\* VersionInv holds in every state.
LEMMA VersionsHold == Spec => []VersionInv
<1>1. Init => VersionInv
  BY DEF Init, VersionInv
<1> QED
  BY <1>1, VersionStep, TypeCorrect, PTL DEF Spec

-----------------------------------------------------------------------------
(* One pass *)

\* What List computes for the latest version is the work of one pass.
LEMMA ListedOnce ==
  ASSUME TypeOK, OfOnePass(live.status, live), List, held = live
  PROVE  OfOnePass(new', live)
<1>a. live \in ObjectSet /\ live.status \in StatusSet /\ live.generation \in Nat
  <2>1. live \in ObjectSet /\ live.status \in StatusSet /\ live.generation \in 1 .. MaxChanges + 1
    BY DEF TypeOK, ObjectSet
  <2> QED
    BY <2>1, ChangesAssumption
<1>1. CASE live.spec.selector = Invalid
  <2>1. new' = [live.status EXCEPT !.observed = live.generation, !.ready = "False"]
    BY <1>1 DEF List
  <2>2. /\ new'.observed = live.generation /\ new'.ready = "False"
        /\ new'.providers = live.status.providers /\ new'.count = live.status.count
        /\ new'.providerCount = live.status.providerCount
        /\ new'.available = live.status.available /\ new'.degraded = live.status.degraded
    BY <1>a, <2>1 DEF StatusSet
  <2> QED
    BY <1>a, <1>1, <2>2 DEF OfOnePass
<1>2. CASE live.spec.selector # Invalid
  <2> DEFINE P == Members(live)
             st == Aggregate(live)
  <2>1. new' = st
    BY <1>2 DEF List
  <2>2. /\ P \in SUBSET (Servers \X States)
        /\ st.observed = live.generation /\ st.providers = P
        /\ st.providerCount = Cardinality(P) /\ st.count = Tally(P)
        /\ st.ready = IF Cardinality(P) = 0 THEN "Unknown"
                      ELSE Truth(IsHealthy(Tally(P)["Ready"], Cardinality(P), live.spec.policy))
        /\ st.available = Truth(st.count["Ready"] > 0)
        /\ st.degraded = Truth(st.count["Degraded"] + st.count["Dead"] > 0)
    BY <1>a, AggregateParts DEF TypeOK
  <2> HIDE DEF P, st
  <2>3. live.spec.policy \in Policies
    BY <1>a DEF ObjectSet, SpecSet
  <2>4. Cardinality(P) \in Nat /\ (Cardinality(P) = 0 <=> P = {})
    BY <2>2, ProvidersFinite, FS_EmptySet
  <2>5. st.ready = "True" <=> Meets(P, live.spec.policy)
    <3>1. CASE P = {}
      BY <2>2, <2>4, <3>1 DEF Meets
    <3>2. CASE P # {}
      <4>1. st.ready = Truth(IsHealthy(Tally(P)["Ready"], Cardinality(P), live.spec.policy))
        BY <2>2, <2>4, <3>2
      <4> QED
        BY <2>2, <2>3, <4>1, HealthyMeets DEF Truth
    <3> QED
      BY <3>1, <3>2
  <2>6. st.ready = "True" => st.providerCount > 0
    BY <2>2, <2>4
  <2> QED
    BY <1>a, <2>1, <2>2, <2>5, <2>6 DEF OfOnePass
<1> QED
  BY <1>1, <1>2

\* Every step keeps OnePassInv.
LEMMA OnePassStep == TypeOK /\ VersionInv /\ OnePassInv /\ [Next]_vars => OnePassInv'
<1> SUFFICES ASSUME TypeOK, VersionInv, OnePassInv, [Next]_vars PROVE OnePassInv'
  OBVIOUS
<1>a. live.generation \in Nat /\ live.status.observed \in Nat
  <2>1. live.generation \in 1 .. MaxChanges + 1 /\ live.status.observed \in 0 .. MaxChanges + 1
    BY DEF TypeOK, ObjectSet, StatusSet
  <2> QED
    BY <2>1, ChangesAssumption
<1>b. ASSUME UNCHANGED live PROVE OfOnePass(live.status, live)'
  BY <1>b DEF OnePassInv, OfOnePass
<1>c. ASSUME UNCHANGED <<live, pc, stale, new>> PROVE OnePassInv'
  BY <1>c DEF OnePassInv, OfOnePass
<1>1. ASSUME Reconcile PROVE OnePassInv'
  BY <1>1, <1>b DEF Reconcile, OnePassInv, pass
<1>2. ASSUME RemoveFinalizer PROVE OnePassInv'
  <2>1. pc' # "updateStatus"
    BY <1>2 DEF RemoveFinalizer, End, Retry
  <2> QED
    BY <1>2, <2>1, Written DEF OnePassInv, OfOnePass
<1>3. ASSUME List PROVE OnePassInv'
  <2>1. UNCHANGED <<live, stale>> /\ pc = "list"
    BY <1>3 DEF List
  <2>2. ~stale => OfOnePass(new', live)
    BY <1>3, <2>1, ListedOnce DEF VersionInv, OnePassInv
  <2>3. ~stale' => OfOnePass(new, live)'
    BY <2>1, <2>2 DEF OfOnePass
  <2> QED
    BY <2>1, <2>3, <1>b DEF OnePassInv
<1>4. ASSUME updateStatus PROVE OnePassInv'
  <2>1. pc = "updateStatus" /\ pc' # "updateStatus"
    BY <1>4 DEF updateStatus, End, Retry
  <2> QED
    BY <1>4, <2>1, Written DEF OnePassInv, OfOnePass
<1>5. ASSUME CallFails \/ Crash PROVE OnePassInv'
  BY <1>5, <1>b DEF CallFails, Crash, Retry, End, OnePassInv
<1>6. ASSUME Requeue \/ Sync \/ UNCHANGED vars PROVE OnePassInv'
  BY <1>6, <1>c DEF Requeue, Sync, vars, pass
<1>7. ASSUME NEW s \in Servers, ServerChanges(s) PROVE OnePassInv'
  BY <1>7, <1>c DEF ServerChanges, pass
<1>8. ASSUME EditSpec \/ DeleteGroup PROVE OnePassInv'
  <2>1. UNCHANGED pc
    BY <1>8 DEF EditSpec, DeleteGroup
  <2>2. pc = "updateStatus" => stale'
    BY <1>8, MadeStale
  <2>3. OfOnePass(live.status, live)'
    <3>1. live'.generation = live.generation + 1 /\ live'.status = live.status
      BY <1>8, Written
    <3>2. live.status.observed <= live.generation
      BY DEF OnePassInv, OfOnePass
    <3>3. live'.status.observed <= live'.generation /\ live'.status.observed # live'.generation
      BY <1>a, <3>1, <3>2
    <3> QED
      BY <3>1, <3>3 DEF OnePassInv, OfOnePass
  <2> QED
    BY <2>1, <2>2, <2>3 DEF OnePassInv
<1> QED
  BY <1>1, <1>2, <1>3, <1>4, <1>5, <1>6, <1>7, <1>8 DEF Next, Step

\* A status is never a mixture of two passes: its counters, its member list and its
\* conditions go together, whoever changed the group, its finalizer or its members
\* while a pass was on its way (the resourceVersion in updateStatus).
THEOREM OnePassHolds == Spec => []OnePass
<1>1. Init => OnePassInv
  <2> SUFFICES ASSUME Init PROVE OnePassInv
    OBVIOUS
  <2>1. live.status = NoStatus /\ live.generation = 1 /\ pc = "idle"
    BY DEF Init
  <2>2. NoStatus.observed = 0
    BY DEF NoStatus
  <2> QED
    BY <2>1, <2>2, NoStatusType DEF OnePassInv, OfOnePass
<1>2. OnePassInv => OnePass
  BY DEF OnePassInv, OfOnePass, OnePass
<1> QED
  BY <1>1, <1>2, OnePassStep, TypeCorrect, VersionsHold, PTL DEF Spec

-----------------------------------------------------------------------------
(* A group at rest *)

\* What a pass would compute depends on the group through its spec and generation.
LEMMA AggregateKept ==
  ASSUME UNCHANGED server, live'.spec = live.spec, live'.generation = live.generation
  PROVE  Aggregate(live)' = Aggregate(live)
  BY DEF Aggregate, Selects

\* A change of a server that the group selects neither before nor after it leaves the
\* members alone: findGroupsForMCPServer may pass it over.
LEMMA Unselected ==
  ASSUME TypeOK, UNCHANGED live, NEW s \in Servers, NEW m \in Member,
         server' = [server EXCEPT ![s] = m],
         live.spec.selector \notin {server[s].label, m.label} \cap Labels
  PROVE  Aggregate(live)' = Aggregate(live)
<1>1. server \in [Servers -> Member]
  BY DEF TypeOK
<1>2. ASSUME NEW x \in Servers
      PROVE  /\ Selects(live.spec, x)' <=> Selects(live.spec, x)
             /\ Selects(live.spec, x) => server'[x] = server[x]
  BY <1>1 DEF Selects
<1>3. {x \in Servers : Selects(live.spec, x)}' = {x \in Servers : Selects(live.spec, x)}
  BY <1>2
<1>4. {<<x, server[x].state>> : x \in {y \in Servers : Selects(live.spec, y)}}'
        = {<<x, server[x].state>> : x \in {y \in Servers : Selects(live.spec, y)}}
  BY <1>2, <1>3
<1> QED
  BY <1>4 DEF Aggregate

\* Every step keeps ExactInv.
LEMMA ExactStep == TypeOK /\ VersionInv /\ ExactInv /\ [Next]_vars => ExactInv'
<1> SUFFICES ASSUME TypeOK, VersionInv, ExactInv, [Next]_vars PROVE ExactInv'
  OBVIOUS
<1>a. live.generation \in Nat /\ cache.generation \in Nat
  <2>1. live.generation \in 1 .. MaxChanges + 1 /\ cache.generation \in 1 .. MaxChanges + 1
    BY DEF TypeOK, ObjectSet
  <2> QED
    BY <2>1, ChangesAssumption
<1>1. ASSUME Reconcile PROVE ExactInv'
  <2>1. /\ pc = "idle" /\ UNCHANGED <<live, cache, behind>>
        /\ lagged' = behind /\ pc' # "updateStatus"
    BY <1>1 DEF Reconcile, pass
  <2>2. live.phase = "live" => pc' # "idle" /\ stale' = behind
    BY <1>1 DEF Reconcile, VersionInv
  <2> QED
    BY <2>1, <2>2 DEF ExactInv, Caught
<1>2. ASSUME RemoveFinalizer PROVE ExactInv'
  <2>1. /\ pc = "removeFinalizer" /\ UNCHANGED <<cache, server, lagged>>
        /\ pc' # "updateStatus"
    BY <1>2 DEF RemoveFinalizer, End, Retry
  <2>2. \/ queued'
        \/ live'.phase = "gone"
        \/ pc' = "list" /\ UNCHANGED <<stale, queued>>
    <3>1. live \in ObjectSet
      BY DEF TypeOK
    <3> QED
      BY <1>2, <3>1 DEF RemoveFinalizer, End, Retry, Write, ObjectSet
  <2> QED
    BY <1>2, <2>1, <2>2, Written DEF ExactInv, Caught
<1>3. ASSUME List PROVE ExactInv'
  <2>1. /\ pc = "list" /\ pc' = "updateStatus"
        /\ UNCHANGED <<live, cache, server, queued, lagged, stale>>
    BY <1>3 DEF List
  <2>2. Caught => new' = Aggregate(live)
    BY <1>3, <2>1 DEF List, ExactInv, VersionInv, Caught
  <2>3. Aggregate(live)' = Aggregate(live)
    BY <2>1, AggregateKept
  <2> QED
    BY <2>1, <2>2, <2>3 DEF ExactInv, Caught
<1>4. ASSUME updateStatus PROVE ExactInv'
  <2>1. pc = "updateStatus" /\ pc' = "idle" /\ UNCHANGED <<cache, server, lagged>>
    BY <1>4 DEF updateStatus, End, Retry
  <2>2. queued' \/ UNCHANGED queued
    BY <1>4 DEF updateStatus, Retry
  <2>3. Aggregate(live)' = Aggregate(live)
    BY <1>4, <2>1, AggregateKept, Written
  <2>4. Caught /\ ~queued' => live'.status = new
    <3>1. live \in ObjectSet
      BY DEF TypeOK
    <3>2. Caught => held = live
      BY <2>1 DEF ExactInv, VersionInv
    <3> QED
      BY <1>4, <3>1, <3>2 DEF updateStatus, Retry, Write, ObjectSet
  <2> QED
    BY <1>4, <2>1, <2>2, <2>3, <2>4, Written DEF ExactInv, Caught
<1>5. ASSUME CallFails \/ Requeue PROVE ExactInv'
  BY <1>5 DEF CallFails, Requeue, Retry, ExactInv, Caught
<1>6. ASSUME Sync PROVE ExactInv'
  <2>1. /\ UNCHANGED <<live, server, pc, stale, new, lagged>> /\ cache' = live
        /\ live.phase = "live" /\ ~queued' => ~queued /\ cache.generation = live.generation
    BY <1>6 DEF Sync, groupSelfWatch, pass
  <2>2. Caught' => Caught
    BY <2>1 DEF Caught
  <2>3. Aggregate(live)' = Aggregate(live)
    BY <2>1, AggregateKept
  <2> QED
    BY <2>1, <2>2, <2>3 DEF ExactInv
<1>7. ASSUME NEW s \in Servers, ServerChanges(s) PROVE ExactInv'
  <2>1. PICK m \in Member : /\ server' = [server EXCEPT ![s] = m]
                            /\ queued' = (queued \/ findGroupsForMCPServer(server[s], m))
    BY <1>7 DEF ServerChanges
  <2>2. UNCHANGED <<live, cache, pc, stale, new, lagged>>
    BY <1>7 DEF ServerChanges, pass
  <2>3. ~queued' => ~queued /\ ~findGroupsForMCPServer(server[s], m)
    BY <2>1
  <2>4. Caught' => Caught /\ live.spec.selector \notin {server[s].label, m.label} \cap Labels
    BY <2>2, <2>3 DEF Caught, VersionInv, findGroupsForMCPServer
  <2>5. Caught' => Aggregate(live)' = Aggregate(live)
    BY <2>1, <2>2, <2>4, Unselected
  <2> QED
    BY <2>2, <2>4, <2>5 DEF ExactInv
<1>8. ASSUME EditSpec \/ DeleteGroup PROVE ExactInv'
  <2>1. live'.generation = live.generation + 1 /\ UNCHANGED cache
    BY <1>8, Written DEF EditSpec, DeleteGroup
  <2>2. ~Caught'
    BY <1>a, <2>1 DEF Caught, VersionInv
  <2> QED
    BY <2>2 DEF ExactInv
<1>9. ASSUME Crash PROVE ExactInv'
  <2>1. live'.phase = "live" => queued'
    BY <1>9 DEF Crash
  <2> QED
    BY <2>1 DEF ExactInv, Caught
<1>10. ASSUME UNCHANGED vars PROVE ExactInv'
  BY <1>10, AggregateKept DEF vars, ExactInv, Caught
<1> QED
  BY <1>1, <1>2, <1>3, <1>4, <1>5, <1>6, <1>7, <1>8, <1>9, <1>10 DEF Next, Step

\* A group at rest, whose last pass read its latest version, reports its members
\* exactly: no change of a member, a label or the spec is lost between the events,
\* the cache and the pass.  The argument never uses that the calls succeeded.
THEOREM SettledHolds == Spec => []SettledExact
<1>1. Init => ExactInv
  BY DEF Init, ExactInv, Caught
<1>2. ExactInv => SettledExact
  BY DEF ExactInv, Caught, SettledExact
<1> QED
  BY <1>1, <1>2, ExactStep, TypeCorrect, VersionsHold, PTL DEF Spec

=============================================================================
