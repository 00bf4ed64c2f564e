-------------------------- MODULE EgressPolicyProofs ------------------------
(***************************************************************************)
(* Theorems about EgressPolicy, for any policies, any servers, with or     *)
(* without pods, and any number of changes.                                *)
(***************************************************************************)
EXTENDS EgressPolicy, TLAPS

-----------------------------------------------------------------------------
(* The inductive invariants, policy by policy *)

DeleteCalls == {"delResolve", "clear", "removeFinalizer"}
NormalCalls == {"resolve", "applyNP", "applyCNP", "deleteNP", "deleteCNP", "push",
                "writeStatus", "retryStatus"}

\* The finalizer is there while a pass writes for a policy, and goes with it; a pass
\* on a policy works on its target, which is immutable.
PhaseInv(p) ==
    /\ phase[p] = "absent" => p \notin fin /\ pc[p] = "idle"
    /\ phase[p] = "deleting" => p \in fin
    /\ phase[p] = "gone" => p \notin fin
    /\ pc[p] = "addFinalizer" /\ p \notin stale => phase[p] = "live"
    /\ pc[p] \in NormalCalls => p \in fin
    /\ pc[p] \in DeleteCalls => phase[p] = "deleting"
    /\ pc[p] # "idle" => seen[p].target = spec[p].target
    /\ pc[p] = "idle" => p \notin stale

\* What core holds of a policy it holds because the policy pushed it; before the
\* finalizer goes, a named target was cleared or its failure reported.
ClearInv(p) ==
    /\ phase[p] = "absent" => \A s \in Servers : l7[s].by # p
    /\ \A s \in Servers :
          spec[p].target = s /\ l7[s].by = p =>
              /\ p \notin fin \/ pc[p] = "removeFinalizer" => s \in warned[p] \cup kept
              /\ pc[p] = "clear" => s \in todo[p] \cup warned[p] \cup kept

\* Core holds nothing of a server that is not there, unless it kept it.
AbsentInv ==
    \A s \in Servers : server[s] = "absent" => l7[s].by = Unset \/ s \in kept

\* The plan a pass follows, call by call, and the floor it has put in place before
\* it takes the other flavor away.
PlanInv(p) ==
    /\ pc[p] \in {"idle", "addFinalizer", "resolve"} \cup DeleteCalls => plan[p] = "withhold"
    /\ pc[p] = "applyNP" => plan[p] = "vanilla"
    /\ pc[p] = "applyCNP" => plan[p] = "cilium"
    /\ pc[p] = "deleteCNP" => plan[p] \in {"vanilla", "audit"}
    /\ pc[p] = "deleteNP" => plan[p] # "vanilla"
    /\ pc[p] = "push" => plan[p] # "withhold"
    /\ pc[p] \in {"applyNP", "applyCNP", "deleteNP", "deleteCNP", "push"}
          => (plan[p] = "withhold" <=> todo[p] = {})
    /\ sound /\ cnp[p] # {} => crd
    /\ pc[p] = "deleteCNP" /\ plan[p] = "vanilla" /\ p \notin queued => np[p] # {}
    /\ pc[p] = "deleteNP" /\ plan[p] = "cilium" /\ p \notin queued /\ watched => cnp[p] # {}

\* While the policy is not queued, the pass works on its present spec.
FreshInv(p) == p \notin queued /\ pc[p] # "idle" => seen[p] = spec[p] /\ p \notin stale

\* The backstop the present spec and targets call for.
BackstopOK(p) ==
    IF spec[p].mode = "Enforce" /\ spec[p].generate /\ ~(Targets(p) \subseteq Remote)
    THEN \/ np[p] = Targets(p) /\ cnp[p] = {}
         \/ cnp[p] = Targets(p) /\ np[p] = {}
    ELSE np[p] = {} /\ (spec[p].mode = "Audit" => cnp[p] = {})

\* The plan is the one for the present spec and targets.
Fits(p) ==
    /\ plan[p] = "withhold" <=> Targets(p) = {}
    /\ plan[p] = "audit" => spec[p].mode = "Audit"
    /\ plan[p] \in {"optOut", "noPods", "vanilla", "cilium"} => spec[p].mode = "Enforce"
    /\ plan[p] = "optOut" => ~spec[p].generate
    /\ plan[p] \in {"noPods", "vanilla", "cilium"} => spec[p].generate
    /\ plan[p] = "noPods" => Targets(p) \subseteq Remote
    /\ plan[p] \in {"vanilla", "cilium"} => ~(Targets(p) \subseteq Remote)

\* While the policy is not queued, every call has left the backstop as the plan for
\* the present spec and targets wants it.
BackstopInv(p) ==
    phase[p] = "live" /\ p \notin queued /\ sound /\ (crd => watched) =>
        /\ pc[p] \in {"applyNP", "applyCNP", "deleteNP", "deleteCNP", "push", "writeStatus"}
              => Fits(p)
        /\ pc[p] \in {"applyNP", "applyCNP", "deleteNP", "deleteCNP"} => todo[p] = Targets(p)
        /\ pc[p] = "deleteCNP" => np[p] = IF plan[p] = "vanilla" THEN Targets(p) ELSE {}
        /\ pc[p] = "deleteNP" /\ plan[p] = "cilium" => cnp[p] = Targets(p)
        /\ pc[p] \in {"push", "writeStatus"} /\ plan[p] # "withhold" => BackstopOK(p)
        /\ pc[p] = "idle" /\ p \notin timer => BackstopOK(p)

\* Core has the policy's present L7 policy for the servers S.
Pushed(p, S) == \A s \in S : l7[s] = compileL7Policy(p, spec[p])

\* While the policy is not queued and the gateway is there, core has what the pass
\* has pushed so far.
L7Inv(p) ==
    phase[p] = "live" /\ p \notin queued /\ gateway =>
        /\ pc[p] \in {"applyNP", "applyCNP", "deleteNP", "deleteCNP"} => todo[p] = Targets(p)
        /\ pc[p] = "push" => Pushed(p, Targets(p) \ todo[p])
        /\ pc[p] = "writeStatus" /\ plan[p] # "withhold" =>
              Pushed(p, Targets(p)) /\ out[p].l7 = "Delivered"
        /\ pc[p] = "idle" /\ p \notin timer =>
              Pushed(p, Targets(p)) /\ status[p].l7 = "Delivered"

\* The servers a pass has yet to call for a policy that names its target are that one.
TodoInv(p) ==
    /\ pc[p] = "idle" => todo[p] = {}
    /\ spec[p].target # Group => todo[p] \subseteq {spec[p].target}

\* The policies there are have different targets: each names a server of its own, or
\* there is only one policy.
Apart ==
    \A p, q \in existing :
        p # q => /\ spec[p].target # spec[q].target
                 /\ Group \notin {spec[p].target, spec[q].target}

Phases    == \A p \in Policies : PhaseInv(p)
Clears    == AbsentInv /\ \A p \in Policies : ClearInv(p)
PlansInv  == \A p \in Policies : PlanInv(p)
Freshes   == \A p \in Policies : FreshInv(p)
Backstops == \A p \in Policies : BackstopInv(p)
Todos     == \A p \in Policies : TodoInv(p)
L7s       == \A p \in Policies : L7Inv(p)

-----------------------------------------------------------------------------
(* Type correctness *)

\* Every call a pass can make next is one of Calls.
LEMMA CallNames ==
    /\ "idle" \in Calls \cup {"idle"}
    /\ {"addFinalizer", "resolve"} \cup NormalCalls \cup DeleteCalls \subseteq Calls
    /\ \A pl \in Plans : FirstWrite(pl) \in {"applyNP", "applyCNP", "deleteNP"}
    /\ \A pl \in Plans : AfterDelete(pl) \in {"writeStatus", "deleteCNP", "push"}
  BY DEF Calls, NormalCalls, DeleteCalls, FirstWrite, AfterDelete, Plans

\* The values a policy has before it is created and a pass before it reads, and what a
\* policy sends to core, are of their kinds.
LEMMA Values ==
    /\ NoSpec \in SpecSet /\ NoStatus \in StatusSet /\ NoL7 \in L7Set
    /\ "withhold" \in Plans
    /\ \A p \in Policies, s \in SpecSet : compileL7Policy(p, s) \in L7Set
  <1>1. NoSpec \in SpecSet
    BY DEF NoSpec, SpecSet
  <1>2. NoStatus \in StatusSet
    BY DEF NoStatus, StatusSet
  <1>3. NoL7 \in L7Set /\ "withhold" \in Plans
    BY DEF NoL7, L7Set, Plans
  <1>4. ASSUME NEW p \in Policies, NEW s \in SpecSet
        PROVE  compileL7Policy(p, s) \in L7Set
    BY <1>4 DEF compileL7Policy, L7Set, SpecSet
  <1> QED
    BY <1>1, <1>2, <1>3, <1>4

\* A target stands for servers of the namespace, and a pass plans one of Plans.
LEMMA Members ==
    /\ \A t : Resolved(t) \subseteq Servers
    /\ \A p, S : Plan(p, S) \in Plans
  <1>1. \A t : Resolved(t) \subseteq Servers
    BY DEF Resolved
  <1>2. \A p, S : Plan(p, S) \in Plans
    BY DEF Plan, Plans
  <1> QED
    BY <1>1, <1>2

\* The variables of the passes.
PassTypeOK ==
    /\ pc    \in [Policies -> Calls \cup {"idle"}]
    /\ seen  \in [Policies -> SpecSet]
    /\ stale \in SUBSET Policies
    /\ plan  \in [Policies -> Plans]
    /\ todo  \in [Policies -> SUBSET Servers]
    /\ out   \in [Policies -> StatusSet]

\* The other variables.
WorldTypeOK ==
    /\ phase  \in [Policies -> {"absent", "live", "deleting", "gone"}]
    /\ fin    \in SUBSET Policies
    /\ spec   \in [Policies -> SpecSet]
    /\ status \in [Policies -> StatusSet]
    /\ server \in [Servers -> {"absent", "outside", "member"}]
    /\ group  \in BOOLEAN
    /\ np     \in [Policies -> SUBSET Servers]
    /\ cnp    \in [Policies -> SUBSET Servers]
    /\ crd \in BOOLEAN /\ agent \in BOOLEAN
    /\ watched \in BOOLEAN /\ sound \in BOOLEAN
    /\ gateway \in BOOLEAN
    /\ l7     \in [Servers -> L7Set]
    /\ kept   \in SUBSET Servers
    /\ queued \in SUBSET Policies
    /\ timer  \in SUBSET Policies
    /\ warned \in [Policies -> SUBSET Servers]
    /\ changes \in 0..MaxChanges

\* The type invariant is the two together.
LEMMA TypeParts ==
    (TypeOK <=> PassTypeOK /\ WorldTypeOK) /\ (TypeOK <=> PassTypeOK /\ WorldTypeOK)'
  BY DEF TypeOK, PassTypeOK, WorldTypeOK

\* A change counts one up to the bound.
LEMMA ChangeType ==
    ASSUME WorldTypeOK, Change \/ UNCHANGED changes
    PROVE  changes' \in 0..MaxChanges
  BY ChangesAssumption DEF WorldTypeOK, Change

\* Going to a call keeps the calls' types.
LEMMA GotoType ==
    ASSUME PassTypeOK, NEW p \in Policies, NEW c \in Calls, Goto(p, c)
    PROVE  pc' \in [Policies -> Calls \cup {"idle"}]
  BY DEF PassTypeOK, Goto

\* The end of a pass leaves every copy of it empty.
LEMMA EndType ==
    ASSUME PassTypeOK, NEW p \in Policies, End(p)
    PROVE  PassTypeOK'
  BY Values DEF PassTypeOK, End

\* A failed call keeps the types.
LEMMA FailType ==
    ASSUME TypeOK, NEW p \in Policies, FailStep(p), Change \/ UNCHANGED changes
    PROVE  TypeOK'
  <1>1. PassTypeOK /\ WorldTypeOK
    BY TypeParts
  <1>2. changes' \in 0..MaxChanges
    BY <1>1, ChangeType
  <1>3. pc' \in [Policies -> Calls \cup {"idle"}]
    <2>1. "retryStatus" \in Calls
      BY CallNames DEF NormalCalls
    <2> QED
      BY <1>1, <2>1, GotoType DEF FailStep
  <1> QED
    BY <1>1, <1>2, <1>3
       DEF TypeOK, PassTypeOK, WorldTypeOK, FailStep, object, cluster, cilium, core, work

\* Every variable keeps the values of its kind, whatever the policies, servers and
\* changes.
THEOREM TypeCorrect == Spec => []TypeOK
  <1>1. Init => TypeOK
    BY Values, ChangesAssumption DEF Init, TypeOK
  <1>2. TypeOK /\ [Next]_vars => TypeOK'
    <2> SUFFICES ASSUME TypeOK, [Next]_vars
                 PROVE  TypeOK'
      OBVIOUS
    <2>0. PassTypeOK /\ WorldTypeOK
      BY TypeParts
    <2>1. ASSUME NEW p \in Policies, Reconcile(p)
          PROVE  TypeOK'
      <3>1. FirstCall(p) \in Calls
        BY <2>1, CallNames DEF FirstCall, NormalCalls, DeleteCalls
      <3>2. pc' \in [Policies -> Calls \cup {"idle"}]
        BY <2>1, <2>0, <3>1, GotoType DEF Reconcile, PassTypeOK
      <3>3. PassTypeOK'
        BY <2>1, <2>0, <3>2 DEF Reconcile, PassTypeOK, WorldTypeOK
      <3>4. WorldTypeOK'
        BY <2>1, <2>0 DEF Reconcile, WorldTypeOK, object, cluster, cilium, core
      <3> QED
        BY <3>1, <3>2, <3>3, <3>4, TypeParts
    <2>2. ASSUME NEW p \in Policies, AddFinalizer(p)
          PROVE  TypeOK'
      <3>1. changes' \in 0..MaxChanges
        BY <2>2, <2>0, ChangeType DEF AddFinalizer
      <3>2. "resolve" \in Calls
        BY <2>2, CallNames
      <3>3. PassTypeOK'
        BY <2>2, <2>0, <3>2, GotoType, EndType DEF AddFinalizer, Retry, PassTypeOK, work
      <3>4. WorldTypeOK'
        BY <2>2, <2>0, <3>1 DEF AddFinalizer, Retry, WorldTypeOK, cluster, cilium, core
      <3> QED
        BY <3>1, <3>2, <3>3, <3>4, TypeParts
    <2>3. ASSUME NEW p \in Policies, Resolve(p)
          PROVE  TypeOK'
      <3>1. /\ Resolved(seen[p].target) \in SUBSET Servers
              /\ Plan(p, Resolved(seen[p].target)) \in Plans
        BY <2>3, Members
      <3>2. FirstWrite(Plan(p, Resolved(seen[p].target))) \in Calls
        BY <2>3, <3>1, CallNames DEF NormalCalls
      <3>3. pc' \in [Policies -> Calls \cup {"idle"}]
        BY <2>3, <2>0, <3>2, GotoType DEF Resolve
      <3>4. out' \in [Policies -> StatusSet]
        BY <2>3, <2>0 DEF Resolve, PassTypeOK, StatusSet
      <3>5. PassTypeOK'
        BY <2>3, <2>0, <3>1, <3>3, <3>4 DEF Resolve, PassTypeOK
      <3>6. WorldTypeOK'
        BY <2>3, <2>0 DEF Resolve, WorldTypeOK, object, cluster, cilium, core
      <3> QED
        BY <3>1, <3>2, <3>3, <3>4, <3>5, <3>6, TypeParts
    <2>4. ASSUME NEW p \in Policies, ResolveFails(p)
          PROVE  TypeOK'
      BY <2>4, FailType DEF ResolveFails, FailCall
    <2>5. ASSUME NEW p \in Policies, ApplyNP(p)
          PROVE  TypeOK'
      <3>1. CASE FailCall(p)
        BY <3>1, FailType DEF FailCall
      <3>2. CASE ~FailCall(p)
        <4>1. "deleteCNP" \in Calls
          BY <2>0, CallNames DEF NormalCalls, PassTypeOK
        <4>2. PassTypeOK'
          BY <2>5, <3>2, <2>0, <4>1, GotoType DEF ApplyNP, PassTypeOK, work
        <4>3. WorldTypeOK'
          BY <2>5, <3>2, <2>0
             DEF ApplyNP, PassTypeOK, WorldTypeOK, object, cluster, cilium, core
        <4> QED
          BY <4>2, <4>3, TypeParts
      <3> QED
        BY <3>1, <3>2
    <2>6. ASSUME NEW p \in Policies, DeleteCNP(p)
          PROVE  TypeOK'
      <3>1. CASE FailCall(p)
        BY <3>1, FailType DEF FailCall
      <3>2. CASE ~FailCall(p)
        <4>1. "push" \in Calls
          BY <2>0, CallNames DEF NormalCalls, PassTypeOK
        <4>2. out' \in [Policies -> StatusSet]
          BY <2>6, <3>2, <2>0 DEF DeleteCNP, PassTypeOK, StatusSet
        <4>3. PassTypeOK'
          BY <2>6, <3>2, <2>0, <4>1, <4>2, GotoType DEF DeleteCNP, PassTypeOK
        <4>4. WorldTypeOK'
          BY <2>6, <3>2, <2>0
             DEF DeleteCNP, PassTypeOK, WorldTypeOK, object, cluster, cilium, core
        <4> QED
          BY <4>2, <4>3, <4>4, TypeParts
      <3> QED
        BY <3>1, <3>2
    <2>7. ASSUME NEW p \in Policies, ApplyCNP(p)
          PROVE  TypeOK'
      <3>1. CASE FailStep(p)
        BY <2>7, <3>1, FailType DEF ApplyCNP, FailCall
      <3>2. CASE ~FailStep(p)
        <4>1. "deleteNP" \in Calls
          BY <2>0, CallNames DEF NormalCalls, PassTypeOK
        <4>2. PassTypeOK'
          BY <2>7, <3>2, <2>0, <4>1, GotoType DEF ApplyCNP, FailCall, PassTypeOK, work
        <4>3. WorldTypeOK'
          BY <2>7, <3>2, <2>0
             DEF ApplyCNP, FailCall, PassTypeOK, WorldTypeOK, object, cluster, cilium, core
        <4> QED
          BY <4>2, <4>3, TypeParts
      <3> QED
        BY <3>1, <3>2
    <2>8. ASSUME NEW p \in Policies, DeleteNP(p)
          PROVE  TypeOK'
      <3>1. CASE FailCall(p)
        BY <3>1, FailType DEF FailCall
      <3>2. CASE ~FailCall(p)
        <4>1. AfterDelete(plan[p]) \in Calls
          BY <2>0, CallNames DEF NormalCalls, PassTypeOK
        <4>2. Reported(plan[p], out[p]) \in
                {"None", "Pending", "Disabled", "NotApplicable", "Applied"}
          BY <2>8, <3>2, <2>0 DEF PassTypeOK, Reported, Plans, StatusSet
        <4>3. out' \in [Policies -> StatusSet]
          BY <2>8, <3>2, <2>0, <4>2 DEF DeleteNP, PassTypeOK, StatusSet
        <4>4. PassTypeOK'
          BY <2>8, <3>2, <2>0, <4>1, <4>3, GotoType DEF DeleteNP, PassTypeOK
        <4>5. WorldTypeOK'
          BY <2>8, <3>2, <2>0
             DEF DeleteNP, PassTypeOK, WorldTypeOK, object, cluster, cilium, core
        <4> QED
          BY <4>2, <4>3, <4>4, <4>5, TypeParts
      <3> QED
        BY <3>1, <3>2
    <2>9. ASSUME NEW p \in Policies, Push(p)
          PROVE  TypeOK'
      <3>1. changes' \in 0..MaxChanges
        BY <2>9, <2>0, ChangeType DEF Push
      <3>2. "writeStatus" \in Calls /\ "retryStatus" \in Calls
        BY <2>9, CallNames DEF NormalCalls
      <3>3. compileL7Policy(p, seen[p]) \in L7Set
        BY <2>9, <2>0, Values DEF PassTypeOK
      <3>4. l7' \in [Servers -> L7Set]
        BY <2>9, <2>0, <3>3 DEF Push, Set, PassTypeOK, WorldTypeOK
      <3>5. pc' \in [Policies -> Calls \cup {"idle"}]
        BY <2>9, <2>0, <3>2, GotoType DEF Push, Set, PassTypeOK
      <3>6. out' \in [Policies -> StatusSet]
        BY <2>9, <2>0 DEF Push, Set, PassTypeOK, StatusSet
      <3>7. PassTypeOK'
        BY <2>9, <2>0, <3>5, <3>6 DEF Push, Set, PassTypeOK
      <3>8. WorldTypeOK'
        BY <2>9, <2>0, <3>1, <3>4 DEF Push, Set, WorldTypeOK, object, cluster, cilium
      <3> QED
        BY <3>1, <3>2, <3>3, <3>4, <3>5, <3>6, <3>7, <3>8, TypeParts
    <2>10. ASSUME NEW p \in Policies, WriteStatus(p)
          PROVE  TypeOK'
      <3>1. changes' \in 0..MaxChanges
        BY <2>10, <2>0, ChangeType DEF WriteStatus
      <3>2. PassTypeOK'
        BY <2>10, <2>0, EndType DEF WriteStatus
      <3>3. WorldTypeOK'
        BY <2>10, <2>0, <3>1
           DEF WriteStatus, PassTypeOK, WorldTypeOK, object, cluster, cilium, core
      <3> QED
        BY <3>1, <3>2, <3>3, TypeParts
    <2>11. ASSUME NEW p \in Policies, DelResolve(p)
          PROVE  TypeOK'
      <3>1. changes' \in 0..MaxChanges
        BY <2>11, <2>0, ChangeType DEF DelResolve
      <3>2. "removeFinalizer" \in Calls /\ "clear" \in Calls
        BY <2>11, CallNames DEF DeleteCalls
      <3>3. Resolved(seen[p].target) \in SUBSET Servers
        BY <2>11, Members
      <3>4. PassTypeOK'
        BY <2>11, <2>0, <3>2, <3>3, GotoType, EndType DEF DelResolve, Retry, PassTypeOK
      <3>5. WorldTypeOK'
        BY <2>11, <2>0, <3>1 DEF DelResolve, Retry, WorldTypeOK, object, cluster, cilium, core
      <3> QED
        BY <3>1, <3>2, <3>3, <3>4, <3>5, TypeParts
    <2>12. ASSUME NEW p \in Policies, Clear(p)
          PROVE  TypeOK'
      <3>1. changes' \in 0..MaxChanges
        BY <2>12, <2>0, ChangeType DEF Clear
      <3>2. "removeFinalizer" \in Calls
        BY <2>12, CallNames DEF DeleteCalls
      <3>3. l7' \in [Servers -> L7Set]
        BY <2>12, <2>0, Values DEF Clear, PassTypeOK, WorldTypeOK
      <3>4. warned' \in [Policies -> SUBSET Servers]
        BY <2>12, <2>0 DEF Clear, PassTypeOK, WorldTypeOK
      <3>5. PassTypeOK'
        BY <2>12, <2>0, <3>2, GotoType DEF Clear, PassTypeOK
      <3>6. WorldTypeOK'
        BY <2>12, <2>0, <3>1, <3>3, <3>4 DEF Clear, WorldTypeOK, object, cluster, cilium
      <3> QED
        BY <3>1, <3>2, <3>3, <3>4, <3>5, <3>6, TypeParts
    <2>13. ASSUME NEW p \in Policies, RemoveFinalizer(p)
          PROVE  TypeOK'
      <3>1. changes' \in 0..MaxChanges
        BY <2>13, <2>0, ChangeType DEF RemoveFinalizer
      <3>2. PassTypeOK'
        BY <2>13, <2>0, EndType DEF RemoveFinalizer, Retry
      <3>3. WorldTypeOK'
        BY <2>13, <2>0, <3>1 DEF RemoveFinalizer, Retry, WorldTypeOK, cluster, cilium, core
      <3> QED
        BY <3>1, <3>2, <3>3, TypeParts
    <2>14. ASSUME NEW p \in Policies, UserCreate(p)
          PROVE  TypeOK'
      BY <2>14, ChangesAssumption DEF TypeOK, UserCreate, object, cluster, cilium, core, work
    <2>15. ASSUME NEW p \in Policies, UserEdit(p)
          PROVE  TypeOK'
      BY <2>15, ChangesAssumption
         DEF TypeOK, UserEdit, Change, existing, object, cluster, cilium, core, work
    <2>16. ASSUME NEW p \in Policies, UserDelete(p)
          PROVE  TypeOK'
      BY <2>16, ChangesAssumption DEF TypeOK, UserDelete, object, cluster, cilium, core, work
    <2>17. ASSUME NEW p \in Policies, Tamper(p)
          PROVE  TypeOK'
      BY <2>17, ChangesAssumption
         DEF TypeOK, Tamper, Change, object, cluster, cilium, core, work
    <2>18. ASSUME NEW p \in Policies, Fire(p)
          PROVE  TypeOK'
      BY <2>18, ChangesAssumption DEF TypeOK, Fire, object, cluster, cilium, core, work
    <2>19. ASSUME NEW s \in Servers, ServerChange(s)
          PROVE  TypeOK'
      BY <2>19, Values, ChangesAssumption
         DEF TypeOK, ServerChange, Dropped, Left, Change, policiesForMCPServer, existing, object, cluster, cilium,
             core, work
    <2>20. CASE GroupChange
      BY <2>20, Values, ChangesAssumption
         DEF TypeOK, GroupChange, Change, policiesForMCPServerGroup, existing, object, cluster,
            cilium, core, work
    <2>21. CASE GatewayReady
      BY <2>21, Values, ChangesAssumption
         DEF TypeOK, GatewayReady, policiesForGatewayPod, existing, object, cluster, cilium,
            core, work
    <2>22. CASE Crash
      BY <2>22, Values, ChangesAssumption
         DEF TypeOK, Crash, Change, existing, object, cluster, cilium, core, work
    <2>23. CASE GatewayRestart
      <3>1. changes' \in 0..MaxChanges
        BY <2>0, <2>23, ChangeType DEF GatewayRestart
      <3>2. gateway' \in BOOLEAN /\ agent' \in BOOLEAN /\ crd' \in BOOLEAN
        BY <2>0, <2>23, Zenon DEF GatewayRestart, WorldTypeOK, cilium, core
      <3> QED
        BY <2>23, <3>1, <3>2, Values
           DEF TypeOK, GatewayRestart, object, cluster, cilium, core, work
    <2>24. CASE CiliumChange
      <3>1. changes' \in 0..MaxChanges
        BY <2>0, <2>24, ChangeType DEF CiliumChange
      <3>2. gateway' \in BOOLEAN /\ agent' \in BOOLEAN /\ crd' \in BOOLEAN /\ sound' \in BOOLEAN
        BY <2>0, <2>24, Zenon DEF CiliumChange, WorldTypeOK, cilium, core
      <3> QED
        BY <2>24, <3>1, <3>2, Values
           DEF TypeOK, CiliumChange, object, cluster, cilium, core, work
    <2>25. CASE UNCHANGED vars
      BY <2>25 DEF TypeOK, vars
    <2> QED
      BY <2>1, <2>2, <2>3, <2>4, <2>5, <2>6, <2>7, <2>8, <2>9, <2>10, <2>11, <2>12, <2>13,
         <2>14, <2>15, <2>16, <2>17, <2>18, <2>19, <2>20, <2>21, <2>22, <2>23, <2>24, <2>25
         DEF Next, Step, Environment
  <1> QED
    BY <1>1, <1>2, PTL DEF Spec

-----------------------------------------------------------------------------
(* One policy at a time *)

\* A step leaves q, the cluster and the gateway alone.
Same(q) ==
    /\ phase'[q] = phase[q] /\ spec'[q] = spec[q] /\ status'[q] = status[q]
    /\ np'[q] = np[q] /\ cnp'[q] = cnp[q]
    /\ pc'[q] = pc[q] /\ seen'[q] = seen[q] /\ plan'[q] = plan[q]
    /\ todo'[q] = todo[q] /\ out'[q] = out[q] /\ warned'[q] = warned[q]
    /\ (q \in fin' <=> q \in fin) /\ (q \in stale' <=> q \in stale)
    /\ (q \in queued' <=> q \in queued) /\ (q \in timer' <=> q \in timer)
    /\ UNCHANGED <<cluster, cilium, gateway>>

\* Another policy, if any, acts: it leaves q alone, and what it puts into core is not
\* of q.
Other(q) ==
    /\ Same(q)
    /\ \A s \in Servers : \/ l7'[s] = l7[s] /\ (s \in kept => s \in kept')
                         \/ l7'[s].by # q

\* A policy's own steps, in a pass, by its user or by its timer.
PolicyStep(p) == \/ Step(p) \/ UserCreate(p) \/ UserEdit(p) \/ UserDelete(p) \/ Tamper(p)
                 \/ Fire(p)

\* A policy's own step touches no other policy.
LEMMA Frame ==
    ASSUME TypeOK, NEW p \in Policies, NEW q \in Policies, p # q, PolicyStep(p)
    PROVE  Other(q)
  <1>0. \A c : compileL7Policy(p, c).by # q
    BY DEF compileL7Policy
  <1>1. NoL7.by # q
    BY UnsetAssumption DEF NoL7
  <1>2. CASE Reconcile(p)
    BY <1>2, <1>0, <1>1
       DEF TypeOK, Other, Same, Reconcile, existing, FirstCall, Goto, object, cluster, cilium,
          core, work
  <1>3. CASE AddFinalizer(p)
    BY <1>3, <1>0, <1>1
       DEF TypeOK, Other, Same, AddFinalizer, Change, Retry, End, Goto, object, cluster, cilium,
          core, work
  <1>4. CASE Resolve(p)
    BY <1>4, <1>0, <1>1
       DEF TypeOK, Other, Same, Resolve, Goto, object, cluster, cilium, core, work
  <1>5. CASE ResolveFails(p)
    BY <1>5, <1>0, <1>1
       DEF TypeOK, Other, Same, ResolveFails, FailCall, FailStep, Change, Goto, object, cluster, cilium,
          core, work
  <1>6. CASE ApplyNP(p)
    BY <1>6, <1>0, <1>1
       DEF TypeOK, Other, Same, ApplyNP, FailCall, FailStep, Change, Goto, object, cluster, cilium, core,
          work
  <1>7. CASE DeleteCNP(p)
    BY <1>7, <1>0, <1>1
       DEF TypeOK, Other, Same, DeleteCNP, FailCall, FailStep, Change, Goto, object, cluster, cilium,
          core, work
  <1>8. CASE ApplyCNP(p)
    BY <1>8, <1>0, <1>1
       DEF TypeOK, Other, Same, ApplyCNP, FailCall, FailStep, Change, Goto, object, cluster, cilium, core,
          work
  <1>9. CASE DeleteNP(p)
    BY <1>9, <1>0, <1>1
       DEF TypeOK, Other, Same, DeleteNP, FailCall, FailStep, Change, Goto, object, cluster, cilium, core,
          work
  <1>10. CASE Push(p)
    BY <1>10, <1>0, <1>1
       DEF TypeOK, Other, Same, Push, Set, Change, Goto, object, cluster, cilium, core, work
  <1>11. CASE WriteStatus(p)
    BY <1>11, <1>0, <1>1
       DEF TypeOK, Other, Same, WriteStatus, Change, End, object, cluster, cilium, core, work
  <1>12. CASE DelResolve(p)
    BY <1>12, <1>0, <1>1
       DEF TypeOK, Other, Same, DelResolve, Change, Retry, End, Goto, object, cluster, cilium,
          core, work
  <1>13. CASE Clear(p)
    BY <1>13, <1>0, <1>1
       DEF TypeOK, Other, Same, Clear, Change, Goto, object, cluster, cilium, core, work
  <1>14. CASE RemoveFinalizer(p)
    BY <1>14, <1>0, <1>1
       DEF TypeOK, Other, Same, RemoveFinalizer, Change, Retry, End, object, cluster, cilium,
          core, work
  <1>15. CASE UserCreate(p)
    BY <1>15, <1>0, <1>1
       DEF TypeOK, Other, Same, UserCreate, object, cluster, cilium, core, work
  <1>16. CASE UserEdit(p)
    BY <1>16, <1>0, <1>1
       DEF TypeOK, Other, Same, UserEdit, Change, existing, object, cluster, cilium, core, work
  <1>17. CASE UserDelete(p)
    BY <1>17, <1>0, <1>1
       DEF TypeOK, Other, Same, UserDelete, object, cluster, cilium, core, work
  <1>18. CASE Tamper(p)
    BY <1>18, <1>0, <1>1
       DEF TypeOK, Other, Same, Tamper, Change, object, cluster, cilium, core, work
  <1>19. CASE Fire(p)
    BY <1>19, <1>0, <1>1 DEF TypeOK, Other, Same, Fire, object, cluster, cilium, core, work
  <1> QED
    BY <1>2, <1>3, <1>4, <1>5, <1>6, <1>7, <1>8, <1>9, <1>10, <1>11, <1>12, <1>13, <1>14, <1>15,
       <1>16, <1>17, <1>18, <1>19
       DEF PolicyStep, Step

\* A step that changes nothing leaves q alone.
LEMMA Stutter ==
    ASSUME UNCHANGED vars, NEW q
    PROVE  Same(q) /\ UNCHANGED <<l7, kept>>
  <1>1. UNCHANGED <<cluster, cilium, gateway>>
    BY DEF vars, cluster, cilium
  <1>2. UNCHANGED <<phase, spec, status, np, cnp, pc, seen, plan, todo, out, warned, fin,
                    stale, queued, timer, l7, kept>>
    BY DEF vars
  <1> QED
    BY <1>1, <1>2 DEF Same

\* What a step is to one policy: another policy's doing, its own, or a change of what
\* all of them share.
LEMMA Cases ==
    ASSUME TypeOK, [Next]_vars, NEW q \in Policies
    PROVE  \/ Other(q) \/ PolicyStep(q) \/ \E s \in Servers : ServerChange(s)
           \/ GroupChange \/ GatewayRestart \/ GatewayReady \/ CiliumChange \/ Crash
  <1>1. CASE UNCHANGED vars
    BY <1>1, Stutter DEF Other
  <1>2. CASE \E p \in Policies : PolicyStep(p)
    BY <1>2, Frame
  <1> QED
    BY <1>1, <1>2 DEF Next, Environment, PolicyStep

-----------------------------------------------------------------------------
(* The finalizer and the target of a pass *)

\* Every step keeps Phases.
LEMMA PhaseStep ==
    ASSUME TypeOK, Phases, [Next]_vars
    PROVE  Phases'
  <1> SUFFICES ASSUME NEW p \in Policies PROVE PhaseInv(p)'
    BY DEF Phases
  <1>0. PhaseInv(p) /\ PassTypeOK /\ WorldTypeOK
    BY TypeParts DEF Phases
  <1>1. CASE Other(p)
    BY <1>0, <1>1 DEF PhaseInv, Other, Same
  <1>2. CASE Reconcile(p)
    BY <1>0, <1>2
       DEF Reconcile, existing, FirstCall, Goto, PhaseInv, PassTypeOK, WorldTypeOK, NormalCalls,
          DeleteCalls, object, work
  <1>3. CASE AddFinalizer(p)
    BY <1>0, <1>3
       DEF AddFinalizer, Retry, End, Goto, PhaseInv, PassTypeOK, WorldTypeOK, NormalCalls,
          DeleteCalls, object, work
  <1>4. CASE Resolve(p)
    BY <1>0, <1>4
       DEF Resolve, Goto, FirstWrite, PhaseInv, PassTypeOK, WorldTypeOK, NormalCalls,
          DeleteCalls, object, work
  <1>5. CASE ResolveFails(p)
    BY <1>0, <1>5
       DEF ResolveFails, FailCall, FailStep, Goto, PhaseInv, PassTypeOK, WorldTypeOK, NormalCalls,
          DeleteCalls, object, work
  <1>6. CASE ApplyNP(p)
    BY <1>0, <1>6
       DEF ApplyNP, FailCall, FailStep, Goto, PhaseInv, PassTypeOK, WorldTypeOK, NormalCalls, DeleteCalls,
          object, work
  <1>7. CASE DeleteCNP(p)
    BY <1>0, <1>7
       DEF DeleteCNP, FailCall, FailStep, Goto, PhaseInv, PassTypeOK, WorldTypeOK, NormalCalls,
          DeleteCalls, object, work
  <1>8. CASE ApplyCNP(p)
    BY <1>0, <1>8
       DEF ApplyCNP, FailCall, FailStep, Goto, PhaseInv, PassTypeOK, WorldTypeOK, NormalCalls,
          DeleteCalls, object, work
  <1>9. CASE DeleteNP(p)
    BY <1>0, <1>9
       DEF DeleteNP, FailCall, FailStep, Goto, AfterDelete, PhaseInv, PassTypeOK, WorldTypeOK,
          NormalCalls, DeleteCalls, object, work
  <1>10. CASE Push(p)
    BY <1>0, <1>10
       DEF Push, Set, Goto, PhaseInv, PassTypeOK, WorldTypeOK, NormalCalls, DeleteCalls, object, work
  <1>11. CASE WriteStatus(p)
    BY <1>0, <1>11
       DEF WriteStatus, End, PhaseInv, PassTypeOK, WorldTypeOK, NormalCalls, DeleteCalls,
          object, work
  <1>12. CASE DelResolve(p)
    BY <1>0, <1>12
       DEF DelResolve, Retry, End, Goto, PhaseInv, PassTypeOK, WorldTypeOK, NormalCalls,
          DeleteCalls, object, work
  <1>13. CASE Clear(p)
    BY <1>0, <1>13
       DEF Clear, Goto, PhaseInv, PassTypeOK, WorldTypeOK, NormalCalls, DeleteCalls, object,
          work
  <1>14. CASE RemoveFinalizer(p)
    BY <1>0, <1>14
       DEF RemoveFinalizer, Retry, End, PhaseInv, PassTypeOK, WorldTypeOK, NormalCalls,
          DeleteCalls, object, work
  <1>15. CASE UserCreate(p)
    BY <1>0, <1>15
       DEF UserCreate, PhaseInv, PassTypeOK, WorldTypeOK, NormalCalls, DeleteCalls, object, work
  <1>16. CASE UserEdit(p)
    BY <1>0, <1>16
       DEF UserEdit, existing, PhaseInv, PassTypeOK, WorldTypeOK, NormalCalls, DeleteCalls,
          object, work
  <1>17. CASE UserDelete(p)
    BY <1>0, <1>17
       DEF UserDelete, PhaseInv, PassTypeOK, WorldTypeOK, NormalCalls, DeleteCalls, object, work
  <1>18. CASE Tamper(p)
    BY <1>0, <1>18
       DEF Tamper, PhaseInv, PassTypeOK, WorldTypeOK, NormalCalls, DeleteCalls, object, work
  <1>19. CASE Fire(p)
    BY <1>0, <1>19
       DEF Fire, PhaseInv, PassTypeOK, WorldTypeOK, NormalCalls, DeleteCalls, object, work
  <1>20. CASE \E s \in Servers : ServerChange(s)
    BY <1>0, <1>20
       DEF ServerChange, Dropped, Left, PhaseInv, PassTypeOK, WorldTypeOK, NormalCalls, DeleteCalls, object,
          work
  <1>21. CASE GroupChange
    BY <1>0, <1>21
       DEF GroupChange, PhaseInv, PassTypeOK, WorldTypeOK, NormalCalls, DeleteCalls, object,
          work
  <1>22. CASE GatewayRestart
    BY <1>0, <1>22
       DEF GatewayRestart, PhaseInv, PassTypeOK, WorldTypeOK, NormalCalls, DeleteCalls, object,
          work
  <1>23. CASE GatewayReady
    BY <1>0, <1>23
       DEF GatewayReady, PhaseInv, PassTypeOK, WorldTypeOK, NormalCalls, DeleteCalls, object,
          work
  <1>24. CASE CiliumChange
    BY <1>0, <1>24
       DEF CiliumChange, PhaseInv, PassTypeOK, WorldTypeOK, NormalCalls, DeleteCalls, object,
          work
  <1>25. CASE Crash
    BY <1>0, <1>25
       DEF Crash, PhaseInv, PassTypeOK, WorldTypeOK, NormalCalls, DeleteCalls, object, work
  <1> QED
    BY <1>1, <1>2, <1>3, <1>4, <1>5, <1>6, <1>7, <1>8, <1>9, <1>10, <1>11, <1>12, <1>13, <1>14,
       <1>15, <1>16, <1>17, <1>18, <1>19, <1>20, <1>21, <1>22, <1>23, <1>24, <1>25, Cases
       DEF PolicyStep, Step

\* The finalizer is on a policy for as long as a pass may have written for it.
LEMMA PhasesHold == Spec => []Phases
  <1>1. Init => Phases
    BY DEF Init, Phases, PhaseInv, NormalCalls, DeleteCalls
  <1> QED
    BY <1>1, PhaseStep, TypeCorrect, PTL DEF Spec

-----------------------------------------------------------------------------
(* What core holds of a policy *)

\* Every step keeps AbsentInv: core takes a policy only for a server that it has.
LEMMA AbsentStep ==
    ASSUME TypeOK, AbsentInv, [Next]_vars
    PROVE  AbsentInv'
  <1>0. l7 \in [Servers -> L7Set] /\ server \in [Servers -> {"absent", "outside", "member"}]
    BY DEF TypeOK
  <1>1. NoL7.by = Unset
    BY DEF NoL7
  <1>2. ASSUME NEW p \in Policies, Reconcile(p) PROVE AbsentInv'
    BY <1>0, <1>1, <1>2 DEF AbsentInv, Reconcile, existing, FirstCall, Goto, cluster, core
  <1>3. ASSUME NEW p \in Policies, AddFinalizer(p) PROVE AbsentInv'
    BY <1>0, <1>1, <1>3 DEF AbsentInv, AddFinalizer, Retry, End, Goto, cluster, core
  <1>4. ASSUME NEW p \in Policies, Resolve(p) PROVE AbsentInv'
    BY <1>0, <1>1, <1>4 DEF AbsentInv, Resolve, Goto, cluster, core
  <1>5. ASSUME NEW p \in Policies, ResolveFails(p) PROVE AbsentInv'
    BY <1>0, <1>1, <1>5 DEF AbsentInv, ResolveFails, FailCall, FailStep, Goto, cluster, core
  <1>6. ASSUME NEW p \in Policies, ApplyNP(p) PROVE AbsentInv'
    BY <1>0, <1>1, <1>6 DEF AbsentInv, ApplyNP, FailCall, FailStep, Goto, cluster, core
  <1>7. ASSUME NEW p \in Policies, DeleteCNP(p) PROVE AbsentInv'
    BY <1>0, <1>1, <1>7 DEF AbsentInv, DeleteCNP, FailCall, FailStep, Goto, cluster, core
  <1>8. ASSUME NEW p \in Policies, ApplyCNP(p) PROVE AbsentInv'
    BY <1>0, <1>1, <1>8 DEF AbsentInv, ApplyCNP, FailCall, FailStep, Goto, cluster, core
  <1>9. ASSUME NEW p \in Policies, DeleteNP(p) PROVE AbsentInv'
    BY <1>0, <1>1, <1>9 DEF AbsentInv, DeleteNP, FailCall, FailStep, Goto, cluster, core
  <1>10. ASSUME NEW p \in Policies, Push(p) PROVE AbsentInv'
    BY <1>0, <1>1, <1>10, TypeParts
       DEF AbsentInv, Push, Set, Goto, Accepts, cluster, core, PassTypeOK
  <1>11. ASSUME NEW p \in Policies, WriteStatus(p) PROVE AbsentInv'
    BY <1>0, <1>1, <1>11 DEF AbsentInv, WriteStatus, End, cluster, core
  <1>12. ASSUME NEW p \in Policies, DelResolve(p) PROVE AbsentInv'
    BY <1>0, <1>1, <1>12 DEF AbsentInv, DelResolve, Retry, End, Goto, cluster, core
  <1>13. ASSUME NEW p \in Policies, Clear(p) PROVE AbsentInv'
    BY <1>0, <1>1, <1>13, TypeParts DEF AbsentInv, Clear, Goto, cluster, core, PassTypeOK
  <1>14. ASSUME NEW p \in Policies, RemoveFinalizer(p) PROVE AbsentInv'
    BY <1>0, <1>1, <1>14 DEF AbsentInv, RemoveFinalizer, Retry, End, cluster, core
  <1>15. ASSUME NEW p \in Policies, UserCreate(p) PROVE AbsentInv'
    BY <1>0, <1>1, <1>15 DEF AbsentInv, UserCreate, cluster, core
  <1>16. ASSUME NEW p \in Policies, UserEdit(p) PROVE AbsentInv'
    BY <1>0, <1>1, <1>16 DEF AbsentInv, UserEdit, existing, cluster, core
  <1>17. ASSUME NEW p \in Policies, UserDelete(p) PROVE AbsentInv'
    BY <1>0, <1>1, <1>17 DEF AbsentInv, UserDelete, cluster, core
  <1>18. ASSUME NEW p \in Policies, Tamper(p) PROVE AbsentInv'
    BY <1>0, <1>1, <1>18 DEF AbsentInv, Tamper, cluster, core
  <1>19. ASSUME NEW p \in Policies, Fire(p) PROVE AbsentInv'
    BY <1>0, <1>1, <1>19 DEF AbsentInv, Fire, cluster, core
  <1>20. CASE \E s \in Servers : ServerChange(s)
    BY <1>0, <1>1, <1>20 DEF AbsentInv, ServerChange, Dropped, Left
  <1>21. CASE GroupChange
    BY <1>0, <1>1, <1>21 DEF AbsentInv, GroupChange, cluster, core
  <1>22. CASE GatewayRestart
    BY <1>0, <1>1, <1>22 DEF AbsentInv, GatewayRestart, cluster, core
  <1>23. CASE GatewayReady
    BY <1>0, <1>1, <1>23 DEF AbsentInv, GatewayReady, cluster, core
  <1>24. CASE CiliumChange
    BY <1>0, <1>1, <1>24 DEF AbsentInv, CiliumChange, cluster, core
  <1>25. CASE Crash
    BY <1>0, <1>1, <1>25 DEF AbsentInv, Crash, cluster, core
  <1>26. CASE UNCHANGED vars
    BY <1>26 DEF AbsentInv, vars
  <1> QED
    BY <1>2, <1>3, <1>4, <1>5, <1>6, <1>7, <1>8, <1>9, <1>10, <1>11, <1>12, <1>13, <1>14, <1>15,
       <1>16, <1>17, <1>18, <1>19, <1>20, <1>21, <1>22, <1>23, <1>24, <1>25, <1>26
       DEF Next, Step, Environment

\* Every step keeps Clears.
LEMMA ClearStep ==
    ASSUME TypeOK, Phases, Clears, [Next]_vars
    PROVE  Clears'
  <1>0. AbsentInv /\ AbsentInv'
    BY AbsentStep DEF Clears
  <1> SUFFICES ASSUME NEW p \in Policies PROVE ClearInv(p)'
    BY <1>0 DEF Clears
  <1>1. PhaseInv(p) /\ ClearInv(p) /\ PassTypeOK /\ WorldTypeOK
    BY TypeParts DEF Phases, Clears
  <1>2. NoL7.by # p
    BY UnsetAssumption DEF NoL7
  <1>3. CASE Other(p)
    BY <1>1, <1>3 DEF ClearInv, Other, Same
  <1>4. CASE Reconcile(p)
    BY <1>1, <1>2, <1>4
       DEF Reconcile, existing, FirstCall, Goto, ClearInv, PassTypeOK, WorldTypeOK, object,
          core, work
  <1>5. CASE AddFinalizer(p)
    BY <1>1, <1>2, <1>5
       DEF AddFinalizer, Retry, End, Goto, ClearInv, PassTypeOK, WorldTypeOK, object, core, work
  <1>6. CASE Resolve(p)
    BY <1>1, <1>2, <1>6
       DEF Resolve, Goto, FirstWrite, ClearInv, PassTypeOK, WorldTypeOK, object, core, work
  <1>7. CASE ResolveFails(p)
    BY <1>1, <1>2, <1>7
       DEF ResolveFails, FailCall, FailStep, Goto, ClearInv, PassTypeOK, WorldTypeOK, object, core, work
  <1>8. CASE ApplyNP(p)
    BY <1>1, <1>2, <1>8
       DEF ApplyNP, FailCall, FailStep, Goto, ClearInv, PassTypeOK, WorldTypeOK, object, core, work
  <1>9. CASE DeleteCNP(p)
    BY <1>1, <1>2, <1>9
       DEF DeleteCNP, FailCall, FailStep, Goto, ClearInv, PassTypeOK, WorldTypeOK, object, core, work
  <1>10. CASE ApplyCNP(p)
    BY <1>1, <1>2, <1>10
       DEF ApplyCNP, FailCall, FailStep, Goto, ClearInv, PassTypeOK, WorldTypeOK, object, core, work
  <1>11. CASE DeleteNP(p)
    BY <1>1, <1>2, <1>11
       DEF DeleteNP, FailCall, FailStep, Goto, AfterDelete, ClearInv, PassTypeOK, WorldTypeOK, object,
          core, work
  <1>12. CASE Push(p)
    BY <1>1, <1>2, <1>12
       DEF Push, Set, Goto, ClearInv, PassTypeOK, WorldTypeOK, PhaseInv, NormalCalls, object, core,
          work
  <1>13. CASE WriteStatus(p)
    BY <1>1, <1>2, <1>13
       DEF WriteStatus, End, ClearInv, PassTypeOK, WorldTypeOK, object, core, work
  <1>14. CASE DelResolve(p)
    <2>1. \A s \in Servers :
             seen[p].target = s /\ l7[s].by = p => s \in Resolved(seen[p].target) \cup kept
      BY <1>0, UnsetAssumption DEF Resolved, AbsentInv
    <2>2. seen[p].target = spec[p].target
      BY <1>1, <1>14 DEF DelResolve, PhaseInv
    <2> QED
      BY <1>1, <1>14, <2>1, <2>2
         DEF DelResolve, Retry, End, Goto, ClearInv, PassTypeOK, WorldTypeOK, object, core
  <1>15. CASE Clear(p)
    BY <1>1, <1>2, <1>15 DEF Clear, Goto, ClearInv, PassTypeOK, WorldTypeOK, object, core, work
  <1>16. CASE RemoveFinalizer(p)
    BY <1>1, <1>2, <1>16
       DEF RemoveFinalizer, Retry, End, ClearInv, PassTypeOK, WorldTypeOK, object, core, work
  <1>17. CASE UserCreate(p)
    BY <1>1, <1>2, <1>17
       DEF UserCreate, ClearInv, PassTypeOK, WorldTypeOK, PhaseInv, NormalCalls, object, core,
          work
  <1>18. CASE UserEdit(p)
    BY <1>1, <1>2, <1>18
       DEF UserEdit, existing, ClearInv, PassTypeOK, WorldTypeOK, object, core, work
  <1>19. CASE UserDelete(p)
    BY <1>1, <1>2, <1>19 DEF UserDelete, ClearInv, PassTypeOK, WorldTypeOK, object, core, work
  <1>20. CASE Tamper(p)
    BY <1>1, <1>2, <1>20 DEF Tamper, ClearInv, PassTypeOK, WorldTypeOK, object, core, work
  <1>21. CASE Fire(p)
    BY <1>1, <1>2, <1>21 DEF Fire, ClearInv, PassTypeOK, WorldTypeOK, object, core, work
  <1>22. CASE \E s \in Servers : ServerChange(s)
    BY <1>1, <1>2, <1>22 DEF ServerChange, Dropped, Left, ClearInv, PassTypeOK, WorldTypeOK, object, work
  <1>23. CASE GroupChange
    BY <1>1, <1>2, <1>23 DEF GroupChange, ClearInv, PassTypeOK, WorldTypeOK, object, core, work
  <1>24. CASE GatewayRestart
    BY <1>1, <1>2, <1>24
       DEF GatewayRestart, ClearInv, PassTypeOK, WorldTypeOK, object, core, work
  <1>25. CASE GatewayReady
    BY <1>1, <1>2, <1>25 DEF GatewayReady, ClearInv, PassTypeOK, WorldTypeOK, object, core, work
  <1>26. CASE CiliumChange
    BY <1>1, <1>2, <1>26 DEF CiliumChange, ClearInv, PassTypeOK, WorldTypeOK, object, core, work
  <1>27. CASE Crash
    BY <1>1, <1>2, <1>27 DEF Crash, ClearInv, PassTypeOK, WorldTypeOK, object, core, work
  <1> QED
    BY <1>3, <1>4, <1>5, <1>6, <1>7, <1>8, <1>9, <1>10, <1>11, <1>12, <1>13, <1>14, <1>15,
       <1>16, <1>17, <1>18, <1>19, <1>20, <1>21, <1>22, <1>23, <1>24, <1>25, <1>26, <1>27, Cases
       DEF PolicyStep, Step

\* Once a policy that names its server is gone, core has nothing of it unless an event
\* named the server (handleDeletion) or core kept the server beyond its MCPServer, for any
\* number of policies with any targets, the same one included.  A clear takes whatever
\* core holds, so it never leaves more.
THEOREM ClearedHolds == Spec => []NamedTargetCleared
  <1>1. Init => Clears
    BY UnsetAssumption DEF Init, Clears, AbsentInv, ClearInv, NoL7
  <1>2. Phases /\ Clears => NamedTargetCleared
    BY DEF Phases, PhaseInv, Clears, ClearInv, NamedTargetCleared
  <1> QED
    BY <1>1, <1>2, ClearStep, PhasesHold, TypeCorrect, PTL DEF Spec

-----------------------------------------------------------------------------
(* The plan of a pass *)

\* What a pass plans for the members it resolved.
LEMMA PlanFacts ==
    ASSUME NEW p, NEW S
    PROVE  Plan(p, S) = "withhold" <=> S = {}
  BY DEF Plan

\* Every step keeps PlansInv.
LEMMA PlanStep ==
    ASSUME TypeOK, PlansInv, [Next]_vars
    PROVE  PlansInv'
  <1> SUFFICES ASSUME NEW p \in Policies PROVE PlanInv(p)'
    BY DEF PlansInv
  <1>0. PlanInv(p) /\ PassTypeOK /\ WorldTypeOK
    BY TypeParts DEF PlansInv
  <1>1. CASE Other(p)
    BY <1>0, <1>1 DEF PlanInv, Other, Same, cilium
  <1>2. CASE Reconcile(p)
    BY <1>0, <1>2
       DEF Reconcile, existing, FirstCall, Goto, PlanInv, PassTypeOK, WorldTypeOK, DeleteCalls,
          cilium, work
  <1>3. CASE AddFinalizer(p)
    BY <1>0, <1>3
       DEF AddFinalizer, Retry, End, Goto, PlanInv, PassTypeOK, WorldTypeOK, DeleteCalls,
          cilium, work
  <1>4. CASE Resolve(p)
    BY <1>0, <1>4, PlanFacts, Members
       DEF Resolve, Goto, FirstWrite, PlanInv, PassTypeOK, WorldTypeOK, DeleteCalls, cilium,
          work
  <1>5. CASE ResolveFails(p)
    BY <1>0, <1>5
       DEF ResolveFails, FailCall, FailStep, Goto, PlanInv, PassTypeOK, WorldTypeOK, DeleteCalls, cilium,
          work
  <1>6. CASE ApplyNP(p)
    BY <1>0, <1>6
       DEF ApplyNP, FailCall, FailStep, Goto, PlanInv, PassTypeOK, WorldTypeOK, DeleteCalls, cilium, work
  <1>7. CASE DeleteCNP(p)
    BY <1>0, <1>7
       DEF DeleteCNP, FailCall, FailStep, Goto, PlanInv, PassTypeOK, WorldTypeOK, DeleteCalls, cilium,
          work
  <1>8. CASE ApplyCNP(p)
    BY <1>0, <1>8
       DEF ApplyCNP, FailCall, FailStep, Goto, PlanInv, PassTypeOK, WorldTypeOK, DeleteCalls, cilium, work
  <1>9. CASE DeleteNP(p)
    BY <1>0, <1>9
       DEF DeleteNP, FailCall, FailStep, Goto, AfterDelete, PlanInv, PassTypeOK, WorldTypeOK, DeleteCalls,
          cilium, work
  <1>10. CASE Push(p)
    BY <1>0, <1>10 DEF Push, Set, Goto, PlanInv, PassTypeOK, WorldTypeOK, DeleteCalls, cilium, work
  <1>11. CASE WriteStatus(p)
    BY <1>0, <1>11
       DEF WriteStatus, End, PlanInv, PassTypeOK, WorldTypeOK, DeleteCalls, cilium, work
  <1>12. CASE DelResolve(p)
    BY <1>0, <1>12
       DEF DelResolve, Retry, End, Goto, PlanInv, PassTypeOK, WorldTypeOK, DeleteCalls, cilium,
          work
  <1>13. CASE Clear(p)
    BY <1>0, <1>13 DEF Clear, Goto, PlanInv, PassTypeOK, WorldTypeOK, DeleteCalls, cilium, work
  <1>14. CASE RemoveFinalizer(p)
    BY <1>0, <1>14
       DEF RemoveFinalizer, Retry, End, PlanInv, PassTypeOK, WorldTypeOK, DeleteCalls, cilium,
          work
  <1>15. CASE UserCreate(p)
    BY <1>0, <1>15 DEF UserCreate, PlanInv, PassTypeOK, WorldTypeOK, DeleteCalls, cilium, work
  <1>16. CASE UserEdit(p)
    BY <1>0, <1>16
       DEF UserEdit, existing, PlanInv, PassTypeOK, WorldTypeOK, DeleteCalls, cilium, work
  <1>17. CASE UserDelete(p)
    BY <1>0, <1>17 DEF UserDelete, PlanInv, PassTypeOK, WorldTypeOK, DeleteCalls, cilium, work
  <1>18. CASE Tamper(p)
    BY <1>0, <1>18 DEF Tamper, PlanInv, PassTypeOK, WorldTypeOK, DeleteCalls, cilium, work
  <1>19. CASE Fire(p)
    BY <1>0, <1>19 DEF Fire, PlanInv, PassTypeOK, WorldTypeOK, DeleteCalls, cilium, work
  <1>20. CASE \E s \in Servers : ServerChange(s)
    BY <1>0, <1>20 DEF ServerChange, Dropped, Left, PlanInv, PassTypeOK, WorldTypeOK, DeleteCalls, cilium, work
  <1>21. CASE GroupChange
    BY <1>0, <1>21 DEF GroupChange, PlanInv, PassTypeOK, WorldTypeOK, DeleteCalls, cilium, work
  <1>22. CASE GatewayRestart
    BY <1>0, <1>22
       DEF GatewayRestart, PlanInv, PassTypeOK, WorldTypeOK, DeleteCalls, cilium, work
  <1>23. CASE GatewayReady
    BY <1>0, <1>23 DEF GatewayReady, PlanInv, PassTypeOK, WorldTypeOK, DeleteCalls, cilium, work
  <1>24. CASE CiliumChange
    BY <1>0, <1>24 DEF CiliumChange, PlanInv, PassTypeOK, WorldTypeOK, DeleteCalls, cilium, work
  <1>25. CASE Crash
    BY <1>0, <1>25 DEF Crash, PlanInv, PassTypeOK, WorldTypeOK, DeleteCalls, cilium, work
  <1> QED
    BY <1>1, <1>2, <1>3, <1>4, <1>5, <1>6, <1>7, <1>8, <1>9, <1>10, <1>11, <1>12, <1>13, <1>14,
       <1>15, <1>16, <1>17, <1>18, <1>19, <1>20, <1>21, <1>22, <1>23, <1>24, <1>25, Cases
       DEF PolicyStep, Step

\* The calls of a pass follow its plan, and it writes one flavor before it deletes the
\* other.
LEMMA PlansHold == Spec => []PlansInv
  <1>1. Init => PlansInv
    BY DEF Init, PlansInv, PlanInv, DeleteCalls
  <1> QED
    BY <1>1, PlanStep, TypeCorrect, PTL DEF Spec

\* A pass that means to leave a backstop in place takes the last one away only when
\* someone deleted the one it wrote, and then the policy is queued again or the flavor is
\* one the controller does not watch (applyFlavoredBackstop).
THEOREM FloorHolds == Spec => FloorKept
  <1> DEFINE Floor(p) ==
          /\ plan[p] \in {"vanilla", "cilium"} /\ pc'[p] # pc[p]
          /\ np[p] \cup cnp[p] # {} /\ np'[p] \cup cnp'[p] = {}
          => p \in queued \/ ~watched
  <1>1. ASSUME TypeOK, PlansInv, Next, NEW p \in Policies
        PROVE  Floor(p)
    <2>0. PlanInv(p) /\ PassTypeOK /\ WorldTypeOK
      BY <1>1, TypeParts DEF PlansInv
    <2>1. CASE Other(p)
      BY <2>1 DEF Other, Same
    <2>2. CASE Reconcile(p)
      BY <2>0, <2>2
         DEF Reconcile, existing, FirstCall, Goto, PlanInv, PassTypeOK, WorldTypeOK, DeleteCalls
    <2>3. CASE AddFinalizer(p)
      BY <2>0, <2>3
         DEF AddFinalizer, Retry, End, Goto, PlanInv, PassTypeOK, WorldTypeOK, DeleteCalls
    <2>4. CASE Resolve(p)
      BY <2>0, <2>4 DEF Resolve, Goto, FirstWrite, PlanInv, PassTypeOK, WorldTypeOK, DeleteCalls
    <2>5. CASE ResolveFails(p)
      BY <2>0, <2>5
         DEF ResolveFails, FailCall, FailStep, Goto, PlanInv, PassTypeOK, WorldTypeOK, DeleteCalls
    <2>6. CASE ApplyNP(p)
      BY <2>0, <2>6 DEF ApplyNP, FailCall, FailStep, Goto, PlanInv, PassTypeOK, WorldTypeOK, DeleteCalls
    <2>7. CASE DeleteCNP(p)
      BY <2>0, <2>7 DEF DeleteCNP, FailCall, FailStep, Goto, PlanInv, PassTypeOK, WorldTypeOK, DeleteCalls
    <2>8. CASE ApplyCNP(p)
      BY <2>0, <2>8 DEF ApplyCNP, FailCall, FailStep, Goto, PlanInv, PassTypeOK, WorldTypeOK, DeleteCalls
    <2>9. CASE DeleteNP(p)
      BY <2>0, <2>9
         DEF DeleteNP, FailCall, FailStep, Goto, AfterDelete, PlanInv, PassTypeOK, WorldTypeOK,
            DeleteCalls
    <2>10. CASE Push(p)
      BY <2>0, <2>10 DEF Push, Set, Goto, PlanInv, PassTypeOK, WorldTypeOK, DeleteCalls
    <2>11. CASE WriteStatus(p)
      BY <2>0, <2>11 DEF WriteStatus, End, PlanInv, PassTypeOK, WorldTypeOK, DeleteCalls
    <2>12. CASE DelResolve(p)
      BY <2>0, <2>12
         DEF DelResolve, Retry, End, Goto, PlanInv, PassTypeOK, WorldTypeOK, DeleteCalls
    <2>13. CASE Clear(p)
      BY <2>0, <2>13 DEF Clear, Goto, PlanInv, PassTypeOK, WorldTypeOK, DeleteCalls
    <2>14. CASE RemoveFinalizer(p)
      BY <2>0, <2>14
         DEF RemoveFinalizer, Retry, End, PlanInv, PassTypeOK, WorldTypeOK, DeleteCalls
    <2>15. CASE UserCreate(p)
      BY <2>0, <2>15 DEF UserCreate, PlanInv, PassTypeOK, WorldTypeOK, DeleteCalls
    <2>16. CASE UserEdit(p)
      BY <2>0, <2>16 DEF UserEdit, existing, PlanInv, PassTypeOK, WorldTypeOK, DeleteCalls
    <2>17. CASE UserDelete(p)
      BY <2>0, <2>17 DEF UserDelete, PlanInv, PassTypeOK, WorldTypeOK, DeleteCalls
    <2>18. CASE Tamper(p)
      BY <2>0, <2>18 DEF Tamper, PlanInv, PassTypeOK, WorldTypeOK, DeleteCalls
    <2>19. CASE Fire(p)
      BY <2>0, <2>19 DEF Fire, PlanInv, PassTypeOK, WorldTypeOK, DeleteCalls
    <2>20. CASE \E s \in Servers : ServerChange(s)
      BY <2>20 DEF ServerChange
    <2>21. CASE GroupChange
      BY <2>21 DEF GroupChange
    <2>22. CASE GatewayRestart
      BY <2>22 DEF GatewayRestart
    <2>23. CASE GatewayReady
      BY <2>23 DEF GatewayReady
    <2>24. CASE CiliumChange
      BY <2>24 DEF CiliumChange
    <2>25. CASE Crash
      BY <2>25 DEF Crash
    <2> QED
      BY <1>1, <2>1, <2>2, <2>3, <2>4, <2>5, <2>6, <2>7, <2>8, <2>9, <2>10, <2>11, <2>12, <2>13,
         <2>14, <2>15, <2>16, <2>17, <2>18, <2>19, <2>20, <2>21, <2>22, <2>23, <2>24, <2>25,
         Cases
         DEF PolicyStep, Step
  <1>2. TypeOK /\ PlansInv /\ [Next]_vars => [\A p \in Policies : Floor(p)]_vars
    BY <1>1
  <1> QED
    BY <1>2, PlansHold, TypeCorrect, PTL DEF Spec, FloorKept

-----------------------------------------------------------------------------
(* The backstop *)

\* Every step keeps Freshes: what changes the object queues the policy.
LEMMA FreshStep ==
    ASSUME TypeOK, Phases, Freshes, [Next]_vars
    PROVE  Freshes'
  <1> SUFFICES ASSUME NEW p \in Policies PROVE FreshInv(p)'
    BY DEF Freshes
  <1>0. PhaseInv(p) /\ FreshInv(p) /\ PassTypeOK /\ WorldTypeOK
    BY TypeParts DEF Phases, Freshes
  <1>1. CASE Other(p)
    BY <1>0, <1>1 DEF FreshInv, Other, Same
  <1>2. CASE Reconcile(p)
    BY <1>0, <1>2
       DEF Reconcile, existing, FirstCall, Goto, FreshInv, PassTypeOK, WorldTypeOK, object,
          work, PhaseInv
  <1>3. CASE AddFinalizer(p)
    BY <1>0, <1>3
       DEF AddFinalizer, Retry, End, Goto, FreshInv, PassTypeOK, WorldTypeOK, object, work
  <1>4. CASE Resolve(p)
    BY <1>0, <1>4 DEF Resolve, Goto, FreshInv, PassTypeOK, WorldTypeOK, object, work
  <1>5. CASE ResolveFails(p)
    BY <1>0, <1>5
       DEF ResolveFails, FailCall, FailStep, Goto, FreshInv, PassTypeOK, WorldTypeOK, object, work
  <1>6. CASE ApplyNP(p)
    BY <1>0, <1>6 DEF ApplyNP, FailCall, FailStep, Goto, FreshInv, PassTypeOK, WorldTypeOK, object, work
  <1>7. CASE DeleteCNP(p)
    BY <1>0, <1>7 DEF DeleteCNP, FailCall, FailStep, Goto, FreshInv, PassTypeOK, WorldTypeOK, object, work
  <1>8. CASE ApplyCNP(p)
    BY <1>0, <1>8 DEF ApplyCNP, FailCall, FailStep, Goto, FreshInv, PassTypeOK, WorldTypeOK, object, work
  <1>9. CASE DeleteNP(p)
    BY <1>0, <1>9 DEF DeleteNP, FailCall, FailStep, Goto, FreshInv, PassTypeOK, WorldTypeOK, object, work
  <1>10. CASE Push(p)
    BY <1>0, <1>10 DEF Push, Set, Goto, FreshInv, PassTypeOK, WorldTypeOK, object, work
  <1>11. CASE WriteStatus(p)
    BY <1>0, <1>11 DEF WriteStatus, End, FreshInv, PassTypeOK, WorldTypeOK, object, work
  <1>12. CASE DelResolve(p)
    BY <1>0, <1>12
       DEF DelResolve, Retry, End, Goto, FreshInv, PassTypeOK, WorldTypeOK, object, work
  <1>13. CASE Clear(p)
    BY <1>0, <1>13 DEF Clear, Goto, FreshInv, PassTypeOK, WorldTypeOK, object, work
  <1>14. CASE RemoveFinalizer(p)
    BY <1>0, <1>14
       DEF RemoveFinalizer, Retry, End, FreshInv, PassTypeOK, WorldTypeOK, object, work
  <1>15. CASE UserCreate(p)
    BY <1>0, <1>15 DEF UserCreate, FreshInv, PassTypeOK, WorldTypeOK, object, work, PhaseInv
  <1>16. CASE UserEdit(p)
    BY <1>0, <1>16 DEF UserEdit, existing, FreshInv, PassTypeOK, WorldTypeOK, object, work
  <1>17. CASE UserDelete(p)
    BY <1>0, <1>17 DEF UserDelete, FreshInv, PassTypeOK, WorldTypeOK, object, work
  <1>18. CASE Tamper(p)
    BY <1>0, <1>18 DEF Tamper, FreshInv, PassTypeOK, WorldTypeOK, object, work
  <1>19. CASE Fire(p)
    BY <1>0, <1>19 DEF Fire, FreshInv, PassTypeOK, WorldTypeOK, object, work
  <1>20. CASE \E s \in Servers : ServerChange(s)
    BY <1>0, <1>20 DEF ServerChange, Dropped, Left, FreshInv, PassTypeOK, WorldTypeOK, object, work
  <1>21. CASE GroupChange
    BY <1>0, <1>21 DEF GroupChange, FreshInv, PassTypeOK, WorldTypeOK, object, work
  <1>22. CASE GatewayRestart
    BY <1>0, <1>22 DEF GatewayRestart, FreshInv, PassTypeOK, WorldTypeOK, object, work
  <1>23. CASE GatewayReady
    BY <1>0, <1>23 DEF GatewayReady, FreshInv, PassTypeOK, WorldTypeOK, object, work
  <1>24. CASE CiliumChange
    BY <1>0, <1>24 DEF CiliumChange, FreshInv, PassTypeOK, WorldTypeOK, object, work
  <1>25. CASE Crash
    BY <1>0, <1>25 DEF Crash, FreshInv, PassTypeOK, WorldTypeOK, object, work
  <1> QED
    BY <1>1, <1>2, <1>3, <1>4, <1>5, <1>6, <1>7, <1>8, <1>9, <1>10, <1>11, <1>12, <1>13, <1>14,
       <1>15, <1>16, <1>17, <1>18, <1>19, <1>20, <1>21, <1>22, <1>23, <1>24, <1>25, Cases
       DEF PolicyStep, Step

\* While the policy is not queued, a pass works on its present spec.
LEMMA FreshHolds == Spec => []Freshes
  <1>1. Init => Freshes
    BY DEF Init, Freshes, FreshInv
  <1> QED
    BY <1>1, FreshStep, PhasesHold, TypeCorrect, PTL DEF Spec

\* The targets are a matter of the spec, the servers and the group.
LEMMA TargetsKept ==
    ASSUME NEW p, spec'[p] = spec[p], UNCHANGED <<server, group>>
    PROVE  Targets(p)' = Targets(p)
  BY DEF Targets, Resolved

\* The watches miss no change of a live policy's targets (policiesForMCPServer and
\* policiesForMCPServerGroup): what they leave out of the queue has the targets it had.
LEMMA WatchesSuffice ==
    ASSUME TypeOK, NEW p \in Policies, phase[p] = "live", p \notin queued',
           GroupChange \/ \E s \in Servers : ServerChange(s)
    PROVE  Targets(p)' = Targets(p)
  <1>0. p \in existing
    BY DEF existing
  <1>1. spec[p].target \in Servers \cup {Group}
    BY DEF TypeOK, SpecSet
  <1>2. CASE GroupChange
    <2>1. spec[p].target # Group
      BY <1>0, <1>2 DEF GroupChange, policiesForMCPServerGroup
    <2> QED
      BY <1>1, <1>2, <2>1 DEF GroupChange, Targets, Resolved, object
  <1>3. ASSUME NEW s \in Servers, ServerChange(s)
        PROVE  Targets(p)' = Targets(p)
    <2>1. PICK new \in {"absent", "outside", "member"} :
             /\ server' = [server EXCEPT ![s] = new]
             /\ queued' = queued \cup policiesForMCPServer(s, server[s], new)
      BY <1>3 DEF ServerChange
    <2>2. spec[p].target # s
      BY <1>0, <2>1 DEF policiesForMCPServer
    <2>3. ~(spec[p].target = Group /\ group /\ "member" \in {server[s], new})
      BY <1>0, <2>1 DEF policiesForMCPServer
    <2>4. UNCHANGED <<spec, group>>
      BY <1>3 DEF ServerChange, Dropped, Left, object
    <2>5. server \in [Servers -> {"absent", "outside", "member"}]
      BY DEF TypeOK
    <2>6. CASE spec[p].target \in Servers
      BY <2>1, <2>2, <2>4, <2>5, <2>6 DEF Targets, Resolved
    <2>7. CASE spec[p].target = Group /\ ~group
      BY <2>4, <2>7, TargetAssumption DEF Targets, Resolved
    <2>8. CASE spec[p].target = Group /\ server[s] # "member" /\ new # "member"
      <3>1. \A x \in Servers : server'[x] = "member" <=> server[x] = "member"
        BY <2>1, <2>5, <2>8
      <3> QED
        BY <2>4, <2>8, <3>1, TargetAssumption DEF Targets, Resolved
    <2> QED
      BY <1>1, <2>3, <2>6, <2>7, <2>8
  <1> QED
    BY <1>2, <1>3

\* Every step keeps Backstops.
LEMMA BackstopStep ==
    ASSUME TypeOK, Phases, PlansInv, Freshes, Backstops, [Next]_vars
    PROVE  Backstops'
  <1> SUFFICES ASSUME NEW p \in Policies, phase'[p] = "live", p \notin queued',
                      sound', crd' => watched'
               PROVE  BackstopInv(p)'
    BY DEF Backstops, BackstopInv
  <1>0. /\ PhaseInv(p) /\ PlanInv(p) /\ FreshInv(p) /\ BackstopInv(p)
        /\ PassTypeOK /\ WorldTypeOK
    BY TypeParts DEF Phases, PlansInv, Freshes, Backstops
  <1>1. CASE Other(p)
    <2>1. Targets(p)' = Targets(p)
      BY <1>1, TargetsKept DEF Other, Same, cluster
    <2> QED
      BY <1>0, <1>1, <2>1 DEF BackstopInv, BackstopOK, Fits, Other, Same, cilium
  <1>2. CASE Reconcile(p)
    BY <1>0, <1>2
       DEF Reconcile, existing, FirstCall, Goto, BackstopInv, PassTypeOK, WorldTypeOK, object
  <1>3. CASE AddFinalizer(p)
    BY <1>3 DEF AddFinalizer, Retry
  <1>4. CASE Resolve(p)
    <2>1. Targets(p)' = Targets(p)
      BY <1>4, TargetsKept DEF Resolve, object, cluster
    <2>2. seen[p] = spec[p] /\ Resolved(seen[p].target) = Targets(p)
      BY <1>0, <1>4 DEF Resolve, FreshInv, Targets
    <2>3. /\ todo'[p] = Targets(p) /\ plan'[p] = Plan(p, Targets(p))
          /\ pc'[p] = FirstWrite(plan'[p]) /\ spec'[p] = spec[p]
      BY <1>0, <1>4, <2>2 DEF Resolve, Goto, PassTypeOK, object
    <2>4. Fits(p)'
      <3>1. spec[p] \in SpecSet
        BY <1>0 DEF WorldTypeOK
      <3> QED
        BY <2>1, <2>2, <2>3, <3>1 DEF Fits, Plan, SpecSet
    <2>5. pc'[p] \in {"applyNP", "applyCNP", "deleteNP"}
      BY <2>3 DEF FirstWrite
    <2>6. pc'[p] = "deleteNP" => plan'[p] # "cilium"
      BY <2>3 DEF FirstWrite
    <2> QED
      BY <2>1, <2>3, <2>4, <2>5, <2>6 DEF BackstopInv
  <1>5. CASE ResolveFails(p)
    BY <1>0, <1>5 DEF ResolveFails, FailCall, FailStep, Goto, BackstopInv, PassTypeOK
  <1>6. CASE ApplyNP(p)
    <2>1. Targets(p)' = Targets(p)
      BY <1>6, TargetsKept DEF ApplyNP, FailCall, FailStep, object, cluster
    <2>2. sound /\ (crd => watched)
      <3>1. sound' = sound /\ crd' = crd /\ watched' = watched
        BY <1>6 DEF ApplyNP, FailCall, FailStep, cilium
      <3> QED
        BY <3>1, Zenon
    <2> QED
      BY <1>0, <1>6, <2>1, <2>2
         DEF ApplyNP, FailCall, FailStep, Goto, PlanInv, BackstopInv, BackstopOK, Fits, PassTypeOK,
            WorldTypeOK, object, cilium, work
  <1>7. CASE DeleteCNP(p)
    <2>1. Targets(p)' = Targets(p)
      BY <1>7, TargetsKept DEF DeleteCNP, FailCall, FailStep, object, cluster
    <2>2. sound /\ (crd => watched)
      <3>1. sound' = sound /\ crd' = crd /\ watched' = watched
        BY <1>7 DEF DeleteCNP, FailCall, FailStep, cilium
      <3> QED
        BY <3>1, Zenon
    <2> QED
      BY <1>0, <1>7, <2>1, <2>2
         DEF DeleteCNP, FailCall, FailStep, Goto, PlanInv, BackstopInv, BackstopOK, Fits, PassTypeOK,
            WorldTypeOK, object, cilium
  <1>8. CASE ApplyCNP(p)
    <2>1. Targets(p)' = Targets(p)
      BY <1>8, TargetsKept DEF ApplyCNP, FailCall, FailStep, object, cluster
    <2>2. phase[p] = "live" /\ p \notin queued /\ sound /\ (crd => watched)
      BY <1>8 DEF ApplyCNP, FailCall, FailStep, object, cilium
    <2>3. CASE FailStep(p)
      BY <1>0, <2>3 DEF FailStep, Goto, BackstopInv, PassTypeOK
    <2>4. CASE ~FailStep(p)
      <3>1. /\ cnp'[p] = todo[p] /\ np'[p] = np[p] /\ pc'[p] = "deleteNP"
            /\ plan'[p] = plan[p] /\ spec'[p] = spec[p] /\ todo'[p] = todo[p]
        BY <1>0, <1>8, <2>4 DEF ApplyCNP, FailCall, Goto, PassTypeOK, WorldTypeOK, object, work
      <3>2. pc[p] = "applyCNP"
        BY <1>8 DEF ApplyCNP
      <3> QED
        BY <1>0, <2>1, <2>2, <3>1, <3>2 DEF BackstopInv, Fits, PlanInv
    <2> QED
      BY <2>3, <2>4
  <1>9. CASE DeleteNP(p)
    <2>1. Targets(p)' = Targets(p)
      BY <1>9, TargetsKept DEF DeleteNP, FailCall, FailStep, object, cluster
    <2>2. phase[p] = "live" /\ p \notin queued /\ sound /\ (crd => watched)
      <3>1. sound /\ (crd => watched)
        <4>1. sound' = sound /\ crd' = crd /\ watched' = watched
          BY <1>9 DEF DeleteNP, FailCall, FailStep, cilium
        <4> QED
          BY <4>1, Zenon
      <3> QED
        BY <1>9, <3>1 DEF DeleteNP, FailCall, FailStep, object
    <2>3. CASE FailCall(p)
      BY <1>0, <2>3 DEF FailCall, FailStep, Goto, BackstopInv, PassTypeOK
    <2>4. CASE ~FailCall(p)
      <3>1. /\ np'[p] = {} /\ cnp'[p] = cnp[p] /\ pc'[p] = AfterDelete(plan[p])
            /\ plan'[p] = plan[p] /\ spec'[p] = spec[p] /\ todo'[p] = todo[p]
        BY <1>0, <1>9, <2>4 DEF DeleteNP, Goto, PassTypeOK, WorldTypeOK, object, work
      <3>2. pc[p] = "deleteNP"
        BY <1>9 DEF DeleteNP
      <3>3. Fits(p) /\ todo[p] = Targets(p)
        BY <1>0, <2>2, <3>2 DEF BackstopInv
      <3>4. Fits(p)'
        BY <2>1, <3>1, <3>3 DEF Fits
      <3>5. pc'[p] = "deleteCNP" => plan[p] = "audit"
        BY <3>1 DEF AfterDelete
      <3>6. pc'[p] \in {"writeStatus", "deleteCNP", "push"}
        BY <3>1 DEF AfterDelete
      <3>7. pc'[p] # "deleteCNP" /\ plan[p] # "withhold" => BackstopOK(p)'
        <4>1. plan[p] = "audit" => pc'[p] = "deleteCNP"
          BY <3>1 DEF AfterDelete
        <4>2. CASE plan[p] = "cilium"
          BY <1>0, <2>1, <2>2, <3>1, <3>2, <3>3, <4>2 DEF BackstopInv, BackstopOK, Fits
        <4>3. CASE plan[p] \in {"optOut", "noPods"}
          BY <2>1, <3>1, <3>3, <4>3 DEF BackstopOK, Fits
        <4> QED
          BY <1>0, <3>2, <4>1, <4>2, <4>3 DEF PassTypeOK, Plans, PlanInv
      <3> QED
        BY <2>1, <3>1, <3>3, <3>4, <3>5, <3>6, <3>7 DEF BackstopInv
    <2> QED
      BY <2>3, <2>4
  <1>10. CASE Push(p)
    <2>1. Targets(p)' = Targets(p)
      BY <1>10, TargetsKept DEF Push, Set, object, cluster
    <2> QED
      BY <1>0, <1>10, <2>1
         DEF Push, Set, Goto, PlanInv, BackstopInv, BackstopOK, Fits, PassTypeOK, WorldTypeOK,
            object, cilium
  <1>11. CASE WriteStatus(p)
    <2>1. Targets(p)' = Targets(p)
      BY <1>11, TargetsKept DEF WriteStatus, object, cluster
    <2> QED
      BY <1>0, <1>11, <2>1
         DEF WriteStatus, End, BackstopInv, BackstopOK, Fits, PassTypeOK, WorldTypeOK, object,
            cilium
  <1>12. CASE DelResolve(p)
    BY <1>0, <1>12 DEF DelResolve, PhaseInv, DeleteCalls, object
  <1>13. CASE Clear(p)
    BY <1>0, <1>13 DEF Clear, PhaseInv, DeleteCalls, object
  <1>14. CASE RemoveFinalizer(p)
    BY <1>0, <1>14 DEF RemoveFinalizer, Retry, WorldTypeOK
  <1>15. CASE UserCreate(p)
    BY <1>15 DEF UserCreate
  <1>16. CASE UserEdit(p)
    BY <1>16 DEF UserEdit
  <1>17. CASE UserDelete(p)
    BY <1>17 DEF UserDelete
  <1>18. CASE Fire(p)
    BY <1>18 DEF Fire
  <1>19. CASE Tamper(p)
    <2>1. Targets(p)' = Targets(p)
      BY <1>19, TargetsKept DEF Tamper, object, cluster
    <2> QED
      BY <1>0, <1>19, <2>1
         DEF Tamper, PlanInv, BackstopInv, BackstopOK, Fits, PassTypeOK, WorldTypeOK, object,
            cilium, work
  <1>20. CASE \E s \in Servers : ServerChange(s)
    <2>1. phase[p] = "live"
      BY <1>20 DEF ServerChange, Dropped, Left, object
    <2>2. Targets(p)' = Targets(p)
      BY <1>20, <2>1, WatchesSuffice
    <2> QED
      BY <1>0, <1>20, <2>1, <2>2
         DEF ServerChange, Dropped, Left, BackstopInv, BackstopOK, Fits, PassTypeOK, WorldTypeOK, object,
            cilium, work
  <1>21. CASE GroupChange
    <2>1. phase[p] = "live"
      BY <1>21 DEF GroupChange, object
    <2>2. Targets(p)' = Targets(p)
      BY <1>21, <2>1, WatchesSuffice
    <2> QED
      BY <1>0, <1>21, <2>1, <2>2
         DEF GroupChange, BackstopInv, BackstopOK, Fits, PassTypeOK, WorldTypeOK, object,
            cilium, work
  <1>22. CASE GatewayRestart
    <2>1. Targets(p)' = Targets(p)
      BY <1>22, TargetsKept DEF GatewayRestart, object, cluster
    <2> QED
      BY <1>0, <1>22, <2>1
         DEF GatewayRestart, BackstopInv, BackstopOK, Fits, PassTypeOK, WorldTypeOK, object,
            cilium, work
  <1>23. CASE CiliumChange
    <2>1. Targets(p)' = Targets(p)
      BY <1>23, TargetsKept DEF CiliumChange, object, cluster
    <2>2. UNCHANGED <<phase, spec, np, timer, pc, plan, todo, watched>> /\ p \notin queued
      BY <1>23 DEF CiliumChange, object, work
    <2>3. sound /\ (crd => watched) /\ (UNCHANGED cnp \/ watched)
      <3>1. watched' = watched
        BY <1>23 DEF CiliumChange
      <3>2. CASE sound' = sound /\ crd' = crd /\ UNCHANGED cnp
        BY <3>1, <3>2, Zenon
      <3>3. CASE sound' = sound /\ ~crd /\ UNCHANGED cnp
        BY <3>1, <3>3, Zenon
      <3>4. CASE sound' = FALSE
        BY <3>4, Zenon
      <3>5. CASE sound' = (sound /\ watched)
        BY <3>5, Zenon
      <3> QED
        BY <1>23, <3>2, <3>3, <3>4, <3>5, Zenon DEF CiliumChange
    <2>4. cnp'[p] = cnp[p]
      BY <1>0, <1>23, <2>3 DEF CiliumChange, WorldTypeOK
    <2> QED
      BY <1>0, <2>1, <2>2, <2>3, <2>4 DEF BackstopInv, BackstopOK, Fits
  <1>24. CASE GatewayReady
    BY <1>0, <1>24 DEF GatewayReady, policiesForGatewayPod, existing, object
  <1>25. CASE Crash
    BY <1>0, <1>25 DEF Crash, existing, object
  <1> QED
    BY <1>1, <1>2, <1>3, <1>4, <1>5, <1>6, <1>7, <1>8, <1>9, <1>10, <1>11, <1>12, <1>13, <1>14,
       <1>15, <1>16, <1>17, <1>18, <1>19, <1>20, <1>21, <1>22, <1>23, <1>24, <1>25, Cases
       DEF PolicyStep, Step

\* A settled policy has the backstop its spec and its present targets call for, in one
\* flavor and not in two, whatever joined or left, failed, restarted or was deleted by hand
\* before, for any number of policies.
THEOREM BackstopHolds == Spec => []BackstopInPlace
  <1>1. Init => Backstops
    BY DEF Init, Backstops, BackstopInv
  <1>2. Backstops => BackstopInPlace
    BY DEF Backstops, BackstopInv, BackstopInPlace, BackstopOK, Settled
  <1> QED
    BY <1>1, <1>2, BackstopStep, PhasesHold, PlansHold, FreshHolds, TypeCorrect, PTL DEF Spec

-----------------------------------------------------------------------------
(* The L7 policy *)

\* A named target resolves to that server or to nothing; what a target resolves to is
\* there.
LEMMA ResolvedFacts ==
    ASSUME NEW t \in Servers \cup {Group}
    PROVE  /\ t # Group => Resolved(t) \subseteq {t}
           /\ \A s \in Resolved(t) : s \in Servers /\ server[s] # "absent"
  BY TargetAssumption DEF Resolved

\* Every step keeps Todos.
LEMMA TodoStep ==
    ASSUME TypeOK, Phases, Todos, [Next]_vars
    PROVE  Todos'
  <1> SUFFICES ASSUME NEW p \in Policies PROVE TodoInv(p)'
    BY DEF Todos
  <1>0. PhaseInv(p) /\ TodoInv(p) /\ PassTypeOK /\ WorldTypeOK
    BY TypeParts DEF Phases, Todos
  <1>1. CASE Other(p)
    BY <1>0, <1>1 DEF TodoInv, Other, Same
  <1>2. CASE Reconcile(p)
    BY <1>0, <1>2
       DEF Reconcile, existing, FirstCall, Goto, TodoInv, PassTypeOK, WorldTypeOK, object, work
  <1>3. CASE AddFinalizer(p)
    BY <1>0, <1>3
       DEF AddFinalizer, Retry, End, Goto, TodoInv, PassTypeOK, WorldTypeOK, object, work
  <1>4. CASE Resolve(p)
    <2>1. seen[p].target = spec[p].target
      BY <1>0, <1>4 DEF Resolve, PhaseInv
    <2>2. spec[p].target \in Servers \cup {Group}
      BY <1>0 DEF WorldTypeOK, SpecSet
    <2>3. spec[p].target # Group => Resolved(seen[p].target) \subseteq {spec[p].target}
      BY <2>1, <2>2, ResolvedFacts
    <2> QED
      BY <1>0, <1>4, <2>3
         DEF Resolve, Goto, FirstWrite, TodoInv, PassTypeOK, WorldTypeOK, object, work
  <1>5. CASE ResolveFails(p)
    BY <1>0, <1>5
       DEF ResolveFails, FailCall, FailStep, Goto, TodoInv, PassTypeOK, WorldTypeOK, object, work
  <1>6. CASE ApplyNP(p)
    BY <1>0, <1>6 DEF ApplyNP, FailCall, FailStep, Goto, TodoInv, PassTypeOK, WorldTypeOK, object, work
  <1>7. CASE DeleteCNP(p)
    BY <1>0, <1>7 DEF DeleteCNP, FailCall, FailStep, Goto, TodoInv, PassTypeOK, WorldTypeOK, object, work
  <1>8. CASE ApplyCNP(p)
    BY <1>0, <1>8 DEF ApplyCNP, FailCall, FailStep, Goto, TodoInv, PassTypeOK, WorldTypeOK, object, work
  <1>9. CASE DeleteNP(p)
    BY <1>0, <1>9
       DEF DeleteNP, FailCall, FailStep, Goto, AfterDelete, TodoInv, PassTypeOK, WorldTypeOK, object, work
  <1>10. CASE Push(p)
    BY <1>0, <1>10 DEF Push, Set, Goto, TodoInv, PassTypeOK, WorldTypeOK, object, work
  <1>11. CASE WriteStatus(p)
    BY <1>0, <1>11 DEF WriteStatus, End, TodoInv, PassTypeOK, WorldTypeOK, object, work
  <1>12. CASE DelResolve(p)
    <2>1. seen[p].target = spec[p].target
      BY <1>0, <1>12 DEF DelResolve, PhaseInv
    <2>2. spec[p].target \in Servers \cup {Group}
      BY <1>0 DEF WorldTypeOK, SpecSet
    <2>3. spec[p].target # Group => Resolved(seen[p].target) \subseteq {spec[p].target}
      BY <2>1, <2>2, ResolvedFacts
    <2> QED
      BY <1>0, <1>12, <2>3
         DEF DelResolve, Retry, End, Goto, TodoInv, PassTypeOK, WorldTypeOK, object, work
  <1>13. CASE Clear(p)
    BY <1>0, <1>13 DEF Clear, Goto, TodoInv, PassTypeOK, WorldTypeOK, object, work
  <1>14. CASE RemoveFinalizer(p)
    BY <1>0, <1>14
       DEF RemoveFinalizer, Retry, End, TodoInv, PassTypeOK, WorldTypeOK, object, work
  <1>15. CASE UserCreate(p)
    BY <1>0, <1>15 DEF UserCreate, TodoInv, PassTypeOK, WorldTypeOK, object, work, PhaseInv
  <1>16. CASE UserEdit(p)
    BY <1>0, <1>16 DEF UserEdit, existing, TodoInv, PassTypeOK, WorldTypeOK, object, work
  <1>17. CASE UserDelete(p)
    BY <1>0, <1>17 DEF UserDelete, TodoInv, PassTypeOK, WorldTypeOK, object, work
  <1>18. CASE Tamper(p)
    BY <1>0, <1>18 DEF Tamper, TodoInv, PassTypeOK, WorldTypeOK, object, work
  <1>19. CASE Fire(p)
    BY <1>0, <1>19 DEF Fire, TodoInv, PassTypeOK, WorldTypeOK, object, work
  <1>20. CASE \E s \in Servers : ServerChange(s)
    BY <1>0, <1>20 DEF ServerChange, Dropped, Left, TodoInv, PassTypeOK, WorldTypeOK, object, work
  <1>21. CASE GroupChange
    BY <1>0, <1>21 DEF GroupChange, TodoInv, PassTypeOK, WorldTypeOK, object, work
  <1>22. CASE GatewayRestart
    BY <1>0, <1>22 DEF GatewayRestart, TodoInv, PassTypeOK, WorldTypeOK, object, work
  <1>23. CASE GatewayReady
    BY <1>0, <1>23 DEF GatewayReady, TodoInv, PassTypeOK, WorldTypeOK, object, work
  <1>24. CASE CiliumChange
    BY <1>0, <1>24 DEF CiliumChange, TodoInv, PassTypeOK, WorldTypeOK, object, work
  <1>25. CASE Crash
    BY <1>0, <1>25 DEF Crash, TodoInv, PassTypeOK, WorldTypeOK, object, work
  <1> QED
    BY <1>1, <1>2, <1>3, <1>4, <1>5, <1>6, <1>7, <1>8, <1>9, <1>10, <1>11, <1>12, <1>13, <1>14,
       <1>15, <1>16, <1>17, <1>18, <1>19, <1>20, <1>21, <1>22, <1>23, <1>24, <1>25, Cases
       DEF PolicyStep, Step

\* A pass of a policy that names its server calls core for that server only.
LEMMA TodosHold == Spec => []Todos
  <1>1. Init => Todos
    BY DEF Init, Todos, TodoInv
  <1> QED
    BY <1>1, TodoStep, PhasesHold, TypeCorrect, PTL DEF Spec

\* A policy apart from q neither pushes to q's targets nor clears them.
LEMMA ApartFrame ==
    ASSUME TypeOK, Phases, Todos, Apart, NEW p \in Policies, NEW q \in Policies, p # q,
           PolicyStep(p), phase[q] = "live"
    PROVE  \A s \in Targets(q) : l7'[s] = l7[s]
  <1>0. PhaseInv(p) /\ TodoInv(p) /\ PassTypeOK /\ WorldTypeOK
    BY TypeParts DEF Phases, Todos
  <1>1. ASSUME pc[p] \in {"push", "clear"}, NEW s \in todo[p]
        PROVE  s \notin Targets(q)
    <2>1. p \in existing /\ q \in existing
      BY <1>0, <1>1 DEF existing, PhaseInv, NormalCalls, DeleteCalls, WorldTypeOK
    <2>2. spec[p].target # spec[q].target /\ spec[p].target # Group /\ spec[q].target # Group
      BY <2>1 DEF Apart
    <2>3. s = spec[p].target
      BY <1>0, <1>1, <2>2 DEF TodoInv
    <2>4. spec[q].target \in Servers \cup {Group}
      BY <1>0 DEF WorldTypeOK, SpecSet
    <2>5. Targets(q) \subseteq {spec[q].target}
      BY <2>2, <2>4, ResolvedFacts DEF Targets
    <2> QED
      BY <2>2, <2>3, <2>5
  <1>2. CASE Push(p)
    <2>1. PICK s \in todo[p] :
             l7' = l7 \/ l7' = [l7 EXCEPT ![s] = compileL7Policy(p, seen[p])]
      BY <1>2 DEF Push, Set
    <2>2. s \notin Targets(q) /\ Targets(q) \subseteq Servers
      BY <1>1, <1>2, Members DEF Push, Set, Targets
    <2> QED
      BY <1>0, <2>1, <2>2 DEF WorldTypeOK
  <1>3. CASE Clear(p)
    <2>1. PICK s \in todo[p] :
             l7' = l7 \/ l7' = [l7 EXCEPT ![s] = NoL7]
      BY <1>3 DEF Clear
    <2>2. s \notin Targets(q) /\ Targets(q) \subseteq Servers
      BY <1>1, <1>3, Members DEF Clear, Targets
    <2> QED
      BY <1>0, <2>1, <2>2 DEF WorldTypeOK
  <1>4. CASE ~Push(p) /\ ~Clear(p)
    <2>1. l7' = l7
      BY <1>4 DEF PolicyStep, Step, Reconcile, AddFinalizer, Resolve, ResolveFails, ApplyNP,
                  DeleteCNP, ApplyCNP, DeleteNP, WriteStatus, DelResolve, RemoveFinalizer,
                  FailCall, FailStep, UserCreate, UserEdit, UserDelete, Tamper, Fire, core
    <2> QED
      BY <2>1
  <1> QED
    BY <1>2, <1>3, <1>4

\* What a step is to a live policy that is apart from the others.
LEMMA ApartCases ==
    ASSUME TypeOK, Phases, Todos, Apart, [Next]_vars, NEW q \in Policies, phase[q] = "live"
    PROVE  \/ Same(q) /\ \A s \in Targets(q) : l7'[s] = l7[s]
           \/ PolicyStep(q) \/ \E s \in Servers : ServerChange(s)
           \/ GroupChange \/ GatewayRestart \/ GatewayReady \/ CiliumChange \/ Crash
  <1>1. CASE UNCHANGED vars
    BY <1>1, Stutter
  <1>2. CASE \E p \in Policies : PolicyStep(p)
    BY <1>2, Frame, ApartFrame DEF Other
  <1> QED
    BY <1>1, <1>2 DEF Next, Environment, PolicyStep

\* Every step keeps L7s while the policies are apart.
LEMMA L7Step ==
    ASSUME TypeOK, Phases, Freshes, Todos, L7s, Apart, [Next]_vars
    PROVE  L7s'
  <1> SUFFICES ASSUME NEW p \in Policies, phase'[p] = "live", p \notin queued', gateway'
               PROVE  L7Inv(p)'
    BY DEF L7s, L7Inv
  <1>0. PhaseInv(p) /\ FreshInv(p) /\ L7Inv(p) /\ PassTypeOK /\ WorldTypeOK
    BY TypeParts DEF Phases, Freshes, L7s
  <1>1. Targets(p) \subseteq Servers
    BY Members DEF Targets
  <1>2. CASE Same(p) /\ \A s \in Targets(p) : l7'[s] = l7[s]
    <2>1. Targets(p)' = Targets(p)
      BY <1>2, TargetsKept DEF Same, cluster
    <2> QED
      BY <1>0, <1>2, <2>1 DEF L7Inv, Pushed, compileL7Policy, Same
  <1>3. CASE Reconcile(p)
    BY <1>0, <1>3
       DEF Reconcile, existing, FirstCall, Goto, L7Inv, PassTypeOK, WorldTypeOK, object
  <1>4. CASE AddFinalizer(p)
    BY <1>4 DEF AddFinalizer, Retry
  <1>5. CASE Resolve(p)
    <2>1. Targets(p)' = Targets(p)
      BY <1>5, TargetsKept DEF Resolve, object, cluster
    <2>2. Resolved(seen[p].target) = Targets(p)
      BY <1>0, <1>5 DEF Resolve, FreshInv, Targets
    <2>3. todo'[p] = Targets(p) /\ pc'[p] \in {"applyNP", "applyCNP", "deleteNP"}
      BY <1>0, <1>5, <2>2 DEF Resolve, Goto, FirstWrite, PassTypeOK
    <2> QED
      BY <2>1, <2>3 DEF L7Inv
  <1>6. CASE ResolveFails(p)
    BY <1>0, <1>6 DEF ResolveFails, FailCall, FailStep, Goto, L7Inv, PassTypeOK
  <1>7. CASE ApplyNP(p)
    <2>1. Targets(p)' = Targets(p)
      BY <1>7, TargetsKept DEF ApplyNP, FailCall, FailStep, object, cluster
    <2> QED
      BY <1>0, <1>7, <2>1
         DEF ApplyNP, FailCall, FailStep, Goto, L7Inv, Pushed, compileL7Policy, PassTypeOK, WorldTypeOK,
            object, core, work
  <1>8. CASE DeleteCNP(p)
    <2>1. Targets(p)' = Targets(p)
      BY <1>8, TargetsKept DEF DeleteCNP, FailCall, FailStep, object, cluster
    <2>2. /\ phase[p] = "live" /\ p \notin queued /\ gateway
          /\ pc[p] = "deleteCNP"
      BY <1>0, <1>8 DEF DeleteCNP, FailCall, FailStep, object, core
    <2>3. todo[p] = Targets(p)
      BY <1>0, <2>2 DEF L7Inv
    <2>4. CASE FailCall(p)
      BY <1>0, <2>4 DEF FailCall, FailStep, Goto, L7Inv, PassTypeOK
    <2>5. CASE ~FailCall(p)
      <3>1. pc'[p] = "push" /\ todo'[p] = todo[p] /\ plan'[p] = plan[p]
        BY <1>0, <1>8, <2>5 DEF DeleteCNP, Goto, PassTypeOK
      <3>2. Targets(p)' \ todo'[p] = {}
        BY <2>1, <2>3, <3>1
      <3> QED
        BY <2>1, <2>3, <3>1, <3>2 DEF L7Inv, Pushed
    <2> QED
      BY <2>4, <2>5
  <1>9. CASE ApplyCNP(p)
    <2>1. Targets(p)' = Targets(p)
      BY <1>9, TargetsKept DEF ApplyCNP, FailCall, FailStep, object, cluster
    <2> QED
      BY <1>0, <1>9, <2>1
         DEF ApplyCNP, FailCall, FailStep, Goto, L7Inv, Pushed, compileL7Policy, PassTypeOK, WorldTypeOK,
            object, core, work
  <1>10. CASE DeleteNP(p)
    <2>1. Targets(p)' = Targets(p)
      BY <1>10, TargetsKept DEF DeleteNP, FailCall, FailStep, object, cluster
    <2>2. /\ phase[p] = "live" /\ p \notin queued /\ gateway
          /\ pc[p] = "deleteNP"
      BY <1>0, <1>10 DEF DeleteNP, FailCall, FailStep, object, core
    <2>3. todo[p] = Targets(p)
      BY <1>0, <2>2 DEF L7Inv
    <2>4. CASE FailCall(p)
      BY <1>0, <2>4 DEF FailCall, FailStep, Goto, L7Inv, PassTypeOK
    <2>5. CASE ~FailCall(p)
      <3>1. pc'[p] = AfterDelete(plan[p]) /\ todo'[p] = todo[p] /\ plan'[p] = plan[p]
        BY <1>0, <1>10, <2>5 DEF DeleteNP, Goto, PassTypeOK
      <3>2. Targets(p)' \ todo'[p] = {}
        BY <2>1, <2>3, <3>1
      <3> QED
        BY <2>1, <2>3, <3>1, <3>2 DEF L7Inv, Pushed, AfterDelete
    <2> QED
      BY <2>4, <2>5
  <1>11. CASE Push(p)
    <2>1. Targets(p)' = Targets(p)
      BY <1>11, TargetsKept DEF Push, Set, object, cluster
    <2>2. /\ phase[p] = "live" /\ p \notin queued /\ gateway
          /\ pc[p] = "push" /\ seen[p] = spec[p] /\ spec'[p] = spec[p]
      BY <1>0, <1>11 DEF Push, Set, FreshInv, object
    <2>3. Pushed(p, Targets(p) \ todo[p])
      BY <1>0, <2>2 DEF L7Inv
    <2>4. CASE pc'[p] = "retryStatus"
      BY <2>4 DEF L7Inv
    <2>5. CASE pc'[p] # "retryStatus"
      <3>1. PICK s \in todo[p] :
               /\ l7' = [l7 EXCEPT ![s] = compileL7Policy(p, spec[p])]
               /\ todo'[p] = todo[p] \ {s}
               /\ IF todo[p] = {s} THEN pc'[p] = "writeStatus" /\ out'[p].l7 = "Delivered"
                  ELSE pc'[p] = "push"
        BY <1>0, <1>11, <2>2, <2>5 DEF Push, Set, Goto, PassTypeOK, StatusSet
      <3>2. \A x \in Targets(p) \ todo'[p] : l7'[x] = compileL7Policy(p, spec[p])
        BY <1>0, <1>1, <2>1, <2>2, <2>3, <3>1 DEF Pushed, compileL7Policy, WorldTypeOK
      <3>3. todo[p] = {s} => todo'[p] = {}
        BY <3>1
      <3> QED
        BY <2>1, <2>2, <3>1, <3>2, <3>3 DEF L7Inv, Pushed, compileL7Policy
    <2> QED
      BY <2>4, <2>5
  <1>12. CASE WriteStatus(p)
    <2>1. Targets(p)' = Targets(p)
      BY <1>12, TargetsKept DEF WriteStatus, object, cluster
    <2> QED
      BY <1>0, <1>12, <2>1
         DEF WriteStatus, End, L7Inv, Pushed, compileL7Policy, PassTypeOK, WorldTypeOK, object,
            core
  <1>13. CASE DelResolve(p)
    BY <1>0, <1>13 DEF DelResolve, PhaseInv, DeleteCalls, object
  <1>14. CASE Clear(p)
    BY <1>0, <1>14 DEF Clear, PhaseInv, DeleteCalls, object
  <1>15. CASE RemoveFinalizer(p)
    BY <1>0, <1>15 DEF RemoveFinalizer, Retry, WorldTypeOK
  <1>16. CASE UserCreate(p)
    BY <1>16 DEF UserCreate
  <1>17. CASE UserEdit(p)
    BY <1>17 DEF UserEdit
  <1>18. CASE UserDelete(p)
    BY <1>18 DEF UserDelete
  <1>19. CASE Fire(p)
    BY <1>19 DEF Fire
  <1>20. CASE Tamper(p)
    <2>1. Targets(p)' = Targets(p)
      BY <1>20, TargetsKept DEF Tamper, object, cluster
    <2> QED
      BY <1>0, <1>20, <2>1
         DEF Tamper, L7Inv, Pushed, compileL7Policy, PassTypeOK, WorldTypeOK, object, core, work
  <1>21. CASE \E s \in Servers : ServerChange(s)
    <2>1. phase[p] = "live" /\ p \notin queued /\ gateway
      BY <1>21 DEF ServerChange, Dropped, Left, object
    <2>2. Targets(p)' = Targets(p)
      BY <1>21, <2>1, WatchesSuffice
    <2>3. \A s \in Targets(p) : server'[s] # "absent"
      <3>1. spec'[p].target \in Servers \cup {Group}
        BY <1>0, <1>21 DEF ServerChange, Dropped, Left, object, WorldTypeOK, SpecSet
      <3>2. \A s \in Targets(p)' : server'[s] # "absent"
        BY <3>1, TargetAssumption DEF Targets, Resolved
      <3> QED
        BY <2>2, <3>2
    <2>4. \A s \in Targets(p) : l7'[s] = l7[s]
      BY <1>0, <1>1, <1>21, <2>3 DEF ServerChange, Dropped, Left, WorldTypeOK
    <2> QED
      BY <1>0, <1>21, <2>1, <2>2, <2>4
         DEF ServerChange, Dropped, Left, L7Inv, Pushed, compileL7Policy, object, core, work
  <1>22. CASE GroupChange
    <2>1. phase[p] = "live" /\ p \notin queued /\ gateway
      BY <1>22 DEF GroupChange, object, core
    <2>2. Targets(p)' = Targets(p)
      BY <1>22, <2>1, WatchesSuffice
    <2> QED
      BY <1>0, <1>22, <2>1, <2>2
         DEF GroupChange, L7Inv, Pushed, compileL7Policy, object, core, work
  <1>23. CASE CiliumChange
    <2>1. Targets(p)' = Targets(p)
      BY <1>23, TargetsKept DEF CiliumChange, object, cluster
    <2> QED
      BY <1>0, <1>23, <2>1 DEF CiliumChange, L7Inv, Pushed, compileL7Policy, object, core, work
  <1>24. CASE GatewayRestart
    BY <1>24 DEF GatewayRestart
  <1>25. CASE GatewayReady
    BY <1>0, <1>25 DEF GatewayReady, policiesForGatewayPod, existing, object
  <1>26. CASE Crash
    BY <1>0, <1>26 DEF Crash, existing, object
  <1>27. CASE phase[p] # "live" /\ Other(p)
    BY <1>27 DEF Other, Same
  <1> QED
    BY <1>2, <1>3, <1>4, <1>5, <1>6, <1>7, <1>8, <1>9, <1>10, <1>11, <1>12, <1>13, <1>14, <1>15,
       <1>16, <1>17, <1>18, <1>19, <1>20, <1>21, <1>22, <1>23, <1>24, <1>25, <1>26, <1>27,
       Cases, ApartCases
       DEF PolicyStep, Step

\* While no two policies there are share a target, core holds the present L7 policy of
\* every settled policy for every present target, and the policy says so.  The hypothesis
\* is needed: the clear of one policy takes what another pushed to the same server
\* (clearL7ForTarget), and no event brings the other back.
THEOREM L7Holds == Spec /\ []Apart => []L7InPlace
  <1>1. Init => L7s
    BY DEF Init, L7s, L7Inv
  <1>2. L7s => L7InPlace
    BY DEF L7s, L7Inv, L7InPlace, Pushed, Settled
  <1> QED
    BY <1>1, <1>2, L7Step, PhasesHold, FreshHolds, TodosHold, TypeCorrect, PTL DEF Spec

=============================================================================
