----------------------- MODULE GovernedNamespaceProofs ----------------------
(***************************************************************************)
(* Theorems about GovernedNamespace, for any set of specs a user may give  *)
(* the server and any number of edits, failures and restarts.              *)
(***************************************************************************)
EXTENDS GovernedNamespace, TLAPS

-----------------------------------------------------------------------------
(* The values a step writes are of their kind. *)

\* The spec a pass holds between passes is one of the specs.
LEMMA NoSpecType == NoSpec \in Specs
  BY SpecsAssumption DEF NoSpec

\* The empty status is a status.
LEMMA NoStatusType == NoStatus \in StatusSet
  BY DEF NoStatus, StatusSet

\* What reconcileViolationDetection lists are types of violations.
LEMMA DetectedType ==
  ASSUME NEW s, NEW st
  PROVE  Detected(s, st) \subseteq {"capability_drift", "undeclared_tool"}
  BY DEF Detected

\* A status stays one when a pass sets the parts of it that belong together.
LEMMA StatusParts ==
  ASSUME NEW st \in StatusSet
  PROVE  /\ \A r \in {"ApplyFailed", "NotRequested", "Applied"} :
              [st EXCEPT !.ing = r] \in StatusSet
         /\ \A r \in {"Withheld", "NoPolicyNeeded", "NameTaken", "Applied"} :
              [st EXCEPT !.np = r] \in StatusSet
         /\ \A x \in {"Initializing", "Degraded"} : [st EXCEPT !.state = x] \in StatusSet
         /\ \A x \in {"Cold", "Dead"} : [st EXCEPT !.state = x, !.ready = FALSE] \in StatusSet
         /\ \A v \in SUBSET {"capability_drift", "undeclared_tool"} :
              [st EXCEPT !.viol = v] \in StatusSet
         /\ Ready(st) \in StatusSet
         /\ \A n \in 1 .. 2 : [Ready(st) EXCEPT !.tools = n] \in StatusSet
<1>1. ASSUME NEW r \in {"ApplyFailed", "NotRequested", "Applied"}
      PROVE  [st EXCEPT !.ing = r] \in StatusSet
  BY DEF StatusSet
<1>2. ASSUME NEW r \in {"Withheld", "NoPolicyNeeded", "NameTaken", "Applied"}
      PROVE  [st EXCEPT !.np = r] \in StatusSet
  BY DEF StatusSet
<1>3. ASSUME NEW x \in {"Initializing", "Degraded"}
      PROVE  [st EXCEPT !.state = x] \in StatusSet
  BY DEF StatusSet
<1>4. ASSUME NEW x \in {"Cold", "Dead"}
      PROVE  [st EXCEPT !.state = x, !.ready = FALSE] \in StatusSet
  BY DEF StatusSet
<1>5. ASSUME NEW v \in SUBSET {"capability_drift", "undeclared_tool"}
      PROVE  [st EXCEPT !.viol = v] \in StatusSet
  BY DEF StatusSet
<1>6. Ready(st) \in StatusSet
  BY DEF StatusSet, Ready
<1>7. ASSUME NEW n \in 1 .. 2 PROVE [Ready(st) EXCEPT !.tools = n] \in StatusSet
  <2>1. n \in 0 .. 2
    OBVIOUS
  <2> QED
    BY <1>6, <2>1 DEF StatusSet
<1> QED
  BY <1>1, <1>2, <1>3, <1>4, <1>5, <1>6, <1>7

\* What BuildNetworkPolicy returns is a policy of the server's own, or none.
LEMMA BuiltType ==
  ASSUME NEW s \in Specs
  PROVE  /\ BuildNetworkPolicy(s) \in Policies
         /\ BuildNetworkPolicy(s) \in {"none", "noEgress", "egress"}
  BY SpecsAssumption DEF BuildNetworkPolicy, SpecSet, Policies, OwnNP

-----------------------------------------------------------------------------
(* Type correctness *)

\* What the pass holds, and what brings it back, has its kind.
PassTypeOK == /\ pc \in Calls /\ seen \in Specs /\ out \in StatusSet
              /\ incomplete \in BOOLEAN /\ stale \in BOOLEAN /\ failed \in BOOLEAN

QueueTypeOK == queued \in BOOLEAN /\ timer \in BOOLEAN

\* The calls by name.
LEMMA CallNames ==
  \A call \in {"idle", "addFinalizer", "ingress", "applyIngress", "deleteIngress", "network",
               "applyNP", "withhold", "dropNP", "register", "legacy", "deployment",
               "applyDeployment", "pods", "tools", "status", "holdStatus", "errorStatus",
               "delDeployment", "delLegacy", "deregister", "removeFinalizer"} : call \in Calls
  BY DEF Calls

\* Where the pass goes once its fence or its policy is in order, what it holds has
\* its kind.
LEMMA AfterTypes ==
  ASSUME TypeOK
  PROVE  /\ \A r \in {"NotRequested", "Applied"} :
              AfterIngress(r) => /\ pc' \in Calls /\ out' \in StatusSet
                                 /\ UNCHANGED <<seen, incomplete, stale>>
         /\ \A st \in StatusSet :
              AfterPolicy(st) => /\ pc' \in Calls /\ out' \in StatusSet
                                 /\ UNCHANGED <<seen, incomplete, stale>>
<1>1. ASSUME NEW r \in {"NotRequested", "Applied"}, AfterIngress(r)
      PROVE  pc' \in Calls /\ out' \in StatusSet /\ UNCHANGED <<seen, incomplete, stale>>
  <2>1. [out EXCEPT !.ing = r] \in StatusSet
    BY StatusParts DEF TypeOK
  <2>2. [[out EXCEPT !.ing = r] EXCEPT !.state = "Cold", !.ready = FALSE] \in StatusSet
    BY <2>1, StatusParts
  <2> QED
    BY <1>1, <2>1, <2>2, CallNames DEF AfterIngress, Go
<1>2. ASSUME NEW st \in StatusSet, AfterPolicy(st)
      PROVE  pc' \in Calls /\ out' \in StatusSet /\ UNCHANGED <<seen, incomplete, stale>>
  BY <1>2, StatusParts, DetectedType, CallNames DEF AfterPolicy, Go
<1> QED
  BY <1>1, <1>2

\* Every variable keeps a value of its kind through every step.
THEOREM TypeCorrect == Spec => []TypeOK
<1>1. Init => TypeOK
  <2> SUFFICES ASSUME Init PROVE TypeOK
    OBVIOUS
  <2>1. status \in StatusSet
    <3>1. [NoStatus EXCEPT !.state = "Ready", !.ready = TRUE, !.np = "Applied"] \in StatusSet
      BY NoStatusType DEF StatusSet
    <3> QED
      BY <3>1, NoStatusType DEF Init, ServerInit
  <2>2. PassTypeOK /\ QueueTypeOK
    BY NoSpecType, NoStatusType, CallNames DEF Init, ServerInit, PassTypeOK, QueueTypeOK
  <2>3. Namespace!NsTypeOK
    BY DEF Init, Namespace!NsInit, Namespace!NsTypeOK, Namespace!Denies
  <2>6. changes \in 0 .. MaxChanges
    BY ChangesAssumption DEF Init
  <2>4. core \in [admits : BOOLEAN, tools : 1 .. 2]
    BY DEF Init, ServerInit
  <2>5. np \in Policies /\ dep \in Deployments /\ pod \in Pods
    BY DEF Init, ServerInit, Policies, Deployments, Pods
  <2> QED
    BY <2>1, <2>2, <2>3, <2>4, <2>5, <2>6 DEF Init, ServerInit, TypeOK, PassTypeOK, QueueTypeOK
<1>2. TypeOK /\ [Next]_vars => TypeOK'
  <2> SUFFICES ASSUME TypeOK, [Next]_vars PROVE TypeOK'
    OBVIOUS
  <2> USE CallNames, NoSpecType, NoStatusType, ChangesAssumption
      DEF TypeOK, object, fences, running, world, pass, nsOnly, serverOnly, Change, End, Retry,
          Failing, Namespace!NsTypeOK
  <2>1. ASSUME Reconcile, UNCHANGED nsOnly PROVE TypeOK'
    <3>1. PassTypeOK'
      BY <2>1 DEF Reconcile, PassTypeOK
    <3>2. QueueTypeOK'
      BY <2>1, Zenon DEF Reconcile, QueueTypeOK
    <3> QED
      BY <2>1, <3>1, <3>2 DEF Reconcile, PassTypeOK, QueueTypeOK
  <2>2. ASSUME AddFinalizer, UNCHANGED nsOnly PROVE TypeOK'
    <3>1. PassTypeOK'
      BY <2>2 DEF AddFinalizer, Go, PassTypeOK
    <3>2. QueueTypeOK'
      BY <2>2, Zenon DEF AddFinalizer, QueueTypeOK
    <3>3. phase' \in {"live", "deleting", "gone"} /\ fin' \in BOOLEAN
      BY <2>2 DEF AddFinalizer
    <3> QED
      BY <2>2, <3>1, <3>2, <3>3 DEF AddFinalizer, PassTypeOK, QueueTypeOK
  <2>3. ASSUME ReconcileIngress, UNCHANGED nsOnly PROVE TypeOK'
    <3>1. PassTypeOK'
      BY <2>3, AfterTypes, StatusParts DEF ReconcileIngress, IngressFailed, Go, PassTypeOK
    <3> QED
      BY <2>3, <3>1 DEF ReconcileIngress, PassTypeOK
  <2>4. ASSUME WriteIngress, UNCHANGED nsOnly PROVE TypeOK'
    <3>1. PassTypeOK'
      BY <2>4, AfterTypes DEF WriteIngress, PassTypeOK
    <3>2. QueueTypeOK'
      BY <2>4, Zenon DEF WriteIngress, QueueTypeOK
    <3> QED
      BY <2>4, <3>1, <3>2 DEF WriteIngress, PassTypeOK, QueueTypeOK
  <2>5. ASSUME ReconcileNetworkPolicy, UNCHANGED nsOnly PROVE TypeOK'
    <3>1. PassTypeOK'
      BY <2>5, AfterTypes, StatusParts DEF ReconcileNetworkPolicy, Go, PassTypeOK
    <3> QED
      BY <2>5, <3>1 DEF ReconcileNetworkPolicy, PassTypeOK
  <2>6. ASSUME WriteNetworkPolicy, UNCHANGED nsOnly PROVE TypeOK'
    <3>1. PassTypeOK'
      BY <2>6, AfterTypes, StatusParts DEF WriteNetworkPolicy, PassTypeOK
    <3>2. QueueTypeOK'
      BY <2>6, Zenon DEF WriteNetworkPolicy, QueueTypeOK
    <3>3. np' \in Policies
      BY <2>6, BuiltType DEF WriteNetworkPolicy, Policies
    <3> QED
      BY <2>6, <3>1, <3>2, <3>3 DEF WriteNetworkPolicy, PassTypeOK, QueueTypeOK
  <2>7. ASSUME Register, UNCHANGED nsOnly PROVE TypeOK'
    <3>1. PassTypeOK'
      BY <2>7, StatusParts DEF Register, Go, PassTypeOK
    <3>2. QueueTypeOK'
      BY <2>7, Zenon DEF Register, QueueTypeOK
    <3> QED
      BY <2>7, <3>1, <3>2 DEF Register, PassTypeOK, QueueTypeOK
  <2>8. ASSUME RemoveLegacy, UNCHANGED nsOnly PROVE TypeOK'
    <3>1. PassTypeOK'
      BY <2>8 DEF RemoveLegacy, Go, PassTypeOK
    <3>2. QueueTypeOK'
      BY <2>8, Zenon DEF RemoveLegacy, QueueTypeOK
    <3> QED
      BY <2>8, <3>1, <3>2 DEF RemoveLegacy, removeLegacyPod, PassTypeOK, QueueTypeOK
  <2>9. ASSUME ReadDeployment, UNCHANGED nsOnly PROVE TypeOK'
    <3>1. PassTypeOK'
      BY <2>9, StatusParts DEF ReadDeployment, Go, PassTypeOK
    <3> QED
      BY <2>9, <3>1 DEF ReadDeployment, PassTypeOK
  <2>10. ASSUME ApplyDeployment, UNCHANGED nsOnly PROVE TypeOK'
    <3>1. PassTypeOK'
      BY <2>10, StatusParts DEF ApplyDeployment, WriteFailed, Go, PassTypeOK
    <3>2. QueueTypeOK'
      BY <2>10, Zenon DEF ApplyDeployment, QueueTypeOK
    <3>3. dep' \in Deployments /\ scaled' \in BOOLEAN
      BY <2>10, SpecsAssumption DEF ApplyDeployment, Deployments, OwnDep, SpecSet
    <3> QED
      BY <2>10, <3>1, <3>2, <3>3 DEF ApplyDeployment, PassTypeOK, QueueTypeOK
  <2>11. ASSUME SyncPodStatus, UNCHANGED nsOnly PROVE TypeOK'
    <3>1. PassTypeOK'
      BY <2>11, StatusParts DEF SyncPodStatus, Go, PassTypeOK
    <3> QED
      BY <2>11, <3>1 DEF SyncPodStatus, PassTypeOK
  <2>12. ASSUME ReadTools, UNCHANGED nsOnly PROVE TypeOK'
    <3>0. core.tools \in 1 .. 2
      OBVIOUS
    <3>1. PassTypeOK'
      BY <2>12, <3>0, StatusParts DEF ReadTools, Go, PassTypeOK
    <3> QED
      BY <2>12, <3>1 DEF ReadTools, PassTypeOK
  <2>13. ASSUME WriteStatus, UNCHANGED nsOnly PROVE TypeOK'
    <3>1. PassTypeOK'
      BY <2>13 DEF WriteStatus, PassTypeOK
    <3>2. QueueTypeOK'
      BY <2>13, Zenon DEF WriteStatus, QueueTypeOK
    <3> QED
      BY <2>13, <3>1, <3>2 DEF WriteStatus, PassTypeOK, QueueTypeOK
  <2>14. ASSUME DelDeployment, UNCHANGED nsOnly PROVE TypeOK'
    <3>1. PassTypeOK'
      BY <2>14 DEF DelDeployment, Go, PassTypeOK
    <3>2. QueueTypeOK'
      BY <2>14, Zenon DEF DelDeployment, QueueTypeOK
    <3> QED
      BY <2>14, <3>1, <3>2 DEF DelDeployment, Deployments, PassTypeOK, QueueTypeOK
  <2>15. ASSUME DelLegacy, UNCHANGED nsOnly PROVE TypeOK'
    <3>1. PassTypeOK'
      BY <2>15 DEF DelLegacy, Go, PassTypeOK
    <3>2. QueueTypeOK'
      BY <2>15, Zenon DEF DelLegacy, QueueTypeOK
    <3> QED
      BY <2>15, <3>1, <3>2 DEF DelLegacy, removeLegacyPod, PassTypeOK, QueueTypeOK
  <2>16. ASSUME Deregister, UNCHANGED nsOnly PROVE TypeOK'
    <3>1. PassTypeOK'
      BY <2>16 DEF Deregister, Go, PassTypeOK
    <3> QED
      BY <2>16, <3>1 DEF Deregister, PassTypeOK
  <2>17. ASSUME RemoveFinalizer, UNCHANGED nsOnly PROVE TypeOK'
    <3>1. PassTypeOK'
      BY <2>17 DEF RemoveFinalizer, PassTypeOK
    <3>2. QueueTypeOK'
      BY <2>17, Zenon DEF RemoveFinalizer, QueueTypeOK
    <3>3. phase' \in {"live", "deleting", "gone"} /\ fin' \in BOOLEAN
      BY <2>17 DEF RemoveFinalizer
    <3> QED
      BY <2>17, <3>1, <3>2, <3>3 DEF RemoveFinalizer, PassTypeOK, QueueTypeOK
  <2>18. ASSUME IngressCallFails, UNCHANGED nsOnly PROVE TypeOK'
    <3>1. PassTypeOK'
      BY <2>18, StatusParts DEF IngressCallFails, IngressFailed, Go, PassTypeOK
    <3> QED
      BY <2>18, <3>1 DEF IngressCallFails, PassTypeOK
  <2>19. ASSUME NetworkPolicyFails, UNCHANGED nsOnly PROVE TypeOK'
    <3>1. PassTypeOK'
      BY <2>19, AfterTypes DEF NetworkPolicyFails, PassTypeOK
    <3> QED
      BY <2>19, <3>1 DEF NetworkPolicyFails, PassTypeOK
  <2>20. ASSUME DeploymentCallFails, UNCHANGED nsOnly PROVE TypeOK'
    <3>1. PassTypeOK'
      BY <2>20, StatusParts DEF DeploymentCallFails, WriteFailed, Go, PassTypeOK
    <3> QED
      BY <2>20, <3>1 DEF DeploymentCallFails, PassTypeOK
  <2>21. ASSUME ToolsCallFails, UNCHANGED nsOnly PROVE TypeOK'
    <3>1. PassTypeOK'
      BY <2>21, StatusParts DEF ToolsCallFails, Go, PassTypeOK
    <3> QED
      BY <2>21, <3>1 DEF ToolsCallFails, PassTypeOK
  <2>22. ASSUME CallFails, UNCHANGED nsOnly PROVE TypeOK'
    <3>1. PassTypeOK'
      BY <2>22, StatusParts DEF CallFails, IngressFailed, Go, PassTypeOK
    <3>2. QueueTypeOK'
      BY <2>22, Zenon DEF CallFails, QueueTypeOK
    <3> QED
      BY <2>22, <3>1, <3>2 DEF CallFails, PassTypeOK, QueueTypeOK
  <2>23. ASSUME Requeue, UNCHANGED nsOnly PROVE TypeOK'
    <3>1. QueueTypeOK'
      BY <2>23, Zenon DEF Requeue, QueueTypeOK
    <3> QED
      BY <2>23, <3>1 DEF Requeue, PassTypeOK, QueueTypeOK
  <2>24. ASSUME EditSpec, UNCHANGED nsOnly PROVE TypeOK'
    <3>1. PassTypeOK'
      BY <2>24 DEF EditSpec, PassTypeOK
    <3>2. QueueTypeOK'
      BY <2>24, Zenon DEF EditSpec, QueueTypeOK
    <3> QED
      BY <2>24, <3>1, <3>2 DEF EditSpec, Deployments, OwnDep, PassTypeOK, QueueTypeOK
  <2>25. ASSUME DeleteServer, UNCHANGED nsOnly PROVE TypeOK'
    <3>1. PassTypeOK'
      BY <2>25 DEF DeleteServer, PassTypeOK
    <3>2. QueueTypeOK'
      BY <2>25, Zenon DEF DeleteServer, QueueTypeOK
    <3> QED
      BY <2>25, <3>1, <3>2 DEF DeleteServer, PassTypeOK, QueueTypeOK
  <2>26. ASSUME PoliciesChange, UNCHANGED nsOnly PROVE TypeOK'
    <3>1. QueueTypeOK'
      BY <2>26, Zenon DEF PoliciesChange, PolicyEvent, QueueTypeOK
    <3> QED
      BY <2>26, <3>1 DEF PoliciesChange, Policies, OwnNP, PassTypeOK, QueueTypeOK
  <2>27. ASSUME DeploymentChanges, UNCHANGED nsOnly PROVE TypeOK'
    <3>1. QueueTypeOK'
      BY <2>27, Zenon DEF DeploymentChanges, QueueTypeOK
    <3> QED
      BY <2>27, <3>1 DEF DeploymentChanges, Deployments, OwnDep, PassTypeOK, QueueTypeOK
  <2>28. ASSUME PodRuns, UNCHANGED nsOnly PROVE TypeOK'
    <3>1. QueueTypeOK'
      BY <2>28, Zenon DEF PodRuns, providerPodToServer, QueueTypeOK
    <3> QED
      BY <2>28, <3>1 DEF PodRuns, Pods, PassTypeOK, QueueTypeOK
  <2>29. ASSUME PodChanges, UNCHANGED nsOnly PROVE TypeOK'
    <3>1. QueueTypeOK'
      BY <2>29, Zenon DEF PodChanges, providerPodToServer, QueueTypeOK
    <3> QED
      BY <2>29, <3>1 DEF PodChanges, Pods, PassTypeOK, QueueTypeOK
  <2>30. ASSUME LegacyStops, UNCHANGED nsOnly PROVE TypeOK'
    <3>1. QueueTypeOK'
      BY <2>30, Zenon DEF LegacyStops, providerPodToServer, QueueTypeOK
    <3> QED
      BY <2>30, <3>1 DEF LegacyStops, PassTypeOK, QueueTypeOK
  <2>31. ASSUME Collect, UNCHANGED nsOnly PROVE TypeOK'
    <3>1. QueueTypeOK'
      BY <2>31, Zenon DEF Collect, QueueTypeOK
    <3> QED
      BY <2>31, <3>1 DEF Collect, Policies, PassTypeOK, QueueTypeOK
  <2>32. ASSUME CoreChanges, UNCHANGED nsOnly PROVE TypeOK'
    <3>1. (~core.admits) \in BOOLEAN /\ 3 - core.tools \in 1 .. 2
      OBVIOUS
    <3>2. \A b \in BOOLEAN : [core EXCEPT !.admits = b] \in [admits : BOOLEAN, tools : 1 .. 2]
      OBVIOUS
    <3>3. core' \in [admits : BOOLEAN, tools : 1 .. 2]
      BY <2>32, <3>1, <3>2 DEF CoreChanges
    <3> QED
      BY <2>32, <3>3 DEF CoreChanges, PassTypeOK
  <2>33. ASSUME Namespace!NsNext, UNCHANGED serverOnly PROVE TypeOK'
    <3>1. Namespace!NsTypeOK'
      <4>1. ASSUME Namespace!NsStep PROVE Namespace!NsTypeOK'
        BY <4>1 DEF Namespace!NsStep, Namespace!NsReconcile, Namespace!NsApplyDeny,
                    Namespace!NsDeleteDeny, Namespace!Watched, Namespace!Denies
      <4>2. ASSUME Namespace!NsReadFails \/ Namespace!NsCallFails \/ Namespace!NsRequeue
            PROVE  Namespace!NsTypeOK'
        BY <4>2 DEF Namespace!NsReadFails, Namespace!NsCallFails, Namespace!NsRequeue
      <4>3. ASSUME Namespace!DenyChanges PROVE Namespace!NsTypeOK'
        BY <4>3 DEF Namespace!DenyChanges, Namespace!Watched, Namespace!Denies
      <4> QED
        BY <2>33, <4>1, <4>2, <4>3 DEF Namespace!NsNext
    <3>2. changes' \in 0 .. MaxChanges
      BY <2>33 DEF Namespace!NsNext, Namespace!NsStep, Namespace!NsReconcile,
                   Namespace!NsApplyDeny, Namespace!NsDeleteDeny, Namespace!NsReadFails,
                   Namespace!NsCallFails, Namespace!NsRequeue, Namespace!DenyChanges,
                   Namespace!Change
    <3> QED
      BY <2>33, <3>1, <3>2
  <2>34. ASSUME LabelChanges PROVE TypeOK'
    <3>1. QueueTypeOK'
      BY <2>34, Zenon DEF LabelChanges, mcpServersInNamespace, QueueTypeOK
    <3>2. Namespace!NsTypeOK'
      BY <2>34 DEF LabelChanges, Namespace!FlipLabel
    <3> QED
      BY <2>34, <3>1, <3>2 DEF LabelChanges, QueueTypeOK
  <2>35. ASSUME Crash PROVE TypeOK'
    <3>1. PassTypeOK'
      BY <2>35 DEF Crash, Restart, PassTypeOK
    <3>2. QueueTypeOK'
      BY <2>35, Zenon DEF Crash, Restart, QueueTypeOK
    <3>3. Namespace!NsTypeOK'
      BY <2>35 DEF Crash, Restart, Namespace!NsRestart
    <3> QED
      BY <2>35, <3>1, <3>2, <3>3 DEF Crash, Restart, PassTypeOK, QueueTypeOK
  <2>36. ASSUME UNCHANGED vars PROVE TypeOK'
    BY <2>36 DEF vars, serverVars
  <2> QED
    BY <2>1, <2>2, <2>3, <2>4, <2>5, <2>6, <2>7, <2>8, <2>9, <2>10, <2>11, <2>12, <2>13, <2>14,
       <2>15, <2>16, <2>17, <2>18, <2>19, <2>20, <2>21, <2>22, <2>23, <2>24, <2>25, <2>26,
       <2>27, <2>28, <2>29, <2>30, <2>31, <2>32, <2>33, <2>34, <2>35, <2>36
       DEF Next, ServerNext, ServerStep, ServerFails
<1> QED
  BY <1>1, <1>2, PTL DEF Spec

-----------------------------------------------------------------------------
(* The namespace's default-deny *)

\* DenyInPlace, and what it needs while a pass is about to delete the policy:
\* whoever turned the label on since the pass read it has queued the namespace.
DenyInv ==
    /\ DenyInPlace
    /\ nsPc = "deleteDeny" /\ ~nsQueued => ~label

\* No step of the server, of its pods, of the users of its objects or of the
\* namespace controller touches the namespace's label.
LEMMA LabelKept == /\ ServerNext => UNCHANGED label
                   /\ Namespace!NsNext => UNCHANGED label
<1>1. ServerNext => UNCHANGED label
  BY DEF ServerNext, ServerStep, ServerFails, world, Reconcile, AddFinalizer, ReconcileIngress,
         WriteIngress, ReconcileNetworkPolicy, WriteNetworkPolicy, Register, RemoveLegacy,
         ReadDeployment, ApplyDeployment, SyncPodStatus, ReadTools, WriteStatus, DelDeployment,
         DelLegacy, Deregister, RemoveFinalizer, IngressCallFails, NetworkPolicyFails,
         DeploymentCallFails, ToolsCallFails, CallFails, Requeue, EditSpec, DeleteServer,
         PoliciesChange, DeploymentChanges, PodRuns, PodChanges, LegacyStops, Collect, CoreChanges
<1>2. Namespace!NsNext => UNCHANGED label
  BY DEF Namespace!NsNext, Namespace!NsStep, Namespace!NsReconcile, Namespace!NsApplyDeny,
         Namespace!NsDeleteDeny, Namespace!NsReadFails, Namespace!NsCallFails,
         Namespace!NsRequeue, Namespace!DenyChanges
<1> QED
  BY <1>1, <1>2

\* Every step of either controller, of a user and of a crash keeps DenyInv.
LEMMA DenyStep == TypeOK /\ DenyInv /\ [Next]_vars => DenyInv'
<1> SUFFICES ASSUME TypeOK, DenyInv, [Next]_vars PROVE DenyInv'
  OBVIOUS
<1> USE DEF DenyInv, DenyInPlace, NsSettled
<1>1. ASSUME Namespace!NsReconcile PROVE DenyInv'
  <2>1. deny \in Namespace!Denies /\ nsPc \in {"idle", "applyDeny", "deleteDeny"}
    BY DEF TypeOK, Namespace!NsTypeOK
  <2> QED
    BY <1>1, <2>1
       DEF Namespace!NsReconcile, Namespace!defaultDenyOwnedByOperator, Namespace!Denies
<1>2. ASSUME Namespace!NsApplyDeny \/ Namespace!NsDeleteDeny PROVE DenyInv'
  <2>1. nsQueued => nsQueued'
    BY <1>2, Zenon DEF Namespace!NsApplyDeny, Namespace!NsDeleteDeny
  <2> QED
    BY <1>2, <2>1 DEF Namespace!NsApplyDeny, Namespace!NsDeleteDeny
<1>3. ASSUME Namespace!NsReadFails \/ Namespace!NsCallFails \/ Namespace!NsRequeue PROVE DenyInv'
  BY <1>3 DEF Namespace!NsReadFails, Namespace!NsCallFails, Namespace!NsRequeue
<1>4. ASSUME Namespace!DenyChanges PROVE DenyInv'
  BY <1>4 DEF Namespace!DenyChanges, Namespace!Watched
<1>5. ASSUME LabelChanges \/ Crash PROVE DenyInv'
  BY <1>5 DEF LabelChanges, Crash, Namespace!FlipLabel, Namespace!NsRestart
<1>6. ASSUME UNCHANGED <<label, nsOnly>> PROVE DenyInv'
  BY <1>6 DEF nsOnly
<1>7. ASSUME ServerNext, UNCHANGED nsOnly PROVE UNCHANGED <<label, nsOnly>>
  BY <1>7, LabelKept
<1> QED
  BY <1>1, <1>2, <1>3, <1>4, <1>5, <1>6, <1>7
     DEF Next, Namespace!NsNext, Namespace!NsStep, vars, serverVars

\* In a namespace at rest that opted in, the default-deny is in place, or its name
\* is someone else's and the namespace comes back for it; in one that did not, the
\* operator's own is gone.  namespace_egress_controller.go, for every interleaving
\* with users, failures and restarts.
THEOREM DenyHolds == Spec => []DenyInPlace
<1>1. Init => DenyInv
  BY DEF Init, Namespace!NsInit, DenyInv, DenyInPlace, NsSettled
<1>2. DenyInv => DenyInPlace
  BY DEF DenyInv
<1> QED
  BY <1>1, <1>2, DenyStep, TypeCorrect, PTL DEF Spec

-----------------------------------------------------------------------------
(* The finalizer and the workloads *)

DeleteCalls == {"delDeployment", "delLegacy", "deregister", "removeFinalizer"}
NormalCalls == Calls \ (DeleteCalls \cup {"idle", "addFinalizer"})

\* The finalizer is there before anything is started and until everything is
\* stopped, and the pod of an older operator is told to stop before a Deployment
\* exists.
WorkloadInv ==
    /\ phase = "deleting" => fin
    /\ phase = "gone" => ~fin
    /\ ~fin => dep \notin OwnDep /\ legacy # "running"
    /\ dep \in OwnDep \/ pod # "none" => legacy # "running"
    /\ pc = "addFinalizer" /\ ~stale => phase = "live"
    /\ pc \in NormalCalls => fin
    /\ pc \in DeleteCalls => phase = "deleting"
    /\ pc \in {"deployment", "applyDeployment", "pods", "tools"} => legacy # "running"
    /\ pc \in {"delLegacy", "deregister", "removeFinalizer"} => dep \notin OwnDep
    /\ pc \in {"deregister", "removeFinalizer"} => legacy # "running"

\* Every step keeps WorkloadInv.
LEMMA WorkloadStep == TypeOK /\ WorkloadInv /\ [Next]_vars => WorkloadInv'
<1> SUFFICES ASSUME TypeOK, WorkloadInv, [Next]_vars PROVE WorkloadInv'
  OBVIOUS
<1> USE DEF WorkloadInv, NormalCalls, DeleteCalls, Calls, OwnDep, object, running, pass, End,
            Retry
<1>1. ASSUME Reconcile PROVE WorkloadInv'
  <2>1. phase \in {"live", "deleting", "gone"}
    BY DEF TypeOK
  <2> QED
    BY <1>1, <2>1 DEF Reconcile
<1>2. ASSUME AddFinalizer PROVE WorkloadInv'
  BY <1>2 DEF AddFinalizer, Go
<1>3. ASSUME ReconcileIngress PROVE WorkloadInv'
  BY <1>3 DEF ReconcileIngress, AfterIngress, IngressFailed, Go
<1>4. ASSUME WriteIngress \/ IngressCallFails PROVE WorkloadInv'
  BY <1>4 DEF WriteIngress, IngressCallFails, AfterIngress, IngressFailed, Go
<1>5. ASSUME ReconcileNetworkPolicy PROVE WorkloadInv'
  BY <1>5 DEF ReconcileNetworkPolicy, AfterPolicy, Go
<1>6. ASSUME WriteNetworkPolicy \/ NetworkPolicyFails PROVE WorkloadInv'
  BY <1>6 DEF WriteNetworkPolicy, NetworkPolicyFails, AfterPolicy, Go
<1>7. ASSUME Register PROVE WorkloadInv'
  BY <1>7 DEF Register, Go
<1>8. ASSUME RemoveLegacy PROVE WorkloadInv'
  BY <1>8 DEF RemoveLegacy, removeLegacyPod, Go
<1>9. ASSUME ReadDeployment PROVE WorkloadInv'
  BY <1>9 DEF ReadDeployment, Go
<1>10. ASSUME ApplyDeployment \/ DeploymentCallFails PROVE WorkloadInv'
  BY <1>10 DEF ApplyDeployment, DeploymentCallFails, WriteFailed, Go
<1>11. ASSUME SyncPodStatus PROVE WorkloadInv'
  BY <1>11 DEF SyncPodStatus, Go
<1>12. ASSUME ReadTools \/ ToolsCallFails PROVE WorkloadInv'
  BY <1>12 DEF ReadTools, ToolsCallFails, Go
<1>13. ASSUME WriteStatus PROVE WorkloadInv'
  BY <1>13 DEF WriteStatus
<1>14. ASSUME DelDeployment PROVE WorkloadInv'
  BY <1>14 DEF DelDeployment, Go
<1>15. ASSUME DelLegacy PROVE WorkloadInv'
  BY <1>15 DEF DelLegacy, removeLegacyPod, Go
<1>16. ASSUME Deregister PROVE WorkloadInv'
  BY <1>16 DEF Deregister, Go
<1>17. ASSUME RemoveFinalizer PROVE WorkloadInv'
  BY <1>17 DEF RemoveFinalizer
<1>18. ASSUME CallFails PROVE WorkloadInv'
  BY <1>18 DEF CallFails, IngressFailed, Go
<1>19. ASSUME EditSpec \/ DeleteServer PROVE WorkloadInv'
  <2>1. pc # "idle" => stale'
    BY <1>19, Zenon DEF EditSpec, DeleteServer
  <2> QED
    BY <1>19, <2>1 DEF EditSpec, DeleteServer
<1>20. ASSUME DeploymentChanges PROVE WorkloadInv'
  BY <1>20 DEF DeploymentChanges
<1>21. ASSUME PodRuns \/ PodChanges \/ LegacyStops PROVE WorkloadInv'
  BY <1>21 DEF PodRuns, PodChanges, LegacyStops
<1>22. ASSUME Requeue \/ PoliciesChange \/ Collect \/ CoreChanges PROVE WorkloadInv'
  BY <1>22 DEF Requeue, PoliciesChange, Collect, CoreChanges
<1>23. ASSUME Namespace!NsNext, UNCHANGED serverOnly PROVE WorkloadInv'
  BY <1>23 DEF serverOnly
<1>24. ASSUME LabelChanges \/ Crash PROVE WorkloadInv'
  BY <1>24 DEF LabelChanges, Crash, Restart
<1>25. ASSUME UNCHANGED vars PROVE WorkloadInv'
  BY <1>25 DEF vars, serverVars
<1> QED
  BY <1>1, <1>2, <1>3, <1>4, <1>5, <1>6, <1>7, <1>8, <1>9, <1>10, <1>11, <1>12, <1>13, <1>14,
     <1>15, <1>16, <1>17, <1>18, <1>19, <1>20, <1>21, <1>22, <1>23, <1>24, <1>25
     DEF Next, ServerNext, ServerStep, ServerFails

\* WorkloadInv holds in every state.
LEMMA WorkloadHolds == Spec => []WorkloadInv
<1>1. Init => WorkloadInv
  BY DEF Init, ServerInit, WorkloadInv, NormalCalls, DeleteCalls, OwnDep
<1> QED
  BY <1>1, WorkloadStep, TypeCorrect, PTL DEF Spec

\* However a deletion and the passes meet, a server is only gone when its Deployment
\* and the pod of an older operator are (reconcileDelete).
THEOREM RemovalComplete == Spec => []GoneLeavesNothing
<1>1. WorkloadInv => GoneLeavesNothing
  BY DEF WorkloadInv, GoneLeavesNothing
<1> QED
  BY <1>1, WorkloadHolds, PTL

\* The Deployment's pod never exists beside a pod of an older operator that has not
\* been told to stop (removeLegacyPod before reconcileDeployment).
THEOREM SingleWorkload == Spec => []OneWorkload
<1>1. WorkloadInv => OneWorkload
  BY DEF WorkloadInv, OneWorkload
<1> QED
  BY <1>1, WorkloadHolds, PTL

-----------------------------------------------------------------------------
(* The server's egress policy *)

\* The calls that follow those on the policy.
AfterCalls == {"register", "legacy", "deployment", "applyDeployment", "pods", "tools", "status"}

\* What a status st has to say about the policy that is there.
Judged(st) ==
    /\ IF Wanted = "none" THEN np \notin WrittenNP
       ELSE np = Wanted \/ (np \in {"none", "foreign"} /\ st.np = "NameTaken")
    /\ spec.caps = "egress" => ("capability_drift" \in st.viol <=> np # "egress")

\* While the server is not queued, nothing the pass read has changed: what it
\* decided still holds, and what it is going to write is true.
PolicyInv ==
    /\ pc # "idle" /\ ~queued => seen = spec /\ ~stale
    /\ pc = "holdStatus" /\ ~queued => Held(spec)
    /\ pc = "withhold" /\ ~queued => Withheld(spec, label)
    /\ pc = "dropNP" /\ ~queued => BuildNetworkPolicy(spec) = "none"
    /\ pc \in AfterCalls /\ ~queued /\ ~failed => Judged(out)
    /\ Settled => Judged(status) /\ timer

\* What a pass sets of a status leaves its other parts alone.
LEMMA PolicyParts ==
  ASSUME NEW st \in StatusSet
  PROVE  /\ \A r : [st EXCEPT !.ing = r].np = st.np /\ [st EXCEPT !.ing = r].viol = st.viol
         /\ \A x : [st EXCEPT !.state = x].np = st.np /\ [st EXCEPT !.state = x].viol = st.viol
         /\ \A x, b : /\ [st EXCEPT !.state = x, !.ready = b].np = st.np
                      /\ [st EXCEPT !.state = x, !.ready = b].viol = st.viol
         /\ \A r : [st EXCEPT !.np = r].np = r
         /\ \A v : [st EXCEPT !.viol = v].np = st.np /\ [st EXCEPT !.viol = v].viol = v
         /\ Ready(st).np = st.np /\ Ready(st).viol = st.viol
         /\ \A n : /\ [Ready(st) EXCEPT !.tools = n].np = st.np
                   /\ [Ready(st) EXCEPT !.tools = n].viol = st.viol
  BY DEF StatusSet, Ready

\* A judgement stands as long as the policy and what it was judged by do.
LEMMA JudgedKept ==
  ASSUME UNCHANGED <<np, spec, label>>
  PROVE  /\ out'.np = out.np /\ out'.viol = out.viol /\ Judged(out) => Judged(out)'
         /\ status' = out /\ Judged(out) => Judged(status)'
         /\ UNCHANGED status /\ Judged(status) => Judged(status)'
  BY DEF Judged, Wanted, WrittenNP

\* reconcileViolationDetection, run on a condition that is true of the policy, makes
\* the status true of it.
LEMMA PolicyJudged ==
  ASSUME NEW st \in StatusSet, AfterPolicy(st), seen = spec, UNCHANGED spec,
         IF Wanted' = "none" THEN np' \notin WrittenNP
         ELSE np' = Wanted' \/ (np' \in {"none", "foreign"} /\ st.np = "NameTaken"),
         spec.caps = "egress" => (st.np = "Applied" <=> np' = "egress")
  PROVE  Judged(out)'
<1>1. CASE seen.caps = "nil"
  BY <1>1 DEF AfterPolicy, Go, Judged, WrittenNP
<1>2. CASE seen.caps # "nil"
  <2>1. out'.np = st.np /\ out'.viol = Detected(seen, st)
    BY <1>2, PolicyParts DEF AfterPolicy, Go
  <2>2. spec.caps = "egress" => ("capability_drift" \in out'.viol <=> st.np # "Applied")
    BY <2>1 DEF Detected
  <2> QED
    BY <2>1, <2>2 DEF Judged, WrittenNP
<1> QED
  BY <1>1, <1>2

\* Every step keeps PolicyInv.
LEMMA PolicyStep == TypeOK /\ WorkloadInv /\ PolicyInv /\ [Next]_vars => PolicyInv'
<1> SUFFICES ASSUME TypeOK, WorkloadInv, PolicyInv, [Next]_vars PROVE PolicyInv'
  OBVIOUS
<1>a. out \in StatusSet /\ status \in StatusSet /\ np \in Policies
  BY DEF TypeOK
<1>b. pc \in AfterCalls \cup {"holdStatus", "withhold", "dropNP"} => phase # "gone"
  BY DEF WorkloadInv, AfterCalls, NormalCalls, DeleteCalls, Calls
<1>c. pc \in DeleteCalls => phase = "deleting"
  BY DEF WorkloadInv
<1>d. spec.caps \in {"nil", "noNetwork", "noEgress", "egress"}
  BY SpecsAssumption DEF TypeOK, SpecSet
<1> USE <1>a DEF PolicyInv, Settled, Held, AfterCalls, object, world, fences, pass, End, Retry,
                 Failing
<1>1. ASSUME Reconcile PROVE PolicyInv'
  BY <1>1, JudgedKept, PolicyParts DEF Reconcile
<1>2. ASSUME AddFinalizer PROVE PolicyInv'
  BY <1>2, JudgedKept, PolicyParts DEF AddFinalizer, Go
<1>3. ASSUME ReconcileIngress PROVE PolicyInv'
  BY <1>3, JudgedKept, PolicyParts DEF ReconcileIngress, AfterIngress, IngressFailed, Go
<1>4. ASSUME WriteIngress \/ IngressCallFails PROVE PolicyInv'
  <2>1. queued => queued'
    BY <1>4, Zenon DEF WriteIngress, IngressCallFails, AfterIngress, IngressFailed, Go
  <2>2. /\ pc' \in {"network", "holdStatus", "errorStatus"}
        /\ pc' = "holdStatus" => Held(seen)
        /\ UNCHANGED <<seen, stale>>
    BY <1>4 DEF WriteIngress, IngressCallFails, AfterIngress, IngressFailed, Go
  <2> QED
    BY <1>4, JudgedKept, PolicyParts, <2>1, <2>2
       DEF WriteIngress, IngressCallFails, AfterIngress, IngressFailed, Go
<1>5. ASSUME ReconcileNetworkPolicy PROVE PolicyInv'
  <2>1. UNCHANGED <<seen, stale, spec, np, label, queued, failed, phase>> /\ pc = "network"
    BY <1>5 DEF ReconcileNetworkPolicy, AfterPolicy, Go
  <2>2. \/ pc' = "withhold" /\ Withheld(seen, label)
        \/ pc' = "dropNP" /\ BuildNetworkPolicy(seen) = "none"
        \/ pc' = "applyNP"
        \/ pc' \in AfterCalls /\ (~queued => Judged(out)')
    <3>1. CASE \E r \in {"Withheld", "NoPolicyNeeded"} :
                 /\ Withheld(seen, label) \/ BuildNetworkPolicy(seen) = "none"
                 /\ ~perServerPolicyOwned(np) /\ AfterPolicy([out EXCEPT !.np = r])
      <4>1. PICK r \in {"Withheld", "NoPolicyNeeded"} : AfterPolicy([out EXCEPT !.np = r])
        BY <3>1
      <4>2. ~queued => Wanted' = "none"
        BY <2>1, <3>1 DEF Withheld, BuildNetworkPolicy, Wanted
      <4>3. np \notin WrittenNP
        BY <3>1 DEF perServerPolicyOwned, WrittenNP
      <4>4. [out EXCEPT !.np = r] \in StatusSet /\ [out EXCEPT !.np = r].np # "Applied"
        BY StatusParts, PolicyParts
      <4>5. np # "egress"
        BY <4>3 DEF WrittenNP, OwnNP
      <4>6. ~queued => Judged(out)'
        BY <2>1, <4>1, <4>2, <4>3, <4>4, <4>5, PolicyJudged
      <4> QED
        BY <4>1, <4>6 DEF AfterPolicy, Go
    <3>2. CASE ~Withheld(seen, label) /\ BuildNetworkPolicy(seen) # "none"
      <4>1. ~queued => Wanted' = BuildNetworkPolicy(seen) /\ Wanted' = spec.caps
        BY <1>d, <2>1, <3>2 DEF Withheld, BuildNetworkPolicy, Wanted
      <4>2. CASE AfterPolicy([out EXCEPT !.np = "NameTaken"]) /\ np = "foreign"
        <5>1. ~queued => Judged(out)'
          <6>1. /\ [out EXCEPT !.np = "NameTaken"] \in StatusSet
                /\ [out EXCEPT !.np = "NameTaken"].np = "NameTaken"
            BY DEF StatusSet
          <6> QED
            BY <2>1, <3>2, <4>1, <4>2, <6>1, PolicyJudged
        <5> QED
          BY <4>2, <5>1 DEF AfterPolicy, Go
      <4>3. CASE AfterPolicy([out EXCEPT !.np = "Applied"]) /\ np = BuildNetworkPolicy(seen)
        <5>1. ~queued => Judged(out)'
          <6>1. /\ [out EXCEPT !.np = "Applied"] \in StatusSet
                /\ [out EXCEPT !.np = "Applied"].np = "Applied"
            BY DEF StatusSet
          <6>2. ~queued => np' = Wanted' /\ Wanted' # "none" /\ np' = spec.caps /\ seen = spec
            BY <2>1, <3>2, <4>1, <4>3
          <6> QED
            BY <2>1, <4>3, <6>1, <6>2, PolicyJudged
        <5> QED
          BY <4>3, <5>1 DEF AfterPolicy, Go
      <4> QED
        BY <1>5, <3>2, <4>2, <4>3
           DEF ReconcileNetworkPolicy, Go, perServerPolicyOwned, Policies
    <3> QED
      BY <1>5, <3>1, <3>2 DEF ReconcileNetworkPolicy, Go
  <2> QED
    BY <2>1, <2>2
<1>6. ASSUME WriteNetworkPolicy PROVE PolicyInv'
  <2>1. /\ UNCHANGED <<seen, stale, spec, label, phase>>
        /\ pc \in {"applyNP", "withhold", "dropNP"} /\ pc' \in AfterCalls
    BY <1>6 DEF WriteNetworkPolicy, AfterPolicy, Go
  <2>2. queued => queued'
    BY <1>6, Zenon DEF WriteNetworkPolicy
  <2>3. ~queued' /\ ~failed' => Judged(out)'
    <3> SUFFICES ASSUME ~queued', ~failed' PROVE Judged(out)'
      OBVIOUS
    <3>1. PICK r \in {"Withheld", "NoPolicyNeeded"} :
            AfterPolicy([out EXCEPT !.np = r]) /\ np' = "none"
      BY <1>6 DEF WriteNetworkPolicy
    <3>2. Wanted' = "none"
      BY <1>6, <2>1, <2>2 DEF WriteNetworkPolicy, Withheld, BuildNetworkPolicy, Wanted
    <3>3. [out EXCEPT !.np = r] \in StatusSet /\ [out EXCEPT !.np = r].np # "Applied"
      BY StatusParts, PolicyParts
    <3>4. np' \notin WrittenNP /\ np' # "egress"
      BY <3>1 DEF WrittenNP, OwnNP
    <3> QED
      BY <2>1, <2>2, <3>1, <3>2, <3>3, <3>4, PolicyJudged
  <2> QED
    BY <2>1, <2>2, <2>3
<1>7. ASSUME NetworkPolicyFails PROVE PolicyInv'
  BY <1>7, JudgedKept, PolicyParts DEF NetworkPolicyFails, AfterPolicy, Go
<1>8. ASSUME Register PROVE PolicyInv'
  <2>1. /\ UNCHANGED <<np, spec, label, phase, failed>> /\ pc = "register"
        /\ \/ UNCHANGED <<seen, stale, queued>> /\ pc' = "legacy"
           \/ queued' /\ pc' = "idle"
    BY <1>8 DEF Register, Go
  <2>2. CASE pc' = "legacy"
    <3>1. out'.np = out.np /\ out'.viol = out.viol
      BY <1>8, <2>2 DEF Register, Go, StatusSet
    <3> QED
      BY <2>1, <2>2, <3>1, JudgedKept
  <2> QED
    BY <2>1, <2>2
<1>9. ASSUME RemoveLegacy PROVE PolicyInv'
  BY <1>9, JudgedKept, PolicyParts DEF RemoveLegacy, Go
<1>10. ASSUME ReadDeployment PROVE PolicyInv'
  <2>1. queued => queued'
    BY <1>10, Zenon DEF ReadDeployment, Go
  <2>2. /\ UNCHANGED <<np, spec, label, phase, seen, stale>>
        /\ pc \in AfterCalls /\ (failed => failed')
    BY <1>10 DEF ReadDeployment, Go
  <2>3. pc' \in AfterCalls /\ out'.np = out.np /\ out'.viol = out.viol
    BY <1>10 DEF ReadDeployment, Go, Ready, StatusSet
  <2> QED
    BY JudgedKept, <2>1, <2>2, <2>3
<1>11. ASSUME ApplyDeployment PROVE PolicyInv'
  <2>1. queued => queued'
    BY <1>11, Zenon DEF ApplyDeployment, WriteFailed, Go
  <2>2. /\ UNCHANGED <<np, spec, label, phase, seen, stale>>
        /\ pc \in AfterCalls /\ (failed => failed')
    BY <1>11 DEF ApplyDeployment, WriteFailed, Go
  <2>3. pc' \in AfterCalls /\ out'.np = out.np /\ out'.viol = out.viol
    BY <1>11 DEF ApplyDeployment, WriteFailed, Go, Ready, StatusSet
  <2> QED
    BY JudgedKept, <2>1, <2>2, <2>3
<1>12. ASSUME DeploymentCallFails PROVE PolicyInv'
  BY <1>12, JudgedKept, PolicyParts DEF DeploymentCallFails, WriteFailed, Go
<1>13. ASSUME SyncPodStatus PROVE PolicyInv'
  <2>1. queued => queued'
    BY <1>13, Zenon DEF SyncPodStatus, Go
  <2>2. /\ UNCHANGED <<np, spec, label, phase, seen, stale>>
        /\ pc \in AfterCalls /\ (failed => failed')
    BY <1>13 DEF SyncPodStatus, Go
  <2>3. pc' \in AfterCalls /\ out'.np = out.np /\ out'.viol = out.viol
    BY <1>13 DEF SyncPodStatus, Go, Ready, StatusSet
  <2> QED
    BY JudgedKept, <2>1, <2>2, <2>3
<1>14. ASSUME ReadTools PROVE PolicyInv'
  BY <1>14, JudgedKept, PolicyParts DEF ReadTools, Go
<1>15. ASSUME ToolsCallFails PROVE PolicyInv'
  BY <1>15, JudgedKept, PolicyParts DEF ToolsCallFails, Go
<1>16. ASSUME WriteStatus PROVE PolicyInv'
  BY <1>16, JudgedKept, PolicyParts DEF WriteStatus
<1>17. ASSUME DelDeployment PROVE PolicyInv'
  BY <1>17, JudgedKept, PolicyParts, <1>c DEF DelDeployment, Go
<1>18. ASSUME DelLegacy PROVE PolicyInv'
  BY <1>18, JudgedKept, PolicyParts, <1>c DEF DelLegacy, Go
<1>19. ASSUME Deregister PROVE PolicyInv'
  BY <1>19, JudgedKept, PolicyParts, <1>c DEF Deregister, Go
<1>20. ASSUME RemoveFinalizer PROVE PolicyInv'
  BY <1>20, JudgedKept, PolicyParts, <1>c DEF RemoveFinalizer
<1>21. ASSUME CallFails PROVE PolicyInv'
  BY <1>21, JudgedKept, PolicyParts DEF CallFails, IngressFailed, Go
<1>22. ASSUME Requeue PROVE PolicyInv'
  BY <1>22, JudgedKept, PolicyParts DEF Requeue
<1>23. ASSUME EditSpec PROVE PolicyInv'
  BY <1>23, JudgedKept, PolicyParts DEF EditSpec
<1>24. ASSUME DeleteServer PROVE PolicyInv'
  BY <1>24, JudgedKept, PolicyParts DEF DeleteServer
<1>25. ASSUME PoliciesChange PROVE PolicyInv'
  BY <1>25, JudgedKept, PolicyParts
     DEF PoliciesChange, PolicyEvent, OwnNP, Judged, Wanted, WrittenNP
<1>26. ASSUME DeploymentChanges PROVE PolicyInv'
  BY <1>26, JudgedKept, PolicyParts DEF DeploymentChanges
<1>27. ASSUME PodRuns \/ PodChanges \/ LegacyStops PROVE PolicyInv'
  BY <1>27, JudgedKept, PolicyParts DEF PodRuns, PodChanges, LegacyStops, providerPodToServer
<1>28. ASSUME Collect PROVE PolicyInv'
  BY <1>28, JudgedKept, PolicyParts DEF Collect
<1>29. ASSUME CoreChanges PROVE PolicyInv'
  BY <1>29, JudgedKept, PolicyParts DEF CoreChanges
<1>30. ASSUME Namespace!NsNext, UNCHANGED serverOnly PROVE PolicyInv'
  BY <1>30, JudgedKept, LabelKept DEF serverOnly
<1>31. ASSUME LabelChanges PROVE PolicyInv'
  <2>1. (queued => queued') /\ (phase # "gone" => queued')
    BY <1>31, Zenon DEF LabelChanges, mcpServersInNamespace
  <2>2. UNCHANGED <<phase, spec, seen, stale, pc>>
    BY <1>31 DEF LabelChanges
  <2> QED
    BY <1>b, <2>1, <2>2
<1>32. ASSUME Crash PROVE PolicyInv'
  <2>1. phase # "gone" => queued'
    BY <1>32, Zenon DEF Crash, Restart
  <2> QED
    BY <1>32, <2>1 DEF Crash, Restart
<1>33. ASSUME UNCHANGED vars PROVE PolicyInv'
  BY <1>33, JudgedKept DEF vars, serverVars
<1> QED
  BY <1>1, <1>2, <1>3, <1>4, <1>5, <1>6, <1>7, <1>8, <1>9, <1>10, <1>11, <1>12, <1>13, <1>14,
     <1>15, <1>16, <1>17, <1>18, <1>19, <1>20, <1>21, <1>22, <1>23, <1>24, <1>25, <1>26, <1>27,
     <1>28, <1>29, <1>30, <1>31, <1>32, <1>33
     DEF Next, ServerNext, ServerStep, ServerFails

\* PolicyInv holds in every state.
LEMMA PolicyHolds == Spec => []PolicyInv
<1>1. Init => PolicyInv
  BY DEF Init, ServerInit, PolicyInv, AfterCalls, Settled
<1> QED
  BY <1>1, PolicyStep, TypeCorrect, WorkloadHolds, PTL DEF Spec

\* At rest the server's egress policy is the one the label, the pin and the
\* capabilities call for, or its name is someone else's, the status says so and the
\* server comes back (reconcileNetworkPolicy), for every order in which the label,
\* the spec, the policy and the operator change during a pass.
THEOREM EgressHolds == Spec => []EgressInPlace
<1>1. PolicyInv => EgressInPlace
  BY DEF PolicyInv, Judged, EgressInPlace
<1> QED
  BY <1>1, PolicyHolds, PTL

\* At rest drift is reported exactly when the declared egress is not in place
\* (reconcileViolationDetection).
THEOREM DriftHolds == Spec => []DriftReported
<1>1. PolicyInv => DriftReported
  BY DEF PolicyInv, Judged, DriftReported
<1> QED
  BY <1>1, PolicyHolds, PTL

-----------------------------------------------------------------------------
(* The status *)

\* What the status says of a Deployment that is the server's own.
Mirrors(st) ==
    dep \in OwnDep =>
        /\ dep = "current"
        /\ st.state \in
               IF spec.cold THEN {"Cold"}
               ELSE CASE pod \in {"none", "starting"} -> {"Initializing"}
                      [] pod = "stuck" -> {"Dead"}
                      [] pod = "ready" -> {"Ready", "Degraded"}

StatusInv ==
    /\ status.state \in {"Dead", "Cold"} => ~status.ready
    /\ out.state \in {"Dead", "Cold"} => ~out.ready
    /\ incomplete => pc \in {"legacy", "deployment", "applyDeployment", "pods", "status"}
    /\ incomplete /\ pc # "status" => out.state = "Degraded"
    /\ pc \in {"pods", "tools", "status"} /\ ~queued /\ ~failed => dep # "old"
    /\ pc = "tools" /\ ~queued => ~spec.cold /\ pod = "ready"
    /\ pc = "status" /\ ~queued /\ ~failed => Mirrors(out)
    /\ Settled => Mirrors(status)

\* What the status says stands as long as the Deployment, the pod and the spec do.
LEMMA MirrorsKept ==
  ASSUME UNCHANGED <<dep, pod, spec>>
  PROVE  /\ UNCHANGED out /\ Mirrors(out) => Mirrors(out)'
         /\ status' = out /\ Mirrors(out) => Mirrors(status)'
         /\ UNCHANGED status /\ Mirrors(status) => Mirrors(status)'
  BY DEF Mirrors

\* The policy and the violations leave the state alone.
LEMMA PolicyState ==
  ASSUME NEW st \in StatusSet, AfterPolicy(st)
  PROVE  /\ pc' \in {"register", "legacy"} /\ UNCHANGED <<seen, incomplete, stale>>
         /\ out'.state = st.state /\ out'.ready = st.ready
  BY DEF AfterPolicy, Go, StatusSet

\* So does the fence, unless the server is held.
LEMMA FenceState ==
  ASSUME out \in StatusSet, NEW r, AfterIngress(r) \/ IngressFailed
  PROVE  /\ pc' \in {"network", "holdStatus", "errorStatus"}
         /\ UNCHANGED <<seen, incomplete, stale>>
         /\ \/ out'.state = out.state /\ out'.ready = out.ready
            \/ ~out'.ready
  BY DEF AfterIngress, IngressFailed, Go, StatusSet

\* Every step keeps StatusInv.
LEMMA StatusStep ==
  TypeOK /\ WorkloadInv /\ PolicyInv /\ StatusInv /\ [Next]_vars => StatusInv'
<1> SUFFICES ASSUME TypeOK, WorkloadInv, PolicyInv, StatusInv, [Next]_vars PROVE StatusInv'
  OBVIOUS
<1>a. out \in StatusSet /\ status \in StatusSet /\ dep \in Deployments /\ pod \in Pods
  BY DEF TypeOK
<1>b. /\ pc # "idle" /\ ~queued => seen = spec /\ ~stale
      /\ pc = "holdStatus" /\ ~queued => Held(spec)
  BY DEF PolicyInv
<1>c. pc \in DeleteCalls => phase = "deleting"
  BY DEF WorkloadInv
<1>d. NoStatus.state = "None"
  BY DEF NoStatus
<1> USE <1>a, <1>b, <1>d, MirrorsKept
    DEF StatusInv, Settled, Held, object, running, world, fences, pass, End, Retry, Failing
<1>1. ASSUME Reconcile PROVE StatusInv'
  BY <1>1 DEF Reconcile
<1>2. ASSUME AddFinalizer PROVE StatusInv'
  BY <1>2 DEF AddFinalizer, Go
<1>3. ASSUME ReconcileIngress PROVE StatusInv'
  BY <1>3 DEF ReconcileIngress, AfterIngress, IngressFailed, Go, StatusSet
<1>4. ASSUME WriteIngress \/ IngressCallFails PROVE StatusInv'
  <2>1. /\ pc \in {"applyIngress", "deleteIngress"} /\ UNCHANGED status
        /\ \E r : AfterIngress(r) \/ IngressFailed
    BY <1>4 DEF WriteIngress, IngressCallFails
  <2> QED
    BY <2>1, FenceState
<1>5. ASSUME ReconcileNetworkPolicy PROVE StatusInv'
  <2>1. pc = "network" /\ UNCHANGED status
    BY <1>5 DEF ReconcileNetworkPolicy
  <2>2. CASE Go("withhold", out) \/ Go("dropNP", out) \/ Go("applyNP", out)
    BY <2>1, <2>2 DEF Go
  <2>3. CASE \E r \in {"Withheld", "NoPolicyNeeded", "NameTaken", "Applied"} :
               AfterPolicy([out EXCEPT !.np = r])
    <3>1. PICK r \in {"Withheld", "NoPolicyNeeded", "NameTaken", "Applied"} :
            AfterPolicy([out EXCEPT !.np = r])
      BY <2>3
    <3>2. /\ [out EXCEPT !.np = r] \in StatusSet
          /\ [out EXCEPT !.np = r].state = out.state /\ [out EXCEPT !.np = r].ready = out.ready
      BY DEF StatusSet
    <3>3. /\ pc' \in {"register", "legacy"} /\ UNCHANGED <<incomplete, stale>>
          /\ out'.state = out.state /\ out'.ready = out.ready
      BY <3>1, <3>2, PolicyState
    <3> QED
      BY <2>1, <3>3
  <2> QED
    BY <1>5, <2>2, <2>3 DEF ReconcileNetworkPolicy
<1>6. ASSUME WriteNetworkPolicy PROVE StatusInv'
  <2>1. /\ pc \in {"applyNP", "withhold", "dropNP"} /\ UNCHANGED status
        /\ \/ AfterPolicy(out)
           \/ \E r \in {"Withheld", "NoPolicyNeeded", "NameTaken", "Applied"} :
                AfterPolicy([out EXCEPT !.np = r])
    BY <1>6 DEF WriteNetworkPolicy
  <2>2. /\ pc' \in {"register", "legacy"} /\ UNCHANGED <<incomplete, stale>>
        /\ out'.state = out.state /\ out'.ready = out.ready
    <3>1. CASE AfterPolicy(out)
      BY <3>1, PolicyState
    <3>2. ASSUME NEW r \in {"Withheld", "NoPolicyNeeded", "NameTaken", "Applied"},
                 AfterPolicy([out EXCEPT !.np = r])
          PROVE  /\ pc' \in {"register", "legacy"} /\ UNCHANGED <<incomplete, stale>>
                 /\ out'.state = out.state /\ out'.ready = out.ready
      <4>1. /\ [out EXCEPT !.np = r] \in StatusSet
            /\ [out EXCEPT !.np = r].state = out.state /\ [out EXCEPT !.np = r].ready = out.ready
        BY DEF StatusSet
      <4> QED
        BY <3>2, <4>1, PolicyState
    <3> QED
      BY <2>1, <3>1, <3>2
  <2> QED
    BY <2>1, <2>2
<1>7. ASSUME NetworkPolicyFails PROVE StatusInv'
  BY <1>7 DEF NetworkPolicyFails, AfterPolicy, Go, StatusSet
<1>8. ASSUME Register PROVE StatusInv'
  BY <1>8 DEF Register, Go, StatusSet
<1>9. ASSUME RemoveLegacy PROVE StatusInv'
  BY <1>9 DEF RemoveLegacy, Go
<1>10. ASSUME ReadDeployment PROVE StatusInv'
  <2>1. /\ pc = "deployment" /\ UNCHANGED <<status, seen, incomplete, stale>>
        /\ UNCHANGED <<dep, pod, spec, queued, failed>>
    BY <1>10 DEF ReadDeployment, Go
  <2>2. CASE pc' = "applyDeployment" /\ UNCHANGED out
    BY <2>1, <2>2
  <2>3. CASE /\ dep = "current" \/ deploymentHash(seen) # deploymentHash(spec)
             /\ pc' = "pods" /\ UNCHANGED out
    BY <2>1, <2>3
  <2>4. CASE dep = "foreign" /\ pc' = "status" /\ ~out'.ready
    BY <2>1, <2>4 DEF Mirrors, OwnDep
  <2> QED
    BY <1>10, <2>2, <2>3, <2>4 DEF ReadDeployment, Go, StatusSet
<1>11. ASSUME ApplyDeployment PROVE StatusInv'
  <2>1. /\ pc = "applyDeployment"
        /\ UNCHANGED <<status, seen, incomplete, stale, pod, spec, failed>>
    BY <1>11 DEF ApplyDeployment, WriteFailed, Go
  <2>2. CASE queued' /\ pc' = "pods" /\ UNCHANGED out
    BY <2>1, <2>2
  <2>3. CASE /\ dep \in {"foreign", "unlabelled"} /\ pc' = "status" /\ ~out'.ready
             /\ UNCHANGED <<dep, queued>>
    BY <2>1, <2>3 DEF Mirrors, OwnDep
  <2> QED
    BY <1>11, <2>2, <2>3 DEF ApplyDeployment, WriteFailed, Go, StatusSet
<1>12. ASSUME DeploymentCallFails PROVE StatusInv'
  BY <1>12 DEF DeploymentCallFails, WriteFailed, Go, StatusSet
<1>13. ASSUME SyncPodStatus PROVE StatusInv'
  <2>1. /\ pc = "pods" /\ UNCHANGED <<status, seen, incomplete, stale>>
        /\ UNCHANGED <<dep, pod, spec, queued, failed>>
    BY <1>13 DEF SyncPodStatus, Go
  <2>2. CASE pc' = "tools" /\ ~seen.cold /\ pod = "ready" /\ ~incomplete /\ UNCHANGED out
    BY <2>1, <2>2
  <2>3. CASE /\ pc' = "status"
             /\ out'.state \in IF seen.cold THEN {"Cold"}
                               ELSE CASE pod \in {"none", "starting"} -> {"Initializing"}
                                      [] pod = "stuck" -> {"Dead"}
                                      [] pod = "ready" -> {"Ready", "Degraded"}
             /\ out'.state \in {"Dead", "Cold"} => ~out'.ready
    <3>1. ~queued /\ ~failed => Mirrors(out)'
      BY <2>1, <2>3 DEF Mirrors, OwnDep
    <3> QED
      BY <2>1, <2>3, <3>1
  <2>4. CASE seen.cold \/ pod # "ready"
    BY <1>13, <2>3, <2>4 DEF SyncPodStatus, Go, StatusSet, Pods
  <2>5. CASE ~seen.cold /\ pod = "ready"
    BY <1>13, <2>1, <2>2, <2>3, <2>5 DEF SyncPodStatus, Go, Ready, StatusSet
  <2> QED
    BY <2>4, <2>5
<1>14. ASSUME ReadTools PROVE StatusInv'
  BY <1>14 DEF ReadTools, Go, Ready, StatusSet, OwnDep, Mirrors
<1>15. ASSUME ToolsCallFails PROVE StatusInv'
  BY <1>15 DEF ToolsCallFails, Go, StatusSet
<1>16. ASSUME WriteStatus PROVE StatusInv'
  BY <1>16 DEF WriteStatus
<1>17. ASSUME DelDeployment PROVE StatusInv'
  BY <1>17, <1>c DEF DelDeployment, Go
<1>18. ASSUME DelLegacy PROVE StatusInv'
  BY <1>18, <1>c DEF DelLegacy, Go
<1>19. ASSUME Deregister PROVE StatusInv'
  BY <1>19, <1>c DEF Deregister, Go
<1>20. ASSUME RemoveFinalizer PROVE StatusInv'
  BY <1>20, <1>c DEF RemoveFinalizer
<1>21. ASSUME CallFails PROVE StatusInv'
  BY <1>21 DEF CallFails, IngressFailed, Go, StatusSet
<1>22. ASSUME Requeue PROVE StatusInv'
  BY <1>22 DEF Requeue
<1>23. ASSUME EditSpec PROVE StatusInv'
  BY <1>23 DEF EditSpec
<1>24. ASSUME DeleteServer PROVE StatusInv'
  BY <1>24 DEF DeleteServer
<1>25. ASSUME PoliciesChange PROVE StatusInv'
  BY <1>25 DEF PoliciesChange
<1>26. ASSUME DeploymentChanges PROVE StatusInv'
  BY <1>26 DEF DeploymentChanges, OwnDep, Mirrors
<1>27. ASSUME PodRuns \/ PodChanges \/ LegacyStops PROVE StatusInv'
  BY <1>27 DEF PodRuns, PodChanges, LegacyStops, providerPodToServer
<1>28. ASSUME Collect PROVE StatusInv'
  BY <1>28 DEF Collect
<1>29. ASSUME CoreChanges PROVE StatusInv'
  BY <1>29 DEF CoreChanges
<1>30. ASSUME Namespace!NsNext, UNCHANGED serverOnly PROVE StatusInv'
  BY <1>30 DEF serverOnly
<1>31. ASSUME LabelChanges PROVE StatusInv'
  BY <1>31 DEF LabelChanges, mcpServersInNamespace
<1>32. ASSUME Crash PROVE StatusInv'
  BY <1>32 DEF Crash, Restart
<1>33. ASSUME UNCHANGED vars PROVE StatusInv'
  BY <1>33 DEF vars, serverVars
<1> QED
  BY <1>1, <1>2, <1>3, <1>4, <1>5, <1>6, <1>7, <1>8, <1>9, <1>10, <1>11, <1>12, <1>13, <1>14,
     <1>15, <1>16, <1>17, <1>18, <1>19, <1>20, <1>21, <1>22, <1>23, <1>24, <1>25, <1>26, <1>27,
     <1>28, <1>29, <1>30, <1>31, <1>32, <1>33
     DEF Next, ServerNext, ServerStep, ServerFails

\* At rest the status tells what the Deployment's pod is doing, from a Deployment
\* with the hash of the present spec, and a dead or cold server is never also Ready
\* (reconcileDeployment, syncPodStatus).
THEOREM StatusHolds == Spec => []StatusExact
<1>1. Init => StatusInv
  <2> SUFFICES ASSUME Init PROVE StatusInv
    OBVIOUS
  <2>1. status.state \notin {"Dead", "Cold"} /\ out.state \notin {"Dead", "Cold"}
    <3>1. /\ NoStatus.state = "None"
          /\ [NoStatus EXCEPT !.state = "Ready", !.ready = TRUE, !.np = "Applied"].state = "Ready"
      BY DEF NoStatus
    <3> QED
      BY <3>1 DEF Init, ServerInit
  <2> QED
    BY <2>1 DEF Init, ServerInit, StatusInv, Settled
<1>2. StatusInv => StatusExact
  BY DEF StatusInv, Mirrors, StatusExact
<1> QED
  BY <1>1, <1>2, StatusStep, TypeCorrect, WorkloadHolds, PolicyHolds, PTL DEF Spec

=============================================================================
