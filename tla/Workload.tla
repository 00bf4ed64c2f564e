------------------------------ MODULE Workload ------------------------------
(***************************************************************************)
(* How the MCPServer controller runs one container-mode server: its        *)
(* ingress fence, its egress policy, the violations it reports, its        *)
(* Deployment and its status (internal/controller/mcpserver_controller.go, *)
(* mcpserver_deployment.go, mcpserver_ingress.go).                         *)
(*                                                                         *)
(* A pass is a sequence of calls, and everything else may happen between   *)
(* two of them.  The cluster answers from its latest state; what the pass  *)
(* keeps of an earlier answer is in its own variables.  The registration   *)
(* in core is one call here; module Registration has its steps.            *)
(***************************************************************************)
EXTENDS Naturals

CONSTANTS
    Specs,        \* the specs and annotations a user may give the server
    MaxChanges    \* bound: edits, failures and restarts

VARIABLES
    phase,       \* the MCPServer object, up to its removal
    fin,         \* it carries the finalizer
    spec,        \* its spec, and the annotations the controller reads
    status,      \* its status
    label,       \* the namespace's enforce-egress label is "true"
    np,          \* the NetworkPolicy under the server's name: whose, or what it allows
    ing,         \* the NetworkPolicy under the name of its ingress fence
    dep,         \* the Deployment under the server's name
    scaled,      \* the replicas last applied to it are 1
    pod,         \* the Deployment's pod
    legacy,      \* the pod an older operator created directly
    core,        \* whether core takes the registration, and the tools it lists
    client,      \* the operator runs with --hangar-url
    queued,      \* the server is in the work queue
    timer,       \* a RequeueAfter will bring it back
    pc,          \* the call the pass makes next
    seen,        \* the spec the pass read
    out,         \* the status it is building
    incomplete,  \* its registration did not complete
    stale,       \* the object changed since the pass read it
    failed,      \* a call of the last pass failed
    changes      \* changes so far

object  == <<phase, fin, spec>>
fences  == <<np, ing>>
running == <<dep, scaled, pod, legacy>>
world   == <<label, core, client>>
pass    == <<seen, out, incomplete, stale, failed>>
serverVars == <<phase, fin, spec, status, label, np, ing, dep, scaled, pod, legacy, core,
                client, queued, timer, pc, seen, out, incomplete, stale, failed, changes>>

-----------------------------------------------------------------------------
(* State *)

\* caps: spec.capabilities and its network part.  max: tools.maxCount.  pinned:
\* IsImageDigestPinned of the image and the annotations.  keyed:
\* spec.tls.peerIdentity.  fence: the provider-ingress annotation over the
\* operator's default; bad is a value that is neither true nor false, or a fence
\* the operator has no gateway for.
SpecSet == [caps : {"nil", "noNetwork", "noEgress", "egress"}, max : 0 .. 1,
            pinned : BOOLEAN, cold : BOOLEAN, keyed : BOOLEAN, fence : {"on", "off", "bad"}]

ASSUME SpecsAssumption == Specs # {} /\ Specs \subseteq SpecSet
ASSUME ChangesAssumption == MaxChanges \in Nat

NoSpec == CHOOSE s \in Specs : TRUE

\* ready: the Ready condition is True.  np and ing: the reasons of
\* NetworkPolicyApplied and ProviderIngressApplied; Applied stands for the three
\* verdicts of the enforcement probe.  viol: the types ViolationDetected lists.
StatusSet == [state : {"None", "Cold", "Initializing", "Ready", "Degraded", "Dead"},
              ready : BOOLEAN,
              np : {"None", "Withheld", "NoPolicyNeeded", "NameTaken", "Applied"},
              ing : {"None", "ApplyFailed", "NotRequested", "Applied"},
              viol : SUBSET {"capability_drift", "undeclared_tool"}, tools : 0 .. 2]
NoStatus  == [state |-> "None", ready |-> FALSE, np |-> "None", ing |-> "None",
              viol |-> {}, tools |-> 0]

\* own policies hold what they were built from, or were edited since.  orphan:
\* written before owner references were set.  foreign: someone else's, which
\* nobody controls and which lacks the operator's label.
OwnNP    == {"noEgress", "egress", "edited"}
Policies == OwnNP \cup {"none", "orphan", "foreign"}

\* current and old: the server's, with the hash of its present spec or another.
\* foreign: another controller's, with the operator's label.  unlabelled:
\* without it, so outside the informer's cache.
OwnDep      == {"current", "old"}
Deployments == OwnDep \cup {"none", "foreign", "unlabelled"}

\* starting: pending, or a container is not ready.  stuck: a container that is not
\* coming up on its own, or a failed pod.
Pods == {"none", "starting", "ready", "stuck"}

Calls == {"idle", "addFinalizer", "ingress", "applyIngress", "deleteIngress", "network",
          "applyNP", "withhold", "dropNP", "register", "legacy",
          "deployment", "applyDeployment", "pods", "tools", "status", "holdStatus",
          "errorStatus", "delDeployment", "delLegacy", "deregister", "removeFinalizer"}

\* What deploymentHash covers: the spec and its generation, not the annotations.
deploymentHash(s) == [s EXCEPT !.fence = "off"]

-----------------------------------------------------------------------------
(* Parts of a pass *)

Change == changes < MaxChanges /\ changes' = changes + 1

\* The pass returns.
End == /\ pc' = "idle"
       /\ seen' = NoSpec
       /\ out' = NoStatus
       /\ incomplete' = FALSE
       /\ stale' = FALSE

\* Mutant: the error is logged and not returned.
Retry_Dropped == End /\ UNCHANGED queued

\* The pass returns an error: the queue brings the server back.
Retry == End /\ queued' = TRUE

\* The pass goes on with another call and the status st.
Go(call, st) == /\ pc' = call
                /\ out' = st
                /\ UNCHANGED <<seen, incomplete, stale>>

\* Of a call that fails: what the pass then does is in the disjunct.
Failing == Change /\ failed' = TRUE

-----------------------------------------------------------------------------
(* Reconcile *)

Reconcile ==
    /\ pc = "idle"
    /\ queued
    /\ queued' = FALSE
    /\ \/ /\ phase = "gone"
          /\ UNCHANGED <<pc, pass>>
       \/ /\ phase # "gone"
          /\ pc' = IF phase = "deleting" THEN "delDeployment"
                   ELSE IF fin THEN "ingress" ELSE "addFinalizer"
          /\ seen' = spec
          /\ out' = status
          /\ incomplete' = FALSE
          /\ stale' = FALSE
          /\ failed' = FALSE
    /\ UNCHANGED <<object, status, world, fences, running, timer, changes>>

\* Mutant: the pass goes on, and the finalizer is left to a later one.
AddFinalizer_Later ==
    /\ pc = "addFinalizer"
    /\ Go("ingress", out)
    /\ UNCHANGED <<object, status, world, fences, running, queued, timer, failed, changes>>

\* The update is refused if the object changed.  It changes metadata that wakes
\* nobody.
AddFinalizer ==
    /\ pc = "addFinalizer"
    /\ \/ stale /\ Retry /\ UNCHANGED fin
       \/ ~stale /\ fin' = TRUE /\ Go("ingress", out) /\ UNCHANGED queued
    /\ UNCHANGED <<phase, spec, status, world, fences, running, timer, failed, changes>>

-----------------------------------------------------------------------------
(* reconcileProviderIngress *)

\* A key-pinned server that the operator could not register is held: neither its
\* policies nor its pod are looked at.
Held(s) == s.keyed /\ ~client

\* Where reconcileNormal goes once the fence is in order.
AfterIngress(reason) ==
    LET st == [out EXCEPT !.ing = reason]
    IN  IF Held(seen) THEN Go("holdStatus", [st EXCEPT !.state = "Cold", !.ready = FALSE])
        ELSE Go("network", st)

\* Its error ends the pass once the status says so.
IngressFailed == Go("errorStatus", [out EXCEPT !.ing = "ApplyFailed"])

ReconcileIngress ==
    /\ pc = "ingress"
    /\ \/ /\ seen.fence = "bad" \/ (seen.fence = "on" /\ ing = "foreign")
          /\ IngressFailed
       \/ seen.fence = "on" /\ ing \in {"none", "edited"} /\ Go("applyIngress", out)
       \/ seen.fence = "on" /\ ing = "own" /\ AfterIngress("Applied")
       \/ seen.fence = "off" /\ ing \in {"own", "edited"} /\ Go("deleteIngress", out)
       \/ seen.fence = "off" /\ ing \in {"none", "foreign"} /\ AfterIngress("NotRequested")
    /\ UNCHANGED <<object, status, world, fences, running, queued, timer, failed, changes>>

WriteIngress ==
    /\ pc \in {"applyIngress", "deleteIngress"}
    /\ \/ /\ pc = "applyIngress"
          /\ ing' = "own"
          /\ queued' = TRUE
          /\ AfterIngress("Applied")
       \/ /\ pc = "deleteIngress"
          /\ ing' = "none"
          /\ queued' = (queued \/ ing \in {"own", "edited"})
          /\ AfterIngress("NotRequested")
    /\ UNCHANGED <<object, status, world, np, running, timer, failed, changes>>

IngressCallFails ==
    /\ pc \in {"applyIngress", "deleteIngress"}
    /\ Failing
    /\ IngressFailed
    /\ UNCHANGED <<object, status, world, fences, running, queued, timer>>

-----------------------------------------------------------------------------
(* reconcileNetworkPolicy *)

\* Mutant: drift is judged by the condition the pass started from.
Detected_Earlier(s, st) ==
    {t \in {"capability_drift"} : s.caps = "egress" /\ status.np # "Applied"}
    \cup {t \in {"undeclared_tool"} : s.max > 0 /\ st.tools > s.max}

\* What reconcileViolationDetection finds: declared egress without a policy, and
\* more tools, at the last read of them, than declared.
Detected(s, st) ==
    {t \in {"capability_drift"} : s.caps = "egress" /\ st.np # "Applied"}
    \cup {t \in {"undeclared_tool"} : s.max > 0 /\ st.tools > s.max}

\* reconcileViolationDetection follows at once.  Without capabilities nothing is
\* detected, and nothing cleared.
AfterPolicy(st) ==
    Go(IF client THEN "register" ELSE "legacy",
       IF seen.caps = "nil" THEN st ELSE [st EXCEPT !.viol = Detected(seen, st)])

\* Mutant: a policy is built whatever is declared.
BuildNetworkPolicy_Always(s) == s.caps

\* What BuildNetworkPolicy returns for the capabilities.
BuildNetworkPolicy(s) == IF s.caps \in {"nil", "noNetwork"} THEN "none" ELSE s.caps

perServerPolicyOwned(p) == p \in OwnNP \cup {"orphan"}

\* Mutant: the pin is looked at when the policy is created, not when one exists.
Withheld_OnCreate(s, governed) == ~s.pinned /\ governed /\ np \notin OwnNP

\* An unpinned image in a governed namespace gets no egress of its own.
Withheld(s, governed) == ~s.pinned /\ governed

ReconcileNetworkPolicy ==
    LET desired == BuildNetworkPolicy(seen)
        reason  == IF Withheld(seen, label) THEN "Withheld" ELSE "NoPolicyNeeded"
    IN
    /\ pc = "network"
    /\ \/ /\ Withheld(seen, label) \/ desired = "none"
          /\ \/ /\ perServerPolicyOwned(np)
                /\ Go(IF Withheld(seen, label) THEN "withhold" ELSE "dropNP", out)
             \/ /\ ~perServerPolicyOwned(np)
                /\ AfterPolicy([out EXCEPT !.np = reason])
       \/ /\ ~Withheld(seen, label) /\ desired # "none"
          /\ \/ /\ np = "none" \/ (perServerPolicyOwned(np) /\ np # desired)
                /\ Go("applyNP", out)
             \/ /\ np # "none" /\ ~perServerPolicyOwned(np)
                /\ AfterPolicy([out EXCEPT !.np = "NameTaken"])
             \/ /\ np = desired
                /\ AfterPolicy([out EXCEPT !.np = "Applied"])
    /\ UNCHANGED <<object, status, world, fences, running, queued, timer, failed, changes>>

\* An apply forces ownership of whatever has the name by now.  A delete that finds
\* nothing is an error.  The event of a policy the server controls queues the
\* server.
WriteNetworkPolicy ==
    /\ pc \in {"applyNP", "withhold", "dropNP"}
    /\ \/ /\ pc = "applyNP"
          /\ np' = BuildNetworkPolicy(seen)
          /\ queued' = TRUE
          /\ AfterPolicy([out EXCEPT !.np = "Applied"])
          /\ UNCHANGED failed
       \/ /\ pc # "applyNP" /\ np = "none"
          /\ failed' = TRUE
          /\ AfterPolicy(out)
          /\ UNCHANGED <<np, queued>>
       \/ /\ pc # "applyNP" /\ np # "none"
          /\ np' = "none"
          /\ queued' = (queued \/ np \in OwnNP)
          /\ AfterPolicy(
                [out EXCEPT !.np = IF pc = "withhold" THEN "Withheld" ELSE "NoPolicyNeeded"])
          /\ UNCHANGED failed
    /\ UNCHANGED <<object, status, world, ing, running, timer, changes>>

\* The error is logged, the condition keeps what it said, and the pass goes on.
NetworkPolicyFails ==
    /\ pc \in {"network", "applyNP", "withhold", "dropNP"}
    /\ Failing
    /\ AfterPolicy(out)
    /\ UNCHANGED <<object, status, world, fences, running, queued, timer>>

\* The registration in core.  One that does not complete writes its own status,
\* and the pass goes on to the pod.
Register ==
    /\ pc = "register"
    /\ \/ /\ core.admits
          /\ Go("legacy", out)
          /\ UNCHANGED <<status, queued>>
       \/ /\ ~core.admits
          /\ LET st == [out EXCEPT !.state = "Degraded"]
             IN  \/ stale /\ Retry /\ UNCHANGED status
                 \/ /\ ~stale \/ st = status
                    /\ status' = st
                    /\ out' = st
                    /\ incomplete' = TRUE
                    /\ pc' = "legacy"
                    /\ UNCHANGED <<seen, stale, queued>>
    /\ UNCHANGED <<object, world, fences, running, timer, failed, changes>>

-----------------------------------------------------------------------------
(* reconcileDeployment *)

\* Mutant: the pod is left to terminate with its owner.
removeLegacyPod_Kept == legacy' = legacy

\* The pod is told to stop; it is not waited for.
removeLegacyPod == legacy' = IF legacy = "running" THEN "terminating" ELSE legacy

RemoveLegacy ==
    /\ pc = "legacy"
    /\ removeLegacyPod
    /\ queued' = (queued \/ legacy = "running")
    /\ Go("deployment", out)
    /\ UNCHANGED <<object, status, world, fences, dep, scaled, pod, timer, failed, changes>>

\* A Deployment without the operator's label is not in the cache: the read does
\* not find it.  A pass on an earlier spec may find its hash on an old one.
ReadDeployment ==
    /\ pc = "deployment"
    /\ \/ dep \in {"none", "unlabelled", "old"} /\ Go("applyDeployment", out)
       \/ /\ dep = "current" \/ (dep = "old" /\ deploymentHash(seen) # deploymentHash(spec))
          /\ Go("pods", out)
       \/ dep = "foreign" /\ Go("status", [out EXCEPT !.state = "Dead", !.ready = FALSE])
    /\ UNCHANGED <<object, status, world, fences, running, queued, timer, failed, changes>>

\* deploymentWriteFailed.
WriteFailed == Go("status", [out EXCEPT !.state = "Dead", !.ready = FALSE])

\* The API server refuses the apply on someone else's Deployment: its selector
\* cannot change, and it has one controller.
ApplyDeployment ==
    /\ pc = "applyDeployment"
    /\ \/ /\ dep \in {"none", "old", "current"}
          /\ dep' = IF deploymentHash(seen) = deploymentHash(spec) THEN "current" ELSE "old"
          /\ scaled' = ~seen.cold
          /\ queued' = TRUE
          /\ Go("pods", out)
       \/ /\ dep \in {"foreign", "unlabelled"}
          /\ WriteFailed
          /\ UNCHANGED <<dep, scaled, queued>>
    /\ UNCHANGED <<object, status, world, fences, pod, legacy, timer, failed, changes>>

DeploymentCallFails ==
    /\ pc = "applyDeployment"
    /\ Failing
    /\ WriteFailed
    /\ UNCHANGED <<object, status, world, fences, running, queued, timer>>

Ready(st) == [st EXCEPT !.state = "Ready", !.ready = TRUE]

\* reportCold, currentPod, syncPodStatus and handlePodRunning up to the tools.
SyncPodStatus ==
    LET starting == [out EXCEPT !.state = "Initializing"]
    IN
    /\ pc = "pods"
    /\ \/ seen.cold /\ Go("status", [out EXCEPT !.state = "Cold", !.ready = FALSE])
       \/ ~seen.cold /\ pod \in {"none", "starting"} /\ Go("status", starting)
       \/ /\ ~seen.cold /\ pod = "stuck"
          /\ Go("status", [out EXCEPT !.state = "Dead", !.ready = FALSE])
       \/ ~seen.cold /\ pod = "ready" /\ incomplete /\ Go("status", out)
       \/ ~seen.cold /\ pod = "ready" /\ ~incomplete /\ client /\ Go("tools", out)
       \/ ~seen.cold /\ pod = "ready" /\ ~incomplete /\ ~client /\ Go("status", Ready(out))
    /\ UNCHANGED <<object, status, world, fences, running, queued, timer, failed, changes>>

ReadTools ==
    /\ pc = "tools"
    /\ Go("status", [Ready(out) EXCEPT !.tools = core.tools])
    /\ UNCHANGED <<object, status, world, fences, running, queued, timer, failed, changes>>

ToolsCallFails ==
    /\ pc = "tools"
    /\ Failing
    /\ Go("status", [out EXCEPT !.state = "Degraded"])
    /\ UNCHANGED <<object, status, world, fences, running, queued, timer>>

\* The status the pass built is the one it read.  One that reports Ready carries
\* the time of the check.
SameStatus == out = status /\ ~(pc = "status" /\ out.state = "Ready")

\* Mutant: a pass that succeeds asks for no requeue.
WriteStatus_NoRequeue ==
    /\ pc \in {"status", "holdStatus", "errorStatus"}
    /\ \/ stale /\ Retry /\ UNCHANGED <<status, timer>>
       \/ /\ ~stale \/ SameStatus
          /\ status' = out
          /\ queued' = (queued \/ pc = "errorStatus")
          /\ End
          /\ UNCHANGED timer
    /\ UNCHANGED <<object, world, fences, running, failed, changes>>

\* The end of a pass.  The patch is refused if the object changed since it was
\* read; a status that did not change is not sent, though times and counters left
\* out here may differ.  Every pass but one that holds the server is repeated.
WriteStatus ==
    /\ pc \in {"status", "holdStatus", "errorStatus"}
    /\ \/ stale /\ Retry /\ UNCHANGED <<status, timer>>
       \/ /\ ~stale \/ SameStatus
          /\ status' = out
          /\ queued' = (queued \/ pc = "errorStatus")
          /\ timer' = (timer \/ pc = "status")
          /\ End
    /\ UNCHANGED <<object, world, fences, running, failed, changes>>

\* Calls whose error ends the pass.
CallFails ==
    /\ pc \in {"addFinalizer", "ingress", "register", "legacy", "deployment", "pods", "status",
               "holdStatus", "errorStatus", "delDeployment", "delLegacy", "deregister",
               "removeFinalizer"}
    /\ Failing
    /\ IF pc = "ingress" THEN IngressFailed /\ UNCHANGED queued ELSE Retry
    /\ UNCHANGED <<object, status, world, fences, running, timer>>

-----------------------------------------------------------------------------
(* reconcileDelete *)

\* The Deployment under the name is deleted, whoever controls it.
DelDeployment ==
    /\ pc = "delDeployment"
    /\ dep' = "none"
    /\ queued' = (queued \/ dep \in OwnDep)
    /\ Go("delLegacy", out)
    /\ UNCHANGED <<object, status, world, fences, scaled, pod, legacy, timer, failed, changes>>

DelLegacy ==
    /\ pc = "delLegacy"
    /\ removeLegacyPod
    /\ queued' = (queued \/ legacy = "running")
    /\ Go(IF client THEN "deregister" ELSE "removeFinalizer", out)
    /\ UNCHANGED <<object, status, world, fences, dep, scaled, pod, timer, failed, changes>>

\* deregisterOwned: what core and the claim then hold is in module Registration.
Deregister ==
    /\ pc = "deregister"
    /\ Go("removeFinalizer", out)
    /\ UNCHANGED <<object, status, world, fences, running, queued, timer, failed, changes>>

RemoveFinalizer ==
    /\ pc = "removeFinalizer"
    /\ \/ stale /\ Retry /\ UNCHANGED <<phase, fin>>
       \/ ~stale /\ phase' = "gone" /\ fin' = FALSE /\ queued' = TRUE /\ End
    /\ UNCHANGED <<spec, status, world, fences, running, timer, failed, changes>>

Requeue ==
    /\ timer
    /\ timer' = FALSE
    /\ queued' = TRUE
    /\ UNCHANGED <<object, status, world, fences, running, pc, pass, changes>>

\* The operator restarts, with or without core's URL: every server is queued.
Restart ==
    /\ End
    /\ client' \in BOOLEAN
    /\ queued' = (phase # "gone")
    /\ timer' = FALSE
    /\ failed' = FALSE
    /\ UNCHANGED <<object, status, label, fences, running, core>>

-----------------------------------------------------------------------------
(* Users, the cluster and core *)

EditSpec ==
    /\ Change
    /\ phase # "gone"
    /\ spec' \in Specs \ {spec}
    /\ dep' = IF dep = "current" /\ deploymentHash(spec') # deploymentHash(spec) THEN "old" ELSE dep
    /\ queued' = TRUE
    /\ stale' = (pc # "idle")
    /\ UNCHANGED <<phase, fin, status, world, fences, scaled, pod, legacy, timer, pc, seen, out,
                   incomplete, failed>>

DeleteServer ==
    /\ Change
    /\ phase = "live"
    /\ phase' = IF fin THEN "deleting" ELSE "gone"
    /\ queued' = TRUE
    /\ stale' = (pc # "idle")
    /\ UNCHANGED <<fin, spec, status, world, fences, running, timer, pc, seen, out, incomplete,
                   failed>>

\* Whether an event of a policy maps to the server: it is the policy's controller.
PolicyEvent(p) == p \in OwnNP \cup {"own"}

\* Someone edits or deletes a policy, or puts one of their own under its name.
PoliciesChange ==
    /\ Change
    /\ \/ /\ \/ np \in {"noEgress", "egress"} /\ np' \in {"edited", "none"}
             \/ np \in {"edited", "orphan", "foreign"} /\ np' = "none"
             \/ np = "none" /\ np' = "foreign"
          /\ queued' = (queued \/ PolicyEvent(np))
          /\ UNCHANGED ing
       \/ /\ \/ ing = "own" /\ ing' \in {"edited", "none"}
             \/ ing \in {"edited", "foreign"} /\ ing' = "none"
             \/ ing = "none" /\ ing' = "foreign"
          /\ queued' = (queued \/ PolicyEvent(ing))
          /\ UNCHANGED np
    /\ UNCHANGED <<object, status, world, running, timer, pc, pass>>

\* Someone deletes the Deployment, or creates one under its name.
DeploymentChanges ==
    /\ Change
    /\ \/ dep # "none" /\ dep' = "none"
       \/ dep = "none" /\ dep' \in {"foreign", "unlabelled"}
    /\ queued' = (queued \/ dep \in OwnDep)
    /\ UNCHANGED <<object, status, world, fences, scaled, pod, legacy, timer, pc, pass>>

\* Mutant: pods are watched through the Deployment that owns them.
providerPodToServer_Owns == queued' = queued

\* Every event of a pod with the server's labels queues the server.
providerPodToServer == queued' = TRUE

\* The Deployment controller and the kubelet: the pod is created, comes up, and
\* goes when it is no longer wanted.
PodRuns ==
    /\ \/ dep \in OwnDep /\ scaled /\ pod = "none" /\ pod' = "starting"
       \/ dep \in OwnDep /\ scaled /\ pod = "starting" /\ pod' \in {"ready", "stuck"}
       \/ ~(dep \in OwnDep /\ scaled) /\ pod # "none" /\ pod' = "none"
    /\ providerPodToServer
    /\ UNCHANGED <<object, status, world, fences, dep, scaled, legacy, timer, pc, pass, changes>>

\* A container is not ready any more or cannot restart, or the pod is lost or
\* replaced.
PodChanges ==
    /\ Change
    /\ pod # "none"
    /\ pod' \in {"none", "starting", "stuck"} \ {pod}
    /\ providerPodToServer
    /\ UNCHANGED <<object, status, world, fences, dep, scaled, legacy, timer, pc, pass>>

LegacyStops ==
    /\ legacy = "terminating"
    /\ legacy' = "none"
    /\ providerPodToServer
    /\ UNCHANGED <<object, status, world, fences, dep, scaled, pod, timer, pc, pass, changes>>

\* Garbage collection of what a removed server controlled.
Collect ==
    /\ phase = "gone"
    /\ \E o \in {"np", "ing"} :
         /\ IF o = "np" THEN np \in OwnNP ELSE ing \in {"own", "edited"}
         /\ np'  = IF o = "np" THEN "none" ELSE np
         /\ ing' = IF o = "ing" THEN "none" ELSE ing
    /\ queued' = TRUE
    /\ UNCHANGED <<object, status, world, running, timer, pc, pass, changes>>

\* Core starts or stops taking the registration, or lists other tools.
CoreChanges ==
    /\ Change
    /\ core' \in {[core EXCEPT !.admits = ~core.admits], [core EXCEPT !.tools = 3 - core.tools]}
    /\ UNCHANGED <<object, status, label, client, fences, running, queued, timer, pc, pass>>

-----------------------------------------------------------------------------
(* Specification *)

\* A server new to the operator, or one an older operator ran as a pod of its own
\* and gave a policy without an owner; its deletion may have begun.
ServerInit ==
    /\ spec \in Specs
    /\ \/ /\ phase = "live" /\ fin = FALSE /\ np = "none" /\ legacy = "none"
          /\ status = NoStatus
       \/ /\ phase \in {"live", "deleting"} /\ fin = TRUE /\ np = "orphan" /\ legacy = "running"
          /\ status = [NoStatus EXCEPT !.state = "Ready", !.ready = TRUE, !.np = "Applied"]
    /\ ing = "none"
    /\ dep = "none" /\ scaled = FALSE /\ pod = "none"
    /\ core = [admits |-> TRUE, tools |-> 1]
    /\ client = TRUE
    /\ queued = TRUE /\ timer = FALSE
    /\ pc = "idle"
    /\ seen = NoSpec /\ out = NoStatus
    /\ incomplete = FALSE /\ stale = FALSE /\ failed = FALSE

ServerStep ==
    \/ Reconcile \/ AddFinalizer \/ ReconcileIngress \/ WriteIngress
    \/ ReconcileNetworkPolicy \/ WriteNetworkPolicy \/ Register
    \/ RemoveLegacy \/ ReadDeployment \/ ApplyDeployment \/ SyncPodStatus \/ ReadTools
    \/ WriteStatus \/ DelDeployment \/ DelLegacy \/ Deregister \/ RemoveFinalizer

ServerFails ==
    \/ IngressCallFails \/ NetworkPolicyFails \/ DeploymentCallFails \/ ToolsCallFails
    \/ CallFails

ServerNext ==
    \/ ServerStep \/ ServerFails \/ Requeue
    \/ EditSpec \/ DeleteServer \/ PoliciesChange \/ DeploymentChanges
    \/ PodRuns \/ PodChanges \/ LegacyStops \/ Collect \/ CoreChanges

=============================================================================
