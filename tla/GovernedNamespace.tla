-------------------------- MODULE GovernedNamespace -------------------------
(***************************************************************************)
(* A namespace and one container-mode server in it: the namespace egress   *)
(* controller and the MCPServer controller, which never call each other.   *)
(* They meet in the namespace's enforce-egress label, which each of them   *)
(* reads when its own pass gets there, and in the pod, whose egress is     *)
(* what the default-deny and the server's own policy together allow.       *)
(***************************************************************************)
EXTENDS Workload

VARIABLES deny, nsQueued, nsTimer, nsPc, nsFailed

Namespace == INSTANCE NamespaceEgress

nsOnly == <<deny, nsQueued, nsTimer, nsPc, nsFailed>>
vars   == <<serverVars, nsOnly>>

serverOnly == <<object, status, fences, running, core, client, queued, timer, pc, pass>>

-----------------------------------------------------------------------------
(* Composition *)

\* Mutant: the label is noticed at the next poll.
mcpServersInNamespace_Poll == queued' = queued

\* A change of the label queues every server of the namespace.
mcpServersInNamespace == queued' = (queued \/ phase # "gone")

LabelChanges ==
    /\ Change
    /\ Namespace!FlipLabel
    /\ mcpServersInNamespace
    /\ UNCHANGED <<object, status, fences, running, core, client, timer, pc, pass>>

\* The operator's process ends and another one starts.
Crash == Change /\ Restart /\ Namespace!NsRestart

\* An older operator left all it wrote without owners, or nothing.
Init ==
    /\ ServerInit
    /\ Namespace!NsInit
    /\ np = "orphan" <=> deny = "orphan"
    /\ changes = 0

Next ==
    \/ ServerNext /\ UNCHANGED nsOnly
    \/ Namespace!NsNext /\ UNCHANGED serverOnly
    \/ LabelChanges
    \/ Crash

Spec == Init /\ [][Next]_vars

\* The controllers' workers go on, and what is due comes.
FairSpec ==
    /\ Spec
    /\ WF_vars(ServerStep /\ UNCHANGED nsOnly)
    /\ WF_vars(Requeue /\ UNCHANGED nsOnly)
    /\ WF_vars(Namespace!NsStep /\ UNCHANGED serverOnly)
    /\ WF_vars(Namespace!NsRequeue /\ UNCHANGED serverOnly)

-----------------------------------------------------------------------------
(* Properties *)

\* Every variable keeps its type.  The policy that is written is one a spec calls
\* for (BuildNetworkPolicy), and the reasons of the conditions are the code's.
TypeOK ==
    /\ phase \in {"live", "deleting", "gone"} /\ fin \in BOOLEAN
    /\ spec \in Specs /\ seen \in Specs
    /\ status \in StatusSet /\ out \in StatusSet
    /\ np \in Policies /\ ing \in {"none", "own", "edited", "foreign"}
    /\ dep \in Deployments /\ scaled \in BOOLEAN /\ pod \in Pods
    /\ legacy \in {"none", "running", "terminating"}
    /\ core \in [admits : BOOLEAN, tools : 1 .. 2] /\ client \in BOOLEAN
    /\ queued \in BOOLEAN /\ timer \in BOOLEAN
    /\ pc \in Calls
    /\ incomplete \in BOOLEAN /\ stale \in BOOLEAN /\ failed \in BOOLEAN
    /\ changes \in 0 .. MaxChanges
    /\ Namespace!NsTypeOK

\* No pass is running or due, the last one made all its calls, and it was not
\* one that holds the server.
Settled == phase = "live" /\ pc = "idle" /\ ~queued /\ ~failed /\ ~Held(spec)

NsSettled == nsPc = "idle" /\ ~nsQueued /\ ~nsFailed

\* The policies of the operator, present or past, and the one the label, the pin
\* and the capabilities call for.
WrittenNP == OwnNP \cup {"orphan"}
Wanted    == IF label /\ ~spec.pinned THEN "none"
             ELSE IF spec.caps \in {"noEgress", "egress"} THEN spec.caps ELSE "none"

\* Once the passes have caught up with the label, the spec and the pin, the
\* server's egress policy is exactly the one they call for; the one exception,
\* a name someone else has or had, is reported and looked at again.
EgressInPlace ==
    Settled =>
        IF Wanted = "none" THEN np \notin WrittenNP
        ELSE np = Wanted \/ (np \in {"none", "foreign"} /\ status.np = "NameTaken" /\ timer)

\* The default-deny is there in a namespace that opted in, unless someone else
\* has or had its name and the namespace is looked at again; the operator's own
\* is gone from one that did not.
DenyInPlace ==
    NsSettled =>
        IF label THEN deny = "own" \/ (deny \in {"none", "foreign"} /\ nsTimer)
        ELSE deny \in {"none", "foreign"}

\* A settled status tells what the Deployment's pod is doing, and a server that
\* is dead or cold is never also Ready.
StatusExact ==
    /\ status.state \in {"Dead", "Cold"} => ~status.ready
    /\ Settled /\ dep \in OwnDep =>
           /\ dep = "current"
           /\ status.state \in
                  IF spec.cold THEN {"Cold"}
                  ELSE CASE pod \in {"none", "starting"} -> {"Initializing"}
                         [] pod = "stuck" -> {"Dead"}
                         [] pod = "ready" -> {"Ready", "Degraded"}

\* A server that declares egress reports drift exactly when the policy for it is
\* not in place, whatever happened to the policy since.
DriftReported ==
    Settled /\ spec.caps = "egress" =>
        ("capability_drift" \in status.viol <=> np # "egress")

\* A removed server leaves no Deployment of its own and no pod of an older
\* operator running, wherever its deletion and the passes met.
GoneLeavesNothing == phase = "gone" => dep \notin OwnDep /\ legacy # "running"

\* The Deployment's pod does not start while a pod of an older operator has not
\* even been told to stop.
OneWorkload == pod # "none" => legacy # "running"

-----------------------------------------------------------------------------
(* Liveness *)

\* The pass stops at the fence: a wrong annotation, or someone else's policy.
FenceBlocks == spec.fence = "bad" \/ (spec.fence = "on" /\ ing = "foreign")

\* An unpinned server in a namespace that opted in loses the policy that opens
\* its egress, and the namespace gets its default-deny, unless the label, the
\* pin or the server goes first or the fence stops every pass.
Closes ==
    (label /\ phase = "live" /\ ~spec.pinned) ~>
        \/ np \notin WrittenNP /\ deny \in {"own", "foreign"}
        \/ ~label \/ phase # "live" \/ spec.pinned \/ FenceBlocks \/ Held(spec)

\* More tools than declared are reported in the end, although the pass that reads
\* them has judged their number already.
OverLimitReported ==
    <>[](/\ phase = "live" /\ ~spec.cold /\ spec.caps # "nil" /\ spec.max = 1
         /\ core = [admits |-> TRUE, tools |-> 2] /\ client
         /\ dep = "current" /\ pod = "ready" /\ ~FenceBlocks)
    => <>[]("undeclared_tool" \in status.viol)

\* A deletion that has begun ends with the object gone, through failures, edits
\* and restarts.
DeletionCompletes == (phase = "deleting") ~> (phase = "gone")

=============================================================================
