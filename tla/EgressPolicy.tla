---------------------------- MODULE EgressPolicy ----------------------------
(***************************************************************************)
(* How the MCPEgressPolicy controller keeps a policy's two halves in place *)
(* (internal/controller/mcpegresspolicy_*.go): the network backstop, a     *)
(* NetworkPolicy or a CiliumNetworkPolicy in the cluster, and the L7       *)
(* policy of every target server in core.                                  *)
(*                                                                         *)
(* A pass that succeeds is not repeated on a clock.  What brings a policy  *)
(* back is the work queue: its own events, those of the objects it owns,   *)
(* of the servers and the group it targets, and of the gateway's pods.  So *)
(* the queue is part of the state, and every change enqueues exactly the   *)
(* policies the watches map it to.                                         *)
(*                                                                         *)
(* A read from the informers' cache may be old.  That is a pass which read *)
(* earlier: the event behind the cache enqueues the policy again, as the   *)
(* change itself does here.                                                *)
(***************************************************************************)
EXTENDS Naturals

CONSTANTS
    Policies,     \* MCPEgressPolicies of one namespace
    Servers,      \* MCPServers of the same namespace
    Remote,       \* those that run no pods
    MaxChanges    \* bound: edits, restarts, failures and crashes

Group == "group"   \* the MCPServerGroup of the namespace
Unset == "unset"   \* core holds no L7 policy for a server

ASSUME TargetAssumption == Group \notin Servers /\ Remote \subseteq Servers
ASSUME ChangesAssumption == MaxChanges \in Nat
ASSUME UnsetAssumption == Unset \notin Policies

VARIABLES
    phase,    \* phase[p]: the policy object, from creation to its removal
    fin,      \* the policies that carry the finalizer
    spec,     \* spec[p]: its spec
    status,   \* status[p]: what it reports of its two halves
    server,   \* server[s]: absent, outside the group's selector, or a member
    group,    \* the group exists
    np,       \* np[p]: the servers p's NetworkPolicy selects; {}: there is none
    cnp,      \* cnp[p]: the same of p's CiliumNetworkPolicy
    crd,      \* ciliumAvailable's answer, reused for ciliumCRDTTL
    agent,    \* the probe's answer for the cilium agent, reused for its TTL
    watched,  \* the controller started with the CRD and watches it
    sound,    \* no CiliumNetworkPolicy stayed or went unseen (CiliumChange)
    gateway,  \* the gateway pod is Ready
    l7,       \* l7[s]: the L7 policy core holds for s
    kept,     \* the servers core kept although their MCPServer went
    queued,   \* the controller's work queue
    timer,    \* the policies a RequeueAfter will bring back
    pc,       \* pc[p]: the call the pass of p makes next
    seen,     \* seen[p]: the spec the pass read
    stale,    \* the policies whose object changed since a pass read it
    plan,     \* plan[p]: what the pass does about the backstop
    todo,     \* todo[p]: the servers the pass resolved and has yet to call core for
    out,      \* out[p]: the status the pass will write
    warned,   \* warned[p]: servers an L7ClearFailed event named
    changes   \* changes so far

object  == <<phase, fin, spec>>
cluster == <<server, group>>
cilium  == <<crd, agent, watched, sound>>
core    == <<gateway, l7, kept>>
work    == <<seen, stale, plan, todo, out>>
vars    == <<phase, fin, spec, status, server, group, np, cnp, crd, agent,
             watched, sound, gateway, l7, kept, queued, timer, pc, seen, stale,
             plan, todo, out, warned, changes>>

-----------------------------------------------------------------------------
(* State *)

\* Audit also stands for Enforce with defaultAction Allow: neither has a
\* backstop.  Auto also stands for Cilium, which falls back in the same way.
\* Specs that differ only in what their mode does not look at are one.
SpecSet == {s \in [target : Servers \cup {Group}, mode : {"Audit", "Enforce"},
                   generate : BOOLEAN, flavor : {"Vanilla", "Auto"}] :
               /\ s.mode = "Audit" => s.generate
               /\ s.mode = "Audit" \/ ~s.generate => s.flavor = "Auto"}
NoSpec  == [target |-> Group, mode |-> "Audit", generate |-> TRUE, flavor |-> "Auto"]

\* BackstopEnforcement, with Applied for what the probe then qualifies, and the
\* L7Delivered condition.
StatusSet == [backstop : {"None", "Pending", "Disabled", "NotApplicable", "Applied"},
              l7 : {"None", "NotPushed", "Failed", "Delivered"}]
NoStatus  == [backstop |-> "None", l7 |-> "None"]

Plans == {"withhold", "audit", "optOut", "noPods", "vanilla", "cilium"}

Calls == {"addFinalizer", "resolve", "applyNP", "applyCNP", "deleteNP", "deleteCNP",
          "push", "writeStatus", "retryStatus", "delResolve", "clear", "removeFinalizer"}

\* Mutant: a spec without a mode is sent as it is.
compileL7Policy_Raw(p, s) == [by |-> p, mode |-> IF s.mode = "Audit" THEN "" ELSE s.mode]

\* What compileL7Policy sends, as far as the properties tell two payloads apart:
\* whose it is and its mode.
compileL7Policy(p, s) == [by |-> p, mode |-> s.mode]
L7Set == [by : Policies \cup {Unset}, mode : {"Audit", "Enforce"}]
NoL7  == [by |-> Unset, mode |-> "Audit"]

existing == {p \in Policies : phase[p] \in {"live", "deleting"}}

\* resolveTargetSelector and groupMembers: the servers behind a target now.
Resolved(target) ==
    IF target \in Servers
    THEN {s \in {target} : server[s] # "absent"}
    ELSE {s \in Servers : group /\ server[s] = "member"}

-----------------------------------------------------------------------------
(* Parts of a pass *)

Goto(p, call) == pc' = [pc EXCEPT ![p] = call]

Change == changes < MaxChanges /\ changes' = changes + 1

\* The pass returns.
End(p) == /\ pc'    = [pc EXCEPT ![p] = "idle"]
          /\ seen'  = [seen EXCEPT ![p] = NoSpec]
          /\ plan'  = [plan EXCEPT ![p] = "withhold"]
          /\ todo'  = [todo EXCEPT ![p] = {}]
          /\ out'   = [out EXCEPT ![p] = NoStatus]
          /\ stale' = stale \ {p}

\* Mutant: the error is logged and dropped.
Retry_Dropped(p) == End(p) /\ UNCHANGED queued

\* The pass returns an error: the queue brings the policy back.
Retry(p) == /\ End(p)
            /\ queued' = queued \cup {p}

\* A call fails.  The error is returned after the status computed so far is
\* written.
FailStep(p) ==
    /\ Goto(p, "retryStatus")
    /\ UNCHANGED <<object, status, cluster, np, cnp, cilium, core, queued, timer, work, warned>>

FailCall(p) == Change /\ FailStep(p)

-----------------------------------------------------------------------------
(* Reconcile *)

FirstCall(p) ==
    IF phase[p] = "deleting" THEN "delResolve"
    ELSE IF p \in fin THEN "resolve" ELSE "addFinalizer"

Reconcile(p) ==
    /\ p \in queued /\ pc[p] = "idle"
    /\ queued' = queued \ {p}
    /\ IF p \in existing
       THEN /\ Goto(p, FirstCall(p))
            /\ seen'  = [seen EXCEPT ![p] = spec[p]]
            /\ out'   = [out EXCEPT ![p] = status[p]]
       ELSE UNCHANGED <<pc, seen, out>>
    /\ UNCHANGED <<object, status, cluster, np, cnp, cilium, core, timer, stale, plan, todo,
                   warned, changes>>

\* Updates of the object are refused once it is no longer what the pass read,
\* and are events of their own.
AddFinalizer(p) ==
    /\ pc[p] = "addFinalizer"
    /\ \/ /\ p \notin stale
          /\ fin' = fin \cup {p}
          /\ Goto(p, "resolve")
          /\ queued' = queued \cup {p}
          /\ UNCHANGED <<work, changes>>
       \/ /\ IF p \in stale THEN UNCHANGED changes ELSE Change
          /\ Retry(p)
          /\ UNCHANGED fin
    /\ UNCHANGED <<phase, spec, status, cluster, np, cnp, cilium, core, timer, warned>>

\* The branches of reconcile and the flavor of applyFlavoredBackstop.
Plan(p, members) ==
    IF members = {} THEN "withhold"
    ELSE IF seen[p].mode = "Audit" THEN "audit"
    ELSE IF ~seen[p].generate THEN "optOut"
    ELSE IF members \subseteq Remote THEN "noPods"
    ELSE IF seen[p].flavor = "Auto" /\ crd /\ agent THEN "cilium" ELSE "vanilla"

\* Mutant: a policy that leaves Cilium goes without the Vanilla floor.
FirstWrite_NoFloor(pl) == CASE pl = "vanilla" -> "deleteCNP"
                            [] pl = "cilium"  -> "applyCNP"
                            [] OTHER          -> "deleteNP"

FirstWrite(pl) == CASE pl = "vanilla" -> "applyNP"
                    [] pl = "cilium"  -> "applyCNP"
                    [] OTHER          -> "deleteNP"

\* A target that is missing, or a group without members, sets its conditions at
\* once (targetNotFound).
Resolve(p) ==
    /\ pc[p] = "resolve"
    /\ LET members == Resolved(seen[p].target)
       IN  /\ todo'  = [todo EXCEPT ![p] = members]
           /\ plan'  = [plan EXCEPT ![p] = Plan(p, members)]
           /\ out'   = IF members = {}
                       THEN [out EXCEPT ![p] = [backstop |-> "Pending", l7 |-> "NotPushed"]]
                       ELSE out
           /\ Goto(p, FirstWrite(Plan(p, members)))
    /\ UNCHANGED <<object, status, cluster, np, cnp, cilium, core, queued, timer, seen, stale,
                   warned, changes>>

\* A server's or group's Get, or the members' List, fails.
ResolveFails(p) == pc[p] = "resolve" /\ FailCall(p)

-----------------------------------------------------------------------------
(* The backstop *)

\* The owned objects are watched: writing or deleting one enqueues its policy.
ApplyNP(p) ==
    /\ pc[p] = "applyNP"
    /\ \/ /\ np' = [np EXCEPT ![p] = todo[p]]
          /\ queued' = IF np' = np THEN queued ELSE queued \cup {p}
          /\ Goto(p, "deleteCNP")
          /\ UNCHANGED <<object, status, cluster, cnp, cilium, core, timer, work,
                         warned, changes>>
       \/ FailCall(p)

\* An unstructured Get and Delete; nothing is asked while the CRD is not seen.
DeleteCNP(p) ==
    /\ pc[p] = "deleteCNP"
    /\ \/ /\ cnp' = IF crd THEN [cnp EXCEPT ![p] = {}] ELSE cnp
          /\ queued' = IF cnp' # cnp /\ watched THEN queued \cup {p} ELSE queued
          /\ out' = [out EXCEPT ![p].backstop =
                        IF plan[p] = "audit" THEN "Disabled" ELSE "Applied"]
          /\ Goto(p, "push")
          /\ UNCHANGED <<object, status, cluster, np, cilium, core, timer, seen, stale, plan, todo, warned, changes>>
       \/ FailCall(p)

\* Without the CRD there is no such kind to write.
ApplyCNP(p) ==
    /\ pc[p] = "applyCNP"
    /\ \/ /\ crd \/ ~sound
          /\ cnp' = [cnp EXCEPT ![p] = todo[p]]
          /\ queued' = IF cnp' # cnp /\ watched THEN queued \cup {p} ELSE queued
          /\ Goto(p, "deleteNP")
          /\ UNCHANGED <<object, status, cluster, np, cilium, core, timer, work,
                         warned, changes>>
       \/ IF crd THEN FailCall(p) ELSE FailStep(p) /\ UNCHANGED changes

\* What follows deleteBackstopIfExists, and what the branch then reports.
AfterDelete(pl) == CASE pl = "withhold" -> "writeStatus"
                     [] pl = "audit"    -> "deleteCNP"
                     [] OTHER           -> "push"
Reported(pl, s) == CASE pl = "optOut" -> "Disabled"
                     [] pl = "noPods" -> "NotApplicable"
                     [] pl = "cilium" -> "Applied"
                     [] OTHER         -> s.backstop

DeleteNP(p) ==
    /\ pc[p] = "deleteNP"
    /\ \/ /\ np' = [np EXCEPT ![p] = {}]
          /\ queued' = IF np' = np THEN queued ELSE queued \cup {p}
          /\ out' = [out EXCEPT ![p].backstop = Reported(plan[p], out[p])]
          /\ Goto(p, AfterDelete(plan[p]))
          /\ UNCHANGED <<object, status, cluster, cnp, cilium, core, timer, seen, stale, plan, todo, warned, changes>>
       \/ FailCall(p)

-----------------------------------------------------------------------------
(* The L7 policy *)

\* Core is not there until the gateway is Ready, and takes an L7 policy for a
\* server it has, with its MCPServer or without.
Accepts(s) == gateway /\ (server[s] # "absent" \/ s \in kept)

\* SetL7Policy: what core holds for s from now on is this pass's.
Set(p, s) == /\ l7' = [l7 EXCEPT ![s] = compileL7Policy(p, seen[p])]
             /\ kept' = IF server[s] = "absent" THEN kept ELSE kept \ {s}

\* pushL7Policy, one SetL7Policy per server.  Core may refuse, for one a server
\* that is not registered yet; a push whose reply is lost may have been taken.
\* The first failure ends the loop.
Push(p) ==
    /\ pc[p] = "push"
    /\ \E s \in todo[p] :
          \/ /\ Accepts(s)
             /\ Set(p, s)
             /\ todo' = [todo EXCEPT ![p] = @ \ {s}]
             /\ IF todo[p] = {s}
                THEN /\ Goto(p, "writeStatus")
                     /\ out' = [out EXCEPT ![p].l7 = "Delivered"]
                ELSE UNCHANGED <<pc, out>>
             /\ UNCHANGED changes
          \/ /\ IF Accepts(s) THEN Change ELSE UNCHANGED changes
             /\ (Accepts(s) /\ Set(p, s)) \/ UNCHANGED <<l7, kept>>
             /\ out' = [out EXCEPT ![p].l7 = "Failed"]
             /\ Goto(p, "retryStatus")
             /\ UNCHANGED todo
    /\ UNCHANGED <<object, status, cluster, np, cnp, cilium, gateway, queued, timer,
                   seen, stale, plan, warned>>

\* writeStatus at the end of Reconcile: a patch under the resourceVersion read,
\* left out when nothing changed.  A status write is an event of the policy.
\* A missing target is looked for again after a while.
WriteStatus(p) ==
    /\ pc[p] \in {"writeStatus", "retryStatus"}
    /\ End(p)
    /\ \/ /\ p \notin stale \/ out[p] = status[p]
          /\ status' = [status EXCEPT ![p] = out[p]]
          /\ queued' = IF status' # status \/ pc[p] = "retryStatus"
                       THEN queued \cup {p} ELSE queued
          /\ timer' = IF plan[p] = "withhold" /\ pc[p] = "writeStatus"
                      THEN timer \cup {p} ELSE timer
          /\ UNCHANGED changes
       \/ /\ out[p] # status[p]
          /\ IF p \in stale THEN UNCHANGED changes ELSE Change
          /\ queued' = queued \cup {p}
          /\ UNCHANGED <<status, timer>>
    /\ UNCHANGED <<object, cluster, np, cnp, cilium, core, warned>>

-----------------------------------------------------------------------------
(* handleDeletion *)

DelResolve(p) ==
    /\ pc[p] = "delResolve"
    /\ \/ /\ todo' = [todo EXCEPT ![p] = Resolved(seen[p].target)]
          /\ Goto(p, IF todo'[p] = {} THEN "removeFinalizer" ELSE "clear")
          /\ UNCHANGED <<queued, seen, stale, plan, out, changes>>
       \/ Change /\ Retry(p)
    /\ UNCHANGED <<object, status, cluster, np, cnp, cilium, core, timer, warned>>

\* Mutants: the failure is not reported; the failure ends the pass.
Clear_Silent(p) ==
    /\ pc[p] = "clear"
    /\ \E s \in todo[p] :
          /\ todo' = [todo EXCEPT ![p] = @ \ {s}]
          /\ IF todo[p] = {s} THEN Goto(p, "removeFinalizer") ELSE UNCHANGED pc
          /\ \/ gateway /\ l7' = [l7 EXCEPT ![s] = NoL7] /\ UNCHANGED changes
             \/ ~gateway /\ UNCHANGED <<l7, changes>>
             \/ gateway /\ Change /\ UNCHANGED l7
    /\ UNCHANGED <<object, status, cluster, np, cnp, cilium, gateway, kept, queued, timer, seen,
                   stale, plan, out, warned>>
Clear_Wedges(p) ==
    /\ pc[p] = "clear"
    /\ IF gateway
       THEN /\ Goto(p, "removeFinalizer")
            /\ l7' = [s \in Servers |-> IF s \in todo[p] THEN NoL7 ELSE l7[s]]
            /\ UNCHANGED <<queued, work>>
       ELSE Retry(p) /\ UNCHANGED l7
    /\ UNCHANGED <<object, status, cluster, np, cnp, cilium, gateway, kept, timer, warned, changes>>

\* ClearL7Policy, DELETE by server name, whoever's policy it is by then; a 404
\* is success.  A failure is reported, and the deletion goes on.
Clear(p) ==
    /\ pc[p] = "clear"
    /\ \E s \in todo[p] :
          /\ todo' = [todo EXCEPT ![p] = @ \ {s}]
          /\ IF todo[p] = {s} THEN Goto(p, "removeFinalizer") ELSE UNCHANGED pc
          /\ \/ /\ gateway
                /\ l7' = [l7 EXCEPT ![s] = NoL7]
                /\ UNCHANGED <<warned, changes>>
             \/ /\ IF gateway THEN Change ELSE UNCHANGED changes
                /\ l7' \in {l7, IF gateway THEN [l7 EXCEPT ![s] = NoL7] ELSE l7}
                /\ warned' = [warned EXCEPT ![p] = @ \cup {s}]
    /\ UNCHANGED <<object, status, cluster, np, cnp, cilium, gateway, kept, queued, timer,
                   seen, stale, plan, out>>

\* Removing the finalizer removes the object, and the garbage collector the
\* backstop it owns.
RemoveFinalizer(p) ==
    /\ pc[p] = "removeFinalizer"
    /\ \/ /\ p \notin stale
          /\ phase' = [phase EXCEPT ![p] = "gone"]
          /\ fin' = fin \ {p}
          /\ np'  = [np EXCEPT ![p] = {}]
          /\ cnp' = [cnp EXCEPT ![p] = {}]
          /\ End(p)
          /\ UNCHANGED <<queued, changes>>
       \/ /\ IF p \in stale THEN UNCHANGED changes ELSE Change
          /\ Retry(p)
          /\ UNCHANGED <<phase, fin, np, cnp>>
    /\ UNCHANGED <<spec, status, cluster, cilium, core, timer, warned>>

\* One call of the pass of p.
Step(p) ==
    \/ Reconcile(p) \/ AddFinalizer(p) \/ Resolve(p) \/ ResolveFails(p)
    \/ ApplyNP(p) \/ DeleteCNP(p) \/ ApplyCNP(p) \/ DeleteNP(p)
    \/ Push(p) \/ WriteStatus(p)
    \/ DelResolve(p) \/ Clear(p) \/ RemoveFinalizer(p)

-----------------------------------------------------------------------------
(* The watches *)

\* policiesForMCPServer, of either side of a change: the policies that name the
\* server, and those of a group whose selector matches it.
\* Mutant: only the new labels are looked at.
policiesForMCPServer_New(s, old, new) ==
    {p \in existing : \/ spec[p].target = s
                      \/ spec[p].target = Group /\ group /\ new = "member"}

policiesForMCPServer(s, old, new) ==
    {p \in existing : \/ spec[p].target = s
                      \/ spec[p].target = Group /\ group /\ "member" \in {old, new}}

policiesForMCPServerGroup == {p \in existing : spec[p].target = Group}

\* gatewayPodBecameReady and policiesForGatewayPod.
\* Mutant: the gateway's pods are not watched.
policiesForGatewayPod_None == {}

policiesForGatewayPod == existing

-----------------------------------------------------------------------------
(* Everything else that acts on the objects or on core *)

UserCreate(p) ==
    /\ phase[p] = "absent"
    /\ phase' = [phase EXCEPT ![p] = "live"]
    /\ \E s \in SpecSet : spec' = [spec EXCEPT ![p] = s]
    /\ queued' = queued \cup {p}
    /\ UNCHANGED <<fin, status, cluster, np, cnp, cilium, core, timer, pc, work, warned,
                   changes>>

\* targetRef is immutable.
UserEdit(p) ==
    /\ Change /\ p \in existing
    /\ \E s \in {x \in SpecSet : x.target = spec[p].target} \ {spec[p]} :
          spec' = [spec EXCEPT ![p] = s]
    /\ stale' = IF pc[p] = "idle" THEN stale ELSE stale \cup {p}
    /\ queued' = queued \cup {p}
    /\ UNCHANGED <<phase, fin, status, cluster, np, cnp, cilium, core, timer, pc, seen, plan, todo, out, warned>>

UserDelete(p) ==
    /\ phase[p] = "live"
    /\ phase' = [phase EXCEPT ![p] = IF p \in fin THEN "deleting" ELSE "gone"]
    /\ stale' = IF pc[p] = "idle" THEN stale ELSE stale \cup {p}
    /\ queued' = queued \cup {p}
    /\ UNCHANGED <<fin, spec, status, cluster, np, cnp, cilium, core, timer, pc, seen, plan, todo, out, warned,
                   changes>>

\* Someone deletes the operator's backstop.
Tamper(p) ==
    /\ Change
    /\ \/ /\ np[p] # {}
          /\ np' = [np EXCEPT ![p] = {}]
          /\ queued' = queued \cup {p}
          /\ UNCHANGED cnp
       \/ /\ cnp[p] # {}
          /\ cnp' = [cnp EXCEPT ![p] = {}]
          /\ queued' = IF watched THEN queued \cup {p} ELSE queued
          /\ UNCHANGED np
    /\ UNCHANGED <<object, status, cluster, cilium, core, timer, pc, work, warned>>

\* Deleting an MCPServer takes the server out of core, and core drops its L7
\* policy with it, or leaves it there: the deregistration failed, or the MCPServer
\* did not hold the claim on the name (deregisterOwned).
Dropped(s) == l7' = [l7 EXCEPT ![s] = NoL7] /\ kept' = kept \ {s}
Left(s)    == gateway /\ kept' = kept \cup {s} /\ UNCHANGED l7

\* A server appears, goes, or moves in or out of the group.
ServerChange(s) ==
    /\ IF server[s] = "absent" THEN UNCHANGED changes ELSE Change
    /\ \E new \in {"absent", "outside", "member"} \ {server[s]} :
          /\ server' = [server EXCEPT ![s] = new]
          /\ queued' = queued \cup policiesForMCPServer(s, server[s], new)
          /\ IF new = "absent" THEN Dropped(s) \/ Left(s) ELSE UNCHANGED <<l7, kept>>
    /\ UNCHANGED <<object, status, group, np, cnp, cilium, gateway, timer, pc, work,
                   warned>>

GroupChange ==
    /\ Change
    /\ group' = ~group
    /\ queued' = queued \cup policiesForMCPServerGroup
    /\ UNCHANGED <<object, status, server, np, cnp, cilium, core, timer, pc, work, warned>>

\* A gateway without a durable store restarts: it comes back knowing nothing.
GatewayRestart ==
    /\ Change /\ gateway
    /\ gateway' = FALSE
    /\ l7' = [s \in Servers |-> NoL7]
    /\ kept' = {}
    /\ UNCHANGED <<object, status, cluster, np, cnp, cilium, queued, timer, pc, work,
                   warned>>

GatewayReady ==
    /\ ~gateway
    /\ gateway' = TRUE
    /\ queued' = queued \cup policiesForGatewayPod
    /\ UNCHANGED <<object, status, cluster, np, cnp, cilium, l7, kept, timer, pc, work,
                   warned, changes>>

\* A cached answer expires and is asked for again: Cilium was installed, its
\* agents came or went or could not be listed.  ciliumAvailable takes every error
\* for a no, so the CRD may also be gone from the answer alone, with every
\* CiliumNetworkPolicy still there.  When it is really removed they go with it.
CiliumChange ==
    /\ Change
    /\ \/ ~crd /\ crd' = TRUE /\ UNCHANGED <<agent, sound, cnp, queued>>
       \/ agent' = ~agent /\ UNCHANGED <<crd, sound, cnp, queued>>
       \/ crd /\ crd' = FALSE /\ sound' = FALSE /\ UNCHANGED <<agent, cnp, queued>>
       \/ /\ crd /\ crd' = FALSE
          /\ sound' = (sound /\ watched)
          /\ cnp' = [p \in Policies |-> {}]
          /\ queued' = IF watched THEN queued \cup {p \in Policies : cnp[p] # {}} ELSE queued
          /\ UNCHANGED agent
    /\ UNCHANGED <<object, status, cluster, np, watched, core, timer, pc, work, warned>>

\* A RequeueAfter elapses.
Fire(p) ==
    /\ p \in timer
    /\ timer' = timer \ {p}
    /\ queued' = queued \cup {p}
    /\ UNCHANGED <<object, status, cluster, np, cnp, cilium, core, pc, work, warned,
                   changes>>

\* The operator restarts: passes, queue and caches are lost, and every policy
\* is listed again.
Crash ==
    /\ Change
    /\ pc'    = [p \in Policies |-> "idle"]
    /\ seen'  = [p \in Policies |-> NoSpec]
    /\ plan'  = [p \in Policies |-> "withhold"]
    /\ todo'  = [p \in Policies |-> {}]
    /\ out'   = [p \in Policies |-> NoStatus]
    /\ stale' = {}
    /\ queued' = existing
    /\ timer' = {}
    /\ watched' = crd
    /\ sound' = (crd \/ \A p \in Policies : cnp[p] = {})
    /\ UNCHANGED <<object, status, cluster, np, cnp, crd, agent, core, warned>>

Environment ==
    \/ \E p \in Policies : \/ UserCreate(p) \/ UserEdit(p) \/ UserDelete(p) \/ Tamper(p)
                           \/ Fire(p)
    \/ \E s \in Servers : ServerChange(s)
    \/ GroupChange \/ GatewayRestart \/ GatewayReady \/ CiliumChange \/ Crash

-----------------------------------------------------------------------------
(* Specification *)

Init ==
    /\ phase  = [p \in Policies |-> "absent"]
    /\ fin    = {}
    /\ spec   = [p \in Policies |-> NoSpec]
    /\ status = [p \in Policies |-> NoStatus]
    /\ server = [s \in Servers |-> "absent"]
    /\ group  = TRUE
    /\ np     = [p \in Policies |-> {}]
    /\ cnp    = [p \in Policies |-> {}]
    /\ crd \in BOOLEAN /\ agent = crd
    /\ watched = crd /\ sound = TRUE
    /\ gateway = TRUE
    /\ l7     = [s \in Servers |-> NoL7]
    /\ kept   = {}
    /\ queued = {}
    /\ timer  = {}
    /\ pc     = [p \in Policies |-> "idle"]
    /\ seen   = [p \in Policies |-> NoSpec]
    /\ stale  = {}
    /\ plan   = [p \in Policies |-> "withhold"]
    /\ todo   = [p \in Policies |-> {}]
    /\ out    = [p \in Policies |-> NoStatus]
    /\ warned = [p \in Policies |-> {}]
    /\ changes = 0

Next == (\E p \in Policies : Step(p)) \/ Environment

Spec == Init /\ [][Next]_vars

\* Workers empty the queue, every pass runs to its end and timers elapse.  The
\* gateway need never come back.
FairSpec ==
    /\ Spec
    /\ \A p \in Policies : WF_vars(Step(p)) /\ WF_vars(Fire(p))

-----------------------------------------------------------------------------
(* Properties *)

\* The type invariant: every variable, the passes' copies included, holds a value
\* of its kind; core only ever gets a mode it knows (compileL7Policy).
TypeOK ==
    /\ phase  \in [Policies -> {"absent", "live", "deleting", "gone"}]
    /\ fin    \in SUBSET Policies
    /\ spec   \in [Policies -> SpecSet]
    /\ status \in [Policies -> StatusSet]
    /\ server \in [Servers -> {"absent", "outside", "member"}]
    /\ group  \in BOOLEAN
    /\ np     \in [Policies -> SUBSET Servers]
    /\ cnp    \in [Policies -> SUBSET Servers]
    /\ crd \in BOOLEAN /\ agent \in BOOLEAN
    /\ watched \in BOOLEAN /\ sound \in BOOLEAN
    /\ gateway \in BOOLEAN
    /\ l7     \in [Servers -> L7Set]
    /\ kept   \in SUBSET Servers
    /\ queued \in SUBSET Policies
    /\ timer  \in SUBSET Policies
    /\ pc     \in [Policies -> Calls \cup {"idle"}]
    /\ seen   \in [Policies -> SpecSet]
    /\ stale  \in SUBSET Policies
    /\ plan   \in [Policies -> Plans]
    /\ todo   \in [Policies -> SUBSET Servers]
    /\ out    \in [Policies -> StatusSet]
    /\ warned \in [Policies -> SUBSET Servers]
    /\ changes \in 0..MaxChanges

\* Nothing the controller has been told of is still to be done for p.
Settled(p) == /\ phase[p] = "live" /\ gateway
              /\ p \notin queued /\ p \notin timer /\ pc[p] = "idle"

Targets(p) == Resolved(spec[p].target)

\* A governed server never runs "with no backstop and no L7 policy until the
\* informer resync" (mcpegresspolicy_membership.go): when nothing is queued, core
\* holds p's present L7 policy for every present target and p says so, whatever
\* joined, was recreated, restarted or crashed before.
L7InPlace ==
    \A p \in Policies : Settled(p) =>
        /\ \A s \in Targets(p) : l7[s] = compileL7Policy(p, spec[p])
        /\ status[p].l7 = "Delivered"

\* The same for the backstop: an enforcing policy with pods behind it has one
\* flavor that selects exactly its present targets, and not the other; an
\* auditing one has none.  A CiliumNetworkPolicy counts only where the
\* controller watches them and ciliumAvailable did not miss one that is there.
BackstopInPlace ==
    \A p \in Policies : Settled(p) /\ sound /\ (crd => watched) =>
        IF spec[p].mode = "Enforce" /\ spec[p].generate /\ ~(Targets(p) \subseteq Remote)
        THEN \/ np[p] = Targets(p) /\ cnp[p] = {}
             \/ cnp[p] = Targets(p) /\ np[p] = {}
        ELSE np[p] = {} /\ (spec[p].mode = "Audit" => cnp[p] = {})

\* Switching flavors never passes through a moment without a backstop: a pass
\* that means to leave one in place deletes the last one only if someone else
\* deleted the one it wrote, and then the policy is already queued again.
FloorKept ==
    [][\A p \in Policies :
          /\ plan[p] \in {"vanilla", "cilium"} /\ pc'[p] # pc[p]
          /\ np[p] \cup cnp[p] # {} /\ np'[p] \cup cnp'[p] = {}
          => p \in queued \/ ~watched]_vars

\* "Ensure the cleanup finalizer ... so whatever we push to core is cleared on
\* delete" (Reconcile), for a policy that names its server: once it is gone, core
\* has nothing of it, except where an event said that the clear failed, and except
\* for a server that core kept beyond its MCPServer, which the deletion does not
\* find any more.
NamedTargetCleared ==
    \A p \in Policies, s \in Servers :
        phase[p] = "gone" /\ spec[p].target = s /\ l7[s].by = p =>
            s \in warned[p] \/ s \in kept

\* "A persistent clear failure (core unreachable or an auth error) must NOT wedge
\* deletion" (handleDeletion): a deleted policy goes, although the gateway may
\* never come back.
DeletionCompletes ==
    \A p \in Policies : phase[p] = "deleting" ~> phase[p] = "gone"

\* Once changes stop and the gateway is there, every policy that is left with a
\* target comes to rest and reports its L7 policy delivered.
Converges ==
    \A p \in Policies :
        <>[]gateway =>
            <>[](phase[p] = "live" /\ Targets(p) # {} =>
                    Settled(p) /\ status[p].l7 = "Delivered")

=============================================================================
