---------------------------- MODULE ServerGroup -----------------------------
(***************************************************************************)
(* How the MCPServerGroup controller reports the servers a group selects   *)
(* (internal/controller/mcpservergroup_controller.go).                     *)
(*                                                                         *)
(* The controller is the only writer of a group's status, and it reads the *)
(* group from the informer's cache, which lags behind its own writes.  So  *)
(* the object in the API server and the cached copy are two variables: a   *)
(* pass takes the copy, a write carries the version it was computed from,  *)
(* and a status-only update of the copy starts no pass.                    *)
(***************************************************************************)
EXTENDS Naturals, FiniteSets

CONSTANTS
    Servers,     \* MCPServers of the group's namespace
    Labels,      \* values of the label the selector looks at
    Policies,    \* health policies a spec may carry, at least one
    Start,       \* the members a run starts with: functions from Servers to Member
    MaxChanges   \* bound: edits, member changes, failures and crashes

Invalid == "invalid"   \* a selector LabelSelectorAsSelector refuses
Absent  == "absent"    \* the label of a server that does not exist

States == {"Initializing", "Ready", "Degraded", "Cold", "Dead"}
Member == [label : Labels \cup {Absent}, state : States]
Policy == [kind : {"none", "count", "percent"}, min : Nat]

ASSUME LabelAssumption == {Invalid, Absent} \cap Labels = {}
ASSUME ServersAssumption == IsFiniteSet(Servers)
ASSUME PolicyAssumption == Policies # {} /\ Policies \subseteq Policy
ASSUME StartAssumption == Start \subseteq [Servers -> Member]
ASSUME ChangesAssumption == MaxChanges \in Nat

VARIABLES
    live,      \* the group in the API server
    cache,     \* the informer's copy of it
    behind,    \* the copy is not the latest version
    server,    \* server[s]: its label and state, as the informer of servers has them
    queued,    \* the group is in the work queue
    timer,     \* a RequeueAfter will bring it back
    pc,        \* the call the pass makes next
    held,      \* the object the pass works on
    stale,     \* that object is not the latest version
    new,       \* the status the pass computed
    again,     \* the pass will return RequeueAfter
    lagged,    \* the last pass read an outdated copy
    failed,    \* a call of the last pass failed
    changes    \* changes so far

pass == <<held, stale, new, again>>
vars == <<live, cache, behind, server, queued, timer, pc, held, stale, new, again,
          lagged, failed, changes>>

-----------------------------------------------------------------------------
(* State *)

SpecSet == [selector : Labels \cup {Invalid}, policy : Policies]

Condition == {"None", "Unknown", "True", "False"}

\* What the group reports.  observed is observedGeneration; it also stands for
\* the generation the conditions carry.
StatusSet == [observed : 0 .. MaxChanges + 1, providers : SUBSET (Servers \X States),
              providerCount : Nat, count : [States -> Nat],
              ready : Condition, available : Condition, degraded : Condition]
NoStatus  == [observed |-> 0, providers |-> {}, providerCount |-> 0,
              count |-> [t \in States |-> 0],
              ready |-> "None", available |-> "None", degraded |-> "None"]

ObjectSet == [phase : {"live", "deleting", "gone"}, fin : BOOLEAN,
              generation : 1 .. MaxChanges + 1, spec : SpecSet, status : StatusSet]
NoObject  == [phase |-> "gone", fin |-> FALSE, generation |-> 1,
              spec |-> CHOOSE s \in SpecSet : TRUE, status |-> NoStatus]

Calls == {"idle", "removeFinalizer", "list", "updateStatus"}

-----------------------------------------------------------------------------
(* Aggregation *)

\* MCPServerGroupStatus.IsHealthy.
IsHealthy(ready, total, policy) ==
    /\ total > 0
    /\ CASE policy.kind = "none"    -> ready > 0
         [] policy.kind = "count"   -> ready >= policy.min
         [] policy.kind = "percent" -> (ready * 100) \div total >= policy.min

Selects(spec, s) == spec.selector \in Labels /\ server[s].label = spec.selector

\* The members and their states, counted.  A member that has no state yet is
\* counted with those that are initializing.
Tally(providers) == [t \in States |-> Cardinality({m \in providers : m[2] = t})]

Truth(b) == IF b THEN "True" ELSE "False"

\* Mutant: a group without members has no status for Ready.
evaluateConditions_Empty(st, policy) ==
    [st EXCEPT !.ready     = IF st.providerCount = 0 THEN ""
                             ELSE Truth(IsHealthy(st.count["Ready"], st.providerCount, policy)),
               !.available = Truth(st.count["Ready"] > 0),
               !.degraded  = Truth(st.count["Degraded"] + st.count["Dead"] > 0)]

evaluateConditions(st, policy) ==
    [st EXCEPT !.ready     = IF st.providerCount = 0 THEN "Unknown"
                             ELSE Truth(IsHealthy(st.count["Ready"], st.providerCount, policy)),
               !.available = Truth(st.count["Ready"] > 0),
               !.degraded  = Truth(st.count["Degraded"] + st.count["Dead"] > 0)]

\* The status of a pass that listed the servers: all of it is new.
Aggregate(obj) ==
    LET providers == {<<s, server[s].state>> : s \in {x \in Servers : Selects(obj.spec, x)}}
    IN  evaluateConditions(
            [NoStatus EXCEPT !.observed      = obj.generation,
                             !.providers     = providers,
                             !.providerCount = Cardinality(providers),
                             !.count         = Tally(providers)],
            obj.spec.policy)

-----------------------------------------------------------------------------
(* Parts of a pass *)

Change == changes < MaxChanges /\ changes' = changes + 1

\* The pass returns.
End == /\ pc' = "idle"
       /\ held' = NoObject
       /\ new' = NoStatus
       /\ stale' = FALSE
       /\ again' = FALSE

\* The pass returns an error: the queue brings the group back.
Retry == End /\ queued' = TRUE

\* A write goes through: the copy, and whoever holds an older version, is behind.
Write(obj) == live' = obj /\ behind' = TRUE

-----------------------------------------------------------------------------
(* Reconcile *)

\* A pass starts on the copy the informer has.  A group that is gone only has
\* its metrics cleared.
Reconcile ==
    /\ pc = "idle"
    /\ queued
    /\ queued' = FALSE
    /\ lagged' = behind
    /\ failed' = FALSE
    /\ \/ /\ cache.phase = "gone" \/ (cache.phase = "deleting" /\ ~cache.fin)
          /\ UNCHANGED <<pc, pass>>
       \/ /\ cache.phase # "gone"
          /\ cache.fin \/ cache.phase = "live"
          /\ pc' = IF cache.fin THEN "removeFinalizer" ELSE "list"
          /\ held' = cache
          /\ stale' = behind
          /\ UNCHANGED <<new, again>>
    /\ UNCHANGED <<live, cache, behind, server, timer, changes>>

\* The finalizer of an older operator is taken off.  On a group that is being
\* deleted that is all, and the API server removes the group.
RemoveFinalizer ==
    /\ pc = "removeFinalizer"
    /\ \/ /\ stale
          /\ Retry
          /\ UNCHANGED <<live, behind>>
       \/ /\ ~stale
          /\ held.phase = "deleting"
          /\ Write([live EXCEPT !.fin = FALSE, !.phase = "gone"])
          /\ End
          /\ UNCHANGED queued
       \/ /\ ~stale
          /\ held.phase = "live"
          /\ Write([live EXCEPT !.fin = FALSE])
          /\ held' = live'
          /\ pc' = "list"
          /\ UNCHANGED <<queued, stale, new, again>>
    /\ UNCHANGED <<cache, server, timer, lagged, failed, changes>>

\* reconcileNormal up to the write.  A selector that cannot be parsed changes
\* Ready and the generation alone, and the pass asks for no requeue.
List ==
    /\ pc = "list"
    /\ pc' = "updateStatus"
    /\ again' = (held.spec.selector # Invalid)
    /\ new' = IF held.spec.selector = Invalid
              THEN [held.status EXCEPT !.observed = held.generation, !.ready = "False"]
              ELSE Aggregate(held)
    /\ UNCHANGED <<live, cache, behind, server, queued, timer, held, stale, lagged, failed, changes>>

\* Mutant: the merge patch carries no resourceVersion.  A field the pass leaves
\* as it read it is not in the patch, and keeps what the live object has.
updateStatus_NoLock ==
    /\ pc = "updateStatus"
    /\ \/ /\ new = held.status
          /\ UNCHANGED <<live, behind>>
       \/ /\ new # held.status
          /\ LET sent(f) == IF new[f] = held.status[f] THEN live.status[f] ELSE new[f]
             IN  Write([live EXCEPT !.status =
                     [observed |-> sent("observed"), providers |-> sent("providers"),
                      providerCount |-> sent("providerCount"), ready |-> sent("ready"),
                      available |-> sent("available"), degraded |-> sent("degraded"),
                      count |-> [t \in States |-> IF new.count[t] = held.status.count[t]
                                                  THEN live.status.count[t] ELSE new.count[t]]]])
    /\ End
    /\ timer' = (timer \/ again)
    /\ UNCHANGED <<cache, server, queued, lagged, failed, changes>>

\* Mutant: a pass returns no RequeueAfter.
updateStatus_NoRequeue ==
    /\ pc = "updateStatus"
    /\ \/ /\ new = held.status
          /\ End
          /\ UNCHANGED <<live, behind, queued>>
       \/ /\ new # held.status
          /\ ~stale
          /\ Write([live EXCEPT !.status = new])
          /\ End
          /\ UNCHANGED queued
       \/ /\ new # held.status
          /\ stale
          /\ Retry
          /\ UNCHANGED <<live, behind>>
    /\ UNCHANGED <<timer, cache, server, lagged, failed, changes>>

\* A status equal to the one the pass read is not written, whatever the live
\* one is.  Another is written if the version it is based on is the latest;
\* otherwise the API server answers 409.
updateStatus ==
    /\ pc = "updateStatus"
    /\ \/ /\ new = held.status
          /\ timer' = (timer \/ again)
          /\ End
          /\ UNCHANGED <<live, behind, queued>>
       \/ /\ new # held.status
          /\ ~stale
          /\ Write([live EXCEPT !.status = new])
          /\ timer' = (timer \/ again)
          /\ End
          /\ UNCHANGED queued
       \/ /\ new # held.status
          /\ stale
          /\ Retry
          /\ UNCHANGED <<live, behind, timer>>
    /\ UNCHANGED <<cache, server, lagged, failed, changes>>

\* The API server does not answer a call, which is returned as an error.
CallFails ==
    /\ pc # "idle"
    /\ Change
    /\ Retry
    /\ failed' = TRUE
    /\ UNCHANGED <<live, cache, behind, server, timer, lagged>>

Requeue ==
    /\ timer
    /\ timer' = FALSE
    /\ queued' = TRUE
    /\ UNCHANGED <<live, cache, behind, server, pc, pass, lagged, failed, changes>>

-----------------------------------------------------------------------------
(* The informers *)

\* groupSelfWatchPredicate: what an update of the group's copy must change to
\* start a pass.
groupSelfWatch(old, obj) ==
    \/ old.generation # obj.generation
    \/ obj.phase # "live"

\* The informer catches up with the group.
Sync ==
    /\ behind
    /\ behind' = FALSE
    /\ cache' = live
    /\ queued' = (queued \/ groupSelfWatch(cache, live))
    /\ UNCHANGED <<live, server, timer, pc, pass, lagged, failed, changes>>

\* Mutant: only the updated object is mapped to its groups.
findGroupsForMCPServer_NewOnly(old, obj) ==
    cache.phase # "gone" /\ cache.spec.selector \in {obj.label} \cap Labels

\* Whether an event of a server, with its old and its new object, maps to the
\* group.  The mapping reads the group from the cache.
findGroupsForMCPServer(old, obj) ==
    cache.phase # "gone" /\ cache.spec.selector \in {old.label, obj.label} \cap Labels

\* A server is created, relabelled, deleted or changes state.
ServerChanges(s) ==
    /\ Change
    /\ \E m \in Member :
         /\ m # server[s]
         /\ m.label = Absent => m.state = "Initializing"
         /\ server' = [server EXCEPT ![s] = m]
         /\ queued' = (queued \/ findGroupsForMCPServer(server[s], m))
    /\ UNCHANGED <<live, cache, behind, timer, pc, pass, lagged, failed>>

-----------------------------------------------------------------------------
(* Users and crashes *)

EditSpec ==
    /\ Change
    /\ live.phase = "live"
    /\ \E s \in SpecSet \ {live.spec} :
         Write([live EXCEPT !.spec = s, !.generation = @ + 1])
    /\ stale' = (pc # "idle")
    /\ UNCHANGED <<cache, server, queued, timer, pc, held, new, again, lagged, failed>>

\* Without a finalizer a deleted group is gone at once.
DeleteGroup ==
    /\ Change
    /\ live.phase = "live"
    /\ Write([live EXCEPT !.phase = IF live.fin THEN "deleting" ELSE "gone",
                          !.generation = @ + 1])
    /\ stale' = (pc # "idle")
    /\ UNCHANGED <<cache, server, queued, timer, pc, held, new, again, lagged, failed>>

\* The operator restarts: the queue is filled from a new list.
Crash ==
    /\ Change
    /\ End
    /\ cache' = live
    /\ behind' = FALSE
    /\ queued' = (live.phase # "gone")
    /\ timer' = FALSE
    /\ lagged' = FALSE
    /\ failed' = FALSE
    /\ UNCHANGED <<live, server>>

-----------------------------------------------------------------------------
(* Specification *)

Init ==
    /\ live \in [phase : {"live"}, fin : BOOLEAN, generation : {1}, spec : SpecSet,
                 status : {NoStatus}]
    /\ cache = live
    /\ behind = FALSE
    /\ server \in Start
    /\ queued = TRUE
    /\ timer = FALSE
    /\ pc = "idle"
    /\ held = NoObject
    /\ stale = FALSE
    /\ new = NoStatus
    /\ again = FALSE
    /\ lagged = FALSE
    /\ failed = FALSE
    /\ changes = 0

Step == Reconcile \/ RemoveFinalizer \/ List \/ updateStatus

Next ==
    \/ Step
    \/ CallFails
    \/ Requeue
    \/ Sync
    \/ \E s \in Servers : ServerChanges(s)
    \/ EditSpec
    \/ DeleteGroup
    \/ Crash

Spec == Init /\ [][Next]_vars

\* A worker takes what is queued and finishes it, timers run out, and the
\* informer's watch delivers.  Users and failures owe nothing.
FairSpec == Spec /\ WF_vars(Step) /\ WF_vars(Requeue) /\ WF_vars(Sync)

-----------------------------------------------------------------------------
(* Properties *)

\* Every variable keeps its type: the object, its copy and the pass's are groups,
\* and every condition has one of the statuses Kubernetes knows.
TypeOK ==
    /\ live \in ObjectSet
    /\ cache \in ObjectSet
    /\ behind \in BOOLEAN
    /\ server \in [Servers -> Member]
    /\ queued \in BOOLEAN /\ timer \in BOOLEAN
    /\ pc \in Calls
    /\ held \in ObjectSet
    /\ stale \in BOOLEAN /\ again \in BOOLEAN
    /\ new \in StatusSet
    /\ lagged \in BOOLEAN /\ failed \in BOOLEAN
    /\ changes \in 0 .. MaxChanges

\* What a health policy asks of the members themselves: no counters, no rounding.
Meets(providers, policy) ==
    LET ready == {m \in providers : m[2] = "Ready"}
    IN  /\ providers # {}
        /\ policy.kind = "none" => ready # {}
        /\ policy.kind = "count" => Cardinality(ready) >= policy.min
        /\ policy.kind = "percent" => 100 * Cardinality(ready) >= policy.min * Cardinality(providers)

\* A status is the work of one pass: the counters add up to the member list that
\* stands beside them, and the conditions are those the members and the health
\* policy call for.  This is what the resourceVersion on the patch in
\* updateStatus is for.
OnePass ==
    LET st == live.status
    IN  st.available # "None" =>
            /\ st.providerCount = Cardinality(st.providers)
            /\ st.count = Tally(st.providers)
            /\ st.available = Truth(st.count["Ready"] > 0)
            /\ st.degraded = Truth(st.count["Degraded"] + st.count["Dead"] > 0)
            /\ st.ready = "True" => st.providerCount > 0
            /\ st.observed = live.generation /\ live.spec.selector # Invalid =>
                 (st.ready = "True" <=> Meets(st.providers, live.spec.policy))

\* A group at rest reports its members exactly, when the last pass had the
\* latest version and no call of it failed: every change of a member, of its
\* labels and of the group's spec starts a pass (findGroupsForMCPServer,
\* groupSelfWatchPredicate).
SettledExact ==
    (/\ live.phase = "live"
     /\ live.spec.selector # Invalid
     /\ live.generation = cache.generation
     /\ pc = "idle" /\ ~queued /\ ~lagged /\ ~failed)
    => live.status = Aggregate(live)

\* Once changes stop, a group ends up reporting its members exactly.  A pass on
\* an outdated copy may find its result equal to that copy and write nothing,
\* and no event follows; the RequeueAfter of reconcileNormal repairs it.
Converges ==
    <>[](live.phase = "live" /\ live.spec.selector # Invalid
         => live.status = Aggregate(live))

=============================================================================
