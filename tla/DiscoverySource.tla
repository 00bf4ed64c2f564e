-------------------------- MODULE DiscoverySource --------------------------
(***************************************************************************)
(* How the MCPDiscoverySource controller turns what it finds in the        *)
(* cluster into MCPServers, and takes them away again                      *)
(* (internal/controller/mcpdiscoverysource_controller.go).                 *)
(*                                                                         *)
(* The controller has one worker, so passes of different sources never     *)
(* overlap; users, the MCPServer controller and the garbage collector act  *)
(* between any two calls of a pass.  MCPServers are read from an informer, *)
(* whose copies lag and whose events wake a server's source.  A server's   *)
(* name is "<source>-<entry>", and two sources can make the same one ("a"  *)
(* and "b-c", "a-b" and "c").                                              *)
(***************************************************************************)
EXTENDS Naturals, FiniteSets

CONSTANTS
    Sources,     \* MCPDiscoverySources of one namespace
    Type,        \* Type[s]: where s looks
    Names,       \* server names; their order is that of sort.Strings
    BadNames,    \* those validateDiscoveredName refuses
    Finds,       \* Finds[s]: the names s can make
    Specs,       \* Specs[s]: the specs users give s
    MaxChanges   \* bound: edits, failures and crashes

Idle == "idle"     \* the worker has no pass
NoOne == "noOne"   \* no source

Types == {"Namespace", "ConfigMap", "Annotations", "ServiceDiscovery"}

\* What a scan lists or reads, by type.
Places(t) == CASE t = "Namespace"        -> {"namespaces"}
               [] t = "ConfigMap"        -> {"configmap"}
               [] t = "Annotations"      -> {"pods", "services"}
               [] t = "ServiceDiscovery" -> {"services"}

\* allow: the names the include and exclude patterns let through.  limit:
\* maxProviders, Cardinality(Names) when it is unset.  cross: configMapRef
\* names another namespace.
SpecSet == [authoritative : BOOLEAN, paused : BOOLEAN, controller : BOOLEAN,
            cross : BOOLEAN, allow : SUBSET Names, limit : Nat]

ASSUME SourcesAssumption ==
    /\ Idle \notin Sources /\ NoOne \notin Sources
    /\ Type \in [Sources -> Types]
ASSUME NamesAssumption ==
    /\ Names \subseteq Nat /\ IsFiniteSet(Names) /\ BadNames \subseteq Names
    /\ Finds \in [Sources -> SUBSET Names]
ASSUME SpecsAssumption ==
    \A s \in Sources : Specs[s] # {} /\ \A sp \in Specs[s] : sp \in SpecSet
ASSUME ChangesAssumption == MaxChanges \in Nat

VARIABLES
    phase,    \* phase[s]: the source object, from creation to its removal
    fin,      \* the sources that carry the finalizer
    spec,     \* spec[s]
    status,   \* status[s]: the Synced reason for the current generation
    world,    \* world[s][place]: the names that are there to be found
    usable,   \* usable[s]: the ConfigMap or the template can be used
    server,   \* server[n]: the MCPServer of that name
    cache,    \* cache[n]: the informer's copy of it
    queued,   \* the controller's work queue
    timer,    \* the sources a RequeueAfter will bring back
    worker,   \* the source of the pass under way
    pc,       \* the call it makes next
    seen,     \* the spec it read
    stale,    \* its source changed since it was read
    unread,   \* the places its scan failed to list
    found,    \* the names it discovered, filtered
    todo,     \* the names it has yet to create, update or delete
    out,      \* the Synced reason it will report
    missed,   \* servers with its source's label its list or its deletes did not reach
    left,     \* left[s]: what it had missed when it let s go
    changes   \* changes so far

object  == <<phase, fin, spec>>
cluster == <<world, usable>>
servers == <<server, cache>>
pass    == <<worker, pc, seen, stale, unread, found, todo, out, missed>>
vars    == <<phase, fin, spec, status, world, usable, server, cache, queued, timer,
             worker, pc, seen, stale, unread, found, todo, out, missed, left, changes>>

-----------------------------------------------------------------------------
(* State *)

Server   == [state : {"absent", "live", "terminating"},
             label : Sources \cup {NoOne}, owner : Sources \cup {NoOne}]
NoServer == [state |-> "absent", label |-> NoOne, owner |-> NoOne]

NoSpec == [authoritative |-> FALSE, paused |-> FALSE, controller |-> FALSE,
           cross |-> FALSE, allow |-> {}, limit |-> 0]

Reasons == {"none", "Paused", "CrossNamespaceRefused", "DiscoveryFailed",
            "PartialFailure", "SyncCompleted"}

existing == {s \in Sources : phase[s] \in {"live", "deleting"}}

\* The servers that carry the source's managed-by label, and those a List of the
\* label shows.
managed(s) == {n \in Names : server[n].state # "absent" /\ server[n].label = s}
listed(s)  == {n \in Names : cache[n].state # "absent" /\ cache[n].label = s}

\* Owns: an event of a server wakes the source that controls it, before or after.
Wakes(n) == {cache[n].owner, server[n].owner} \ {NoOne}

-----------------------------------------------------------------------------
(* Scans *)

\* err: the scan failed as a whole.  partial: it reports scan errors and goes
\* on with what it has.
Result(e, p, u, f) == [err |-> e, partial |-> p, unread |-> u, found |-> f]
ListFailed(u)  == Result(TRUE, FALSE, u, {})
Listed(s)      == Result(FALSE, FALSE, {}, UNION {world[s][p] : p \in Places(Type[s])})

\* A template without endpoint, or expressions that do not parse, are scan
\* errors: nothing is listed and the pass goes on.
discoverNamespace(s) ==
    IF usable[s] = "ok" THEN {Listed(s), ListFailed({"namespaces"})}
    ELSE {Result(FALSE, TRUE, {"namespaces"}, {})}

\* A ConfigMap that is missing or not YAML fails the scan, and so does a Get
\* that fails; one without the key is a scan error.
discoverConfigMap(s) ==
    {ListFailed({"configmap"})} \cup
    CASE usable[s] = "ok"    -> {Listed(s)}
      [] usable[s] = "noKey" -> {Result(FALSE, TRUE, {"configmap"}, {})}
      [] OTHER               -> {}

\* Pods and Services are listed one after the other; a list that fails is a
\* scan error and the other one still counts.
discoverAnnotations(s) ==
    {Result(FALSE, u # {}, u, UNION {world[s][p] : p \in Places(Type[s]) \ u}) :
        u \in SUBSET Places(Type[s])}

discoverServices(s) == {Listed(s), ListFailed({"services"})}

discoverProviders(s) == CASE Type[s] = "Namespace"        -> discoverNamespace(s)
                          [] Type[s] = "ConfigMap"        -> discoverConfigMap(s)
                          [] Type[s] = "Annotations"      -> discoverAnnotations(s)
                          [] Type[s] = "ServiceDiscovery" -> discoverServices(s)

\* Mutant: one name too many.
applyFilters_OffByOne(f, sp) ==
    {n \in f \cap sp.allow : Cardinality({m \in f \cap sp.allow : m < n}) <= sp.limit}

\* The patterns, then the first limit names in order.
applyFilters(f, sp) ==
    {n \in f \cap sp.allow : Cardinality({m \in f \cap sp.allow : m < n}) < sp.limit}

-----------------------------------------------------------------------------
(* Parts of a pass *)

Change == changes < MaxChanges /\ changes' = changes + 1

\* The pass returns.
End == /\ worker' = Idle /\ pc' = "idle" /\ seen' = NoSpec /\ stale' = FALSE
       /\ unread' = {} /\ found' = {} /\ todo' = {} /\ out' = "none" /\ missed' = {}

\* Mutant: the error is logged and dropped.
Retry_Dropped == End /\ UNCHANGED <<object, status, cluster, servers, queued, timer, left>>

\* The pass returns an error: the queue brings the source back.
Retry == /\ End
         /\ queued' = queued \cup {worker}
         /\ UNCHANGED <<object, status, cluster, servers, timer, left>>

\* An Update of the source, which carries the resourceVersion the pass read.
UpdateFails == \/ stale /\ Retry /\ UNCHANGED changes
               \/ Change /\ Retry

Wrong == out' = "PartialFailure"

-----------------------------------------------------------------------------
(* Reconcile *)

\* reconcileDelete leaves the servers of an Additive source without ownership.
DelFirst(sp) == IF sp.authoritative \/ sp.controller THEN "delList" ELSE "removeFinalizer"

\* reconcileNormal: paused first, then the refusal of another namespace.
First(s, sp) == CASE sp.paused -> "paused"
                  [] ~sp.paused /\ sp.cross /\ Type[s] = "ConfigMap" -> "refused"
                  [] OTHER -> "scan"

\* Mutant: the scan does not wait for the finalizer.
FirstCall_NoFinalizer(s) ==
    IF phase[s] = "deleting" THEN DelFirst(spec[s]) ELSE First(s, spec[s])

FirstCall(s) == IF phase[s] = "deleting" THEN DelFirst(spec[s])
                ELSE IF s \in fin THEN First(s, spec[s]) ELSE "addFinalizer"

\* A source that is gone is ignored.
Reconcile(s) ==
    /\ worker = Idle /\ s \in queued
    /\ queued' = queued \ {s}
    /\ IF s \in existing
       THEN worker' = s /\ pc' = FirstCall(s) /\ seen' = spec[s]
       ELSE UNCHANGED <<worker, pc, seen>>
    /\ UNCHANGED <<object, status, cluster, servers, timer, stale, unread, found,
                   todo, out, missed, left, changes>>

\* The update's event wakes the source again: no predicate filters it.
AddFinalizer ==
    /\ pc = "addFinalizer"
    /\ \/ /\ ~stale
          /\ fin' = fin \cup {worker}
          /\ pc' = First(worker, seen)
          /\ queued' = queued \cup {worker}
          /\ UNCHANGED <<phase, spec, status, cluster, servers, timer, worker, seen,
                         stale, unread, found, todo, out, missed, left, changes>>
       \/ UpdateFails

\* What follows the names still to be created or updated.
AfterManage(names) == IF names # {} THEN "manage"
                      ELSE IF seen.authoritative THEN "sync" ELSE "writeStatus"

Scan ==
    /\ pc = "scan"
    /\ \E r \in discoverProviders(worker) :
          /\ unread' = r.unread
          /\ found' = applyFilters(r.found, seen)
          /\ todo' = found'
          /\ out' = CASE r.err                -> "DiscoveryFailed"
                      [] ~r.err /\ r.partial  -> "PartialFailure"
                      [] ~r.err /\ ~r.partial -> "SyncCompleted"
          /\ pc' = IF r.err THEN "writeStatus" ELSE AfterManage(found')
          /\ IF r.unread # {} /\ usable[worker] = "ok" THEN Change ELSE UNCHANGED changes
    /\ UNCHANGED <<object, status, cluster, servers, queued, timer, worker, seen,
                   stale, missed, left>>

\* Done with one name of the loop.
Managed(n) == /\ todo' = todo \ {n}
              /\ pc' = AfterManage(todo')

\* Mutant: the managed-by label is left out.
Applied_Unlabelled(n) == [state |-> "live", label |-> "",
                          owner |-> IF seen.controller THEN worker ELSE cache[n].owner]

\* createOrUpdateMCPServer: an existing server of that name is taken over,
\* unless both its controller and this source would control it.
Applied(n) == [state |-> IF cache[n].state = "absent" THEN "live" ELSE cache[n].state,
               label |-> worker,
               owner |-> IF seen.controller THEN worker ELSE cache[n].owner]
Controlled(n) == seen.controller /\ cache[n].owner \notin {NoOne, worker}

\* CreateOrUpdate starts from the informer's copy.  The write is refused when that
\* is not the server any more, and left out when the copy is as it should be.
createOrUpdateMCPServer ==
    /\ pc = "manage"
    /\ \E n \in todo :
          /\ Managed(n)
          /\ \/ /\ n \notin BadNames /\ ~Controlled(n)
                /\ \/ cache[n] = server[n] /\ server' = [server EXCEPT ![n] = Applied(n)]
                   \/ cache[n] = Applied(n) /\ UNCHANGED server
                /\ UNCHANGED <<out, changes>>
             \/ /\ n \in BadNames \/ Controlled(n) \/ cache[n] # server[n]
                /\ Wrong
                /\ UNCHANGED <<server, changes>>
             \/ /\ Change /\ Wrong
                /\ UNCHANGED server
    /\ UNCHANGED <<object, status, cluster, cache, queued, timer, worker, seen, stale,
                   unread, found, missed, left>>

\* Mutant: a list that fails is not an error.
authoritativeSync_Quiet ==
    /\ pc = "sync"
    /\ \/ /\ todo' = listed(worker) \ found
          /\ pc' = IF todo' = {} THEN "writeStatus" ELSE "delete"
          /\ missed' = managed(worker) \ listed(worker)
          /\ UNCHANGED changes
       \/ Change /\ pc' = "writeStatus" /\ UNCHANGED <<todo, missed>>
    /\ UNCHANGED <<object, status, cluster, servers, queued, timer, worker, seen, stale,
                   unread, found, out, left>>

\* authoritativeSync lists what the source manages and deletes the rest.
authoritativeSync ==
    /\ pc = "sync"
    /\ \/ /\ todo' = listed(worker) \ found
          /\ pc' = IF todo' = {} THEN "writeStatus" ELSE "delete"
          /\ missed' = managed(worker) \ listed(worker)
          /\ UNCHANGED <<out, changes>>
       \/ /\ Change /\ Wrong
          /\ pc' = "writeStatus"
          /\ UNCHANGED <<todo, missed>>
    /\ UNCHANGED <<object, status, cluster, servers, queued, timer, worker, seen, stale,
                   unread, found, left>>

\* A Delete marks the server; its own finalizer keeps it for a while.
Terminated(n) == IF server[n].state = "live"
                 THEN [server EXCEPT ![n].state = "terminating"] ELSE server

\* One Delete of authoritativeSync or of reconcileDelete, by name, whoever's the
\* server is by now.  reconcileDelete only logs a failure.
DeleteServer ==
    /\ pc \in {"delete", "delDelete"}
    /\ \E n \in todo :
          /\ todo' = todo \ {n}
          /\ \/ /\ server' = Terminated(n)
                /\ UNCHANGED <<out, missed, changes>>
             \/ /\ Change
                /\ IF pc = "delete" THEN Wrong /\ UNCHANGED missed
                   ELSE missed' = missed \cup {n} /\ UNCHANGED out
                /\ UNCHANGED server
    /\ pc' = IF todo' # {} THEN pc
             ELSE IF pc = "delete" THEN "writeStatus" ELSE "removeFinalizer"
    /\ UNCHANGED <<object, status, cluster, cache, queued, timer, worker, seen, stale, unread,
                   found, left>>

\* What the pass reports, and whether it asks to be run again later.
Reported == CASE pc = "paused"  -> "Paused"
              [] pc = "refused" -> "CrossNamespaceRefused"
              [] OTHER          -> out

\* Mutant: a failed scan is left to the next event.
Requeued_Failed(reason) == reason \notin {"CrossNamespaceRefused", "DiscoveryFailed"}

Requeued(reason) == reason # "CrossNamespaceRefused"

\* writeStatus sends nothing when nothing changed.  A sync records its time and
\* duration, so it always did, and its event wakes the source.
Unwritten(reason) == /\ reason \in {"Paused", "CrossNamespaceRefused", "DiscoveryFailed"}
                     /\ status[worker] = reason

WriteStatus ==
    /\ pc \in {"paused", "refused", "writeStatus"}
    /\ \/ /\ ~stale \/ Unwritten(Reported)
          /\ status' = [status EXCEPT ![worker] = IF Unwritten(Reported) THEN @ ELSE Reported]
          /\ queued' = IF Unwritten(Reported) THEN queued ELSE queued \cup {worker}
          /\ timer' = IF Requeued(Reported) THEN timer \cup {worker} ELSE timer
          /\ End
          /\ UNCHANGED <<object, cluster, servers, left, changes>>
       \/ ~Unwritten(Reported) /\ UpdateFails

-----------------------------------------------------------------------------
(* reconcileDelete *)

\* A list that fails is only logged.
DelList ==
    /\ pc = "delList"
    /\ \/ /\ todo' = listed(worker)
          /\ pc' = IF todo' = {} THEN "removeFinalizer" ELSE "delDelete"
          /\ missed' = managed(worker) \ listed(worker)
          /\ UNCHANGED changes
       \/ /\ Change
          /\ pc' = "removeFinalizer"
          /\ missed' = managed(worker)
          /\ UNCHANGED todo
    /\ UNCHANGED <<object, status, cluster, servers, queued, timer, worker, seen, stale,
                   unread, found, out, left>>

RemoveFinalizer ==
    /\ pc = "removeFinalizer"
    /\ \/ /\ ~stale
          /\ fin' = fin \ {worker}
          /\ phase' = [phase EXCEPT ![worker] = "gone"]
          /\ status' = [status EXCEPT ![worker] = "none"]
          /\ queued' = queued \cup {worker}
          /\ left' = [left EXCEPT ![worker] = missed]
          /\ End
          /\ UNCHANGED <<spec, cluster, servers, timer, changes>>
       \/ UpdateFails

Step == \/ AddFinalizer \/ Scan \/ createOrUpdateMCPServer \/ authoritativeSync
        \/ DeleteServer \/ WriteStatus \/ DelList \/ RemoveFinalizer

-----------------------------------------------------------------------------
(* Users, the cluster and the operator's process *)

UserCreate(s) ==
    /\ phase[s] = "none"
    /\ phase' = [phase EXCEPT ![s] = "live"]
    /\ spec' \in {[spec EXCEPT ![s] = sp] : sp \in Specs[s]}
    /\ queued' = queued \cup {s}
    /\ UNCHANGED <<fin, status, cluster, servers, timer, pass, left, changes>>

\* The conditions written so far are of an older generation.
UserEdit(s) ==
    /\ Change
    /\ phase[s] \in {"live", "deleting"}
    /\ spec' \in {[spec EXCEPT ![s] = sp] : sp \in Specs[s] \ {spec[s]}}
    /\ status' = [status EXCEPT ![s] = "none"]
    /\ stale' = (stale \/ worker = s)
    /\ queued' = queued \cup {s}
    /\ UNCHANGED <<phase, fin, cluster, servers, timer, worker, pc, seen, unread, found,
                   todo, out, missed, left>>

\* Without a finalizer the object is gone at once.
UserDelete(s) ==
    /\ phase[s] = "live"
    /\ phase' = [phase EXCEPT ![s] = IF s \in fin THEN "deleting" ELSE "gone"]
    /\ stale' = (stale \/ worker = s)
    /\ queued' = queued \cup {s}
    /\ UNCHANGED <<fin, spec, status, cluster, servers, timer, worker, pc, seen, unread,
                   found, todo, out, missed, left, changes>>

\* Nothing watches what a scan reads.
WorldChange(s) ==
    /\ Change
    /\ \/ /\ \E p \in Places(Type[s]), n \in Finds[s] :
                world' = [world EXCEPT ![s][p] = IF n \in @ THEN @ \ {n} ELSE @ \cup {n}]
          /\ UNCHANGED usable
       \/ /\ Type[s] \in {"Namespace", "ConfigMap"}
          /\ usable' \in {[usable EXCEPT ![s] = u] : u \in {"ok", "noKey", "missing"} \ {usable[s]}}
          /\ UNCHANGED world
    /\ UNCHANGED <<object, status, servers, queued, timer, pass, left>>

\* A user makes a server of that name by hand, or deletes one.
UserServer(n) ==
    /\ Change
    /\ \/ /\ server[n].state = "absent"
          /\ server' = [server EXCEPT ![n].state = "live"]
       \/ /\ server[n].state = "live"
          /\ server' = Terminated(n)
    /\ UNCHANGED <<object, status, cluster, cache, queued, timer, pass, left>>

\* The MCPServer controller removes its finalizer (Registration).
ServerGone(n) ==
    /\ server[n].state = "terminating"
    /\ server' = [server EXCEPT ![n] = NoServer]
    /\ UNCHANGED <<object, status, cluster, cache, queued, timer, pass, left, changes>>

\* The garbage collector deletes a server whose controller is gone.
GarbageCollect(n) ==
    /\ server[n].state = "live" /\ server[n].owner \notin existing \cup {NoOne}
    /\ server' = Terminated(n)
    /\ UNCHANGED <<object, status, cluster, cache, queued, timer, pass, left, changes>>

\* The informer learns what became of a server.
Sync(n) ==
    /\ cache[n] # server[n]
    /\ cache' = [cache EXCEPT ![n] = server[n]]
    /\ queued' = queued \cup Wakes(n)
    /\ UNCHANGED <<object, status, cluster, server, timer, pass, left, changes>>

\* A RequeueAfter comes due.
Fire(s) ==
    /\ s \in timer
    /\ timer' = timer \ {s}
    /\ queued' = queued \cup {s}
    /\ UNCHANGED <<object, status, cluster, servers, pass, left, changes>>

\* A restart loses pass and timers, and the first lists queue every source and fill
\* the informers' caches.
Crash ==
    /\ Change
    /\ End
    /\ queued' = existing
    /\ timer' = {}
    /\ cache' = server
    /\ UNCHANGED <<object, status, cluster, server, left>>

Environment == \/ \E s \in Sources : \/ UserCreate(s) \/ UserEdit(s) \/ UserDelete(s)
                                     \/ WorldChange(s) \/ Fire(s)
               \/ \E n \in Names : \/ UserServer(n) \/ ServerGone(n) \/ GarbageCollect(n)
                                   \/ Sync(n)
               \/ Crash

Init ==
    /\ phase = [s \in Sources |-> "none"] /\ fin = {}
    /\ spec = [s \in Sources |-> NoSpec]
    /\ status = [s \in Sources |-> "none"]
    /\ world = [s \in Sources |-> [p \in Places(Type[s]) |-> Finds[s]]]
    /\ usable = [s \in Sources |-> "ok"]
    /\ server = [n \in Names |-> NoServer] /\ cache = server
    /\ queued = {} /\ timer = {}
    /\ worker = Idle /\ pc = "idle" /\ seen = NoSpec /\ stale = FALSE
    /\ unread = {} /\ found = {} /\ todo = {} /\ out = "none"
    /\ missed = {} /\ left = [s \in Sources |-> {}] /\ changes = 0

Next == (\E s \in Sources : Reconcile(s)) \/ Step \/ Environment

Spec == Init /\ [][Next]_vars

\* The queue serves every source, calls return, timers come due, the informer
\* catches up, and the MCPServer controller and the garbage collector do their part.
FairSpec == /\ Spec
            /\ WF_vars(Step)
            /\ \A s \in Sources : SF_vars(Reconcile(s)) /\ WF_vars(Fire(s))
            /\ \A n \in Names : /\ WF_vars(ServerGone(n)) /\ WF_vars(GarbageCollect(n))
                                /\ WF_vars(Sync(n))

-----------------------------------------------------------------------------
(* Properties *)

\* The type invariant: every server carries a source's label or none, and every
\* pass reports one of the Synced reasons.
TypeOK ==
    /\ phase \in [Sources -> {"none", "live", "deleting", "gone"}]
    /\ fin \subseteq Sources
    /\ \A s \in Sources : spec[s] \in Specs[s] \cup {NoSpec}
    /\ seen \in (UNION {Specs[s] : s \in Sources}) \cup {NoSpec}
    /\ status \in [Sources -> Reasons] /\ out \in Reasons
    /\ \A s \in Sources : world[s] \in [Places(Type[s]) -> SUBSET Finds[s]]
    /\ usable \in [Sources -> {"ok", "noKey", "missing"}]
    /\ server \in [Names -> Server] /\ cache \in [Names -> Server]
    /\ queued \subseteq Sources /\ timer \subseteq Sources
    /\ missed \subseteq Names /\ left \in [Sources -> SUBSET Names]
    /\ worker \in Sources \cup {Idle}
    /\ pc \in {"idle", "addFinalizer", "paused", "refused", "scan", "manage", "sync",
               "delete", "writeStatus", "delList", "delDelete", "removeFinalizer"}
    /\ stale \in BOOLEAN /\ unread \subseteq UNION {Places(t) : t \in Types}
    /\ found \subseteq Names /\ todo \subseteq Names
    /\ changes \in 0..MaxChanges

\* The servers a source still runs.
live(s) == {n \in managed(s) : server[n].state = "live"}

\* What a sync reports as completed it has read in full, and an Authoritative one is
\* all there is (reconcileNormal, authoritativeSync): every live server with its label
\* is one it discovered, under a valid name, or one the list did not show yet, and
\* there are at most maxProviders, although servers come and go while the pass lists,
\* creates and deletes.
CompletedIsExact ==
    pc = "writeStatus" /\ out = "SyncCompleted" =>
        /\ unread = {}
        /\ Cardinality(found) <= seen.limit
        /\ seen.authoritative => live(worker) \subseteq (found \ BadNames) \cup missed

\* A source that is gone left no live server behind (reconcileDelete): whatever was
\* edited, refused or lost on the way, unless its last spec is Additive without
\* ownership, and except for those the last list of its label did not show or could
\* not be had for, and those whose Delete failed.
LeavesNothing ==
    \A s \in Sources :
        phase[s] = "gone" => \/ ~spec[s].authoritative /\ ~spec[s].controller
                            \/ live(s) \subseteq left[s]

\* The source is as its user wants it: what is there and allowed has a server,
\* and an Authoritative source has no other.
Wanted(s) == applyFilters(UNION {world[s][p] : p \in Places(Type[s])}, spec[s]) \ BadNames
Alone(s)  == Finds[s] \ UNION {Finds[t] : t \in Sources \ {s}}
Settled(s) ==
    /\ Wanted(s) \cap Alone(s) \subseteq live(s)
    /\ spec[s].authoritative => live(s) \subseteq Wanted(s)

Active(s) == /\ phase[s] = "live" /\ usable[s] = "ok"
             /\ ~spec[s].paused /\ ~(spec[s].cross /\ Type[s] = "ConfigMap")

\* Once the world stands still every active source settles, after whatever failed
\* before: nothing watches what a scan reads, so it is the requeue each pass asks
\* for (reconcileNormal) that gets it there.
Converges == \A s \in Sources : <>[](Active(s) => Settled(s))

\* A deleted source goes (reconcileDelete), although lists, deletes and updates on
\* the way fail.
DeletionCompletes == \A s \in Sources : phase[s] = "deleting" ~> phase[s] = "gone"

\* spec.refreshInterval is the "Rescan interval": between two refreshes the
\* controller has nothing to do.
Rests == []<>(worker = Idle /\ queued = {})
=============================================================================
