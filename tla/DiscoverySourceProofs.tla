------------------------ MODULE DiscoverySourceProofs ------------------------
(***************************************************************************)
(* Theorems about DiscoverySource, for any sources of any types, any names *)
(* and specs, and any number of changes.                                   *)
(***************************************************************************)
EXTENDS DiscoverySource, FiniteSetTheorems, TLAPS

-----------------------------------------------------------------------------
(* The inductive invariants *)

\* The calls of reconcileDelete, and those that work on what a scan found.
DeleteCalls == {"delList", "delDelete", "removeFinalizer"}
SyncCalls   == {"manage", "sync", "delete", "writeStatus"}

\* The type invariant, with the shape of the functions it only bounds and the worker
\* that goes with a call.
TypeInv ==
    /\ TypeOK
    /\ spec \in [Sources -> SpecSet]
    /\ world = [s \in Sources |-> world[s]]
    /\ pc = "idle" <=> worker = Idle

\* The finalizer is there before a pass writes a server, and until reconcileDelete is
\* done; a pass whose source was not touched works on its present spec.
SourceInv ==
    /\ \A s \in Sources : /\ phase[s] \in {"none", "gone"} => s \notin fin
                          /\ phase[s] = "deleting" => s \in fin
    /\ pc = "idle" => ~stale
    /\ pc # "idle" /\ ~stale => seen = spec[worker]
    /\ pc = "addFinalizer" /\ ~stale => phase[worker] = "live"
    /\ pc \notin {"idle", "addFinalizer"} => worker \in fin
    /\ pc \in DeleteCalls => phase[worker] = "deleting"

\* A label is a source's that has the finalizer or had it.
LabelInv ==
    /\ \A n \in Names : server[n].state = "absent" => server[n].label = NoOne
    /\ \A s \in Sources : s \notin fin /\ phase[s] # "gone" =>
          \A n \in Names : server[n].label # s

\* What reconcileDelete has yet to delete, and what is left once it is done.
DeleteInv ==
    /\ pc = "delDelete" => live(worker) \subseteq todo \cup missed
    /\ pc = "removeFinalizer" => \/ ~seen.authoritative /\ ~seen.controller
                                 \/ live(worker) \subseteq missed
    /\ \A s \in Sources : phase[s] = "gone" => \/ ~spec[s].authoritative /\ ~spec[s].controller
                                               \/ live(s) \subseteq left[s]

\* A sync that nothing went wrong with so far has read every place and has every bad
\* name still ahead of it, and authoritativeSync every server that is not of the scan
\* and that its list showed.
SyncInv ==
    /\ pc \in SyncCalls => Cardinality(found) <= seen.limit
    /\ out = "SyncCompleted" =>
          /\ pc \in SyncCalls => unread = {}
          /\ pc = "manage" => found \cap BadNames \subseteq todo
          /\ pc \in {"sync", "delete"} => found \cap BadNames = {}
          /\ pc = "delete" => live(worker) \subseteq found \cup todo \cup missed
          /\ pc = "writeStatus" /\ seen.authoritative =>
                live(worker) \subseteq (found \ BadNames) \cup missed

-----------------------------------------------------------------------------
(* What a scan gives *)

\* Every type has its places.
LEMMA PlaceFacts ==
    /\ Places("Namespace") = {"namespaces"}
    /\ Places("ConfigMap") = {"configmap"}
    /\ Places("Annotations") = {"pods", "services"}
    /\ Places("ServiceDiscovery") = {"services"}
  BY DEF Places

\* The filters let through at most maxProviders names, however many match: the rank of a
\* name that passes is below the limit, and no two names have one rank (applyFilters).
LEMMA FilterFacts ==
    ASSUME NEW f \in SUBSET Names, NEW sp \in SpecSet
    PROVE  /\ applyFilters(f, sp) \subseteq f
           /\ Cardinality(applyFilters(f, sp)) \in Nat
           /\ Cardinality(applyFilters(f, sp)) <= sp.limit
  <1> DEFINE F == f \cap sp.allow
             Below(n) == {m \in F : m < n}
             A == applyFilters(f, sp)
             r == [n \in A |-> Cardinality(Below(n))]
  <1>1. IsFiniteSet(F) /\ F \subseteq Nat
    BY NamesAssumption, FS_Subset
  <1>2. A \subseteq F /\ \A n \in A : Cardinality(Below(n)) < sp.limit
    BY DEF applyFilters
  <1>3. IsFiniteSet(A) /\ Cardinality(A) \in Nat
    BY <1>1, <1>2, FS_Subset, FS_CardinalityType
  <1>4. ASSUME NEW n PROVE IsFiniteSet(Below(n)) /\ Cardinality(Below(n)) \in Nat
    BY <1>1, FS_Subset, FS_CardinalityType
  <1>5. sp.limit \in Nat
    BY DEF SpecSet
  <1>6. r \in [A -> 0..(sp.limit - 1)]
    <2>1. \A n \in A : Cardinality(Below(n)) \in 0..(sp.limit - 1)
      BY <1>2, <1>4, <1>5
    <2> QED
      BY <2>1
  <1>7. ASSUME NEW m \in A, NEW n \in A, m < n PROVE r[m] # r[n]
    <2>1. Below(m) \in SUBSET Below(n) /\ m \in Below(n) /\ m \notin Below(m)
      BY <1>1, <1>2, <1>7
    <2>2. Cardinality(Below(m)) # Cardinality(Below(n))
      BY <1>4, <2>1, FS_Subset
    <2> QED
      BY <2>2
  <1>8. ASSUME NEW m \in A, NEW n \in A, m # n PROVE r[m] # r[n]
    <2>1. m \in Nat /\ n \in Nat
      BY <1>1, <1>2
    <2> HIDE DEF r, A
    <2> QED
      BY <1>7, <1>8, <2>1
  <1>9. IsFiniteSet(0..(sp.limit - 1)) /\ Cardinality(0..(sp.limit - 1)) = sp.limit
    <2>1. 0 \in Int /\ sp.limit - 1 \in Int
      BY <1>5
    <2>2. /\ IsFiniteSet(0..(sp.limit - 1))
          /\ Cardinality(0..(sp.limit - 1)) =
                IF 0 > sp.limit - 1 THEN 0 ELSE sp.limit - 1 - 0 + 1
      BY <2>1, FS_Interval
    <2> QED
      BY <1>5, <2>2
  <1>10. ~(sp.limit < Cardinality(A))
    <2> HIDE DEF r, A
    <2> SUFFICES ASSUME sp.limit < Cardinality(A) PROVE FALSE
      OBVIOUS
    <2> DEFINE T == 0..(sp.limit - 1)
    <2>1. IsFiniteSet(T) /\ Cardinality(T) < Cardinality(A) /\ r \in [A -> T]
      BY <1>6, <1>9
    <2> HIDE DEF T
    <2>2. \E x, y \in A : x # y /\ r[x] = r[y]
      BY <1>3, <2>1, FS_PigeonHole
    <2> QED
      BY <1>8, <2>2
  <1> HIDE DEF A
  <1>11. Cardinality(A) <= sp.limit
    BY <1>3, <1>5, <1>10
  <1> USE DEF A
  <1> QED
    BY <1>2, <1>3, <1>11

\* A scan reads names its source can make and misses places of its type; one that reports
\* nothing has missed none.
LEMMA ScanFacts ==
    ASSUME TypeOK, NEW s \in Sources, NEW r \in discoverProviders(s)
    PROVE  /\ r.err \in BOOLEAN /\ r.partial \in BOOLEAN
           /\ r.unread \subseteq {"namespaces", "configmap", "pods", "services"}
           /\ r.found \subseteq Names
           /\ ~r.err /\ ~r.partial => r.unread = {}
  <1>1. /\ Type[s] \in {"Namespace", "ConfigMap", "Annotations", "ServiceDiscovery"}
        /\ Finds[s] \subseteq Names
    BY SourcesAssumption, NamesAssumption DEF Types
  <1>2. world[s] \in [Places(Type[s]) -> SUBSET Finds[s]]
    BY DEF TypeOK
  <1>3. \A P \in SUBSET Places(Type[s]) : UNION {world[s][p] : p \in P} \subseteq Names
    BY <1>1, <1>2
  <1>4. /\ Listed(s).err = FALSE /\ Listed(s).partial = FALSE
        /\ Listed(s).unread = {} /\ Listed(s).found \subseteq Names
    BY <1>3 DEF Listed, Result
  <1>5. \A u : /\ ListFailed(u).err = TRUE /\ ListFailed(u).partial = FALSE
               /\ ListFailed(u).unread = u /\ ListFailed(u).found = {}
    BY DEF ListFailed, Result
  <1>6. \A u : LET q == Result(FALSE, TRUE, u, {})
                IN  q.err = FALSE /\ q.partial = TRUE /\ q.unread = u /\ q.found = {}
    BY DEF Result
  <1>7. CASE Type[s] = "Namespace"
    <2>1. r \in discoverNamespace(s)
      BY <1>7 DEF discoverProviders
    <2>2. \/ r = Listed(s) \/ r = ListFailed({"namespaces"})
          \/ r = Result(FALSE, TRUE, {"namespaces"}, {})
      BY <2>1 DEF discoverNamespace
    <2>3. CASE r = Listed(s)
      BY <1>4, <1>7, <2>3
    <2>4. CASE r = ListFailed({"namespaces"})
      BY <1>7, <1>5, <2>4
    <2>5. CASE r = Result(FALSE, TRUE, {"namespaces"}, {})
      BY <1>7, <1>6, <2>5
    <2> QED
      BY <2>2, <2>3, <2>4, <2>5
  <1>8. CASE Type[s] = "ConfigMap"
    <2>1. r \in discoverConfigMap(s)
      BY <1>8 DEF discoverProviders
    <2>2. \/ r = Listed(s) \/ r = ListFailed({"configmap"})
          \/ r = Result(FALSE, TRUE, {"configmap"}, {})
      BY <2>1 DEF discoverConfigMap
    <2>3. CASE r = Listed(s)
      BY <1>4, <2>3
    <2>4. CASE r = ListFailed({"configmap"})
      BY <1>5, <2>4
    <2>5. CASE r = Result(FALSE, TRUE, {"configmap"}, {})
      BY <1>6, <2>5
    <2> QED
      BY <2>2, <2>3, <2>4, <2>5
  <1>9. CASE Type[s] = "Annotations"
    <2>1. r \in discoverAnnotations(s)
      BY <1>9 DEF discoverProviders
    <2>2. PICK u \in SUBSET Places(Type[s]) :
             r = Result(FALSE, u # {}, u, UNION {world[s][p] : p \in Places(Type[s]) \ u})
      BY <2>1 DEF discoverAnnotations
    <2>3. Places(Type[s]) = {"pods", "services"}
      BY <1>9, PlaceFacts
    <2>4. UNION {world[s][p] : p \in Places(Type[s]) \ u} \subseteq Names
      BY <1>3
    <2>5. r.err = FALSE /\ r.partial = (u # {}) /\ r.unread = u /\ r.found \subseteq Names
      BY <2>2, <2>4 DEF Result
    <2> QED
      BY <1>9, <2>3, <2>5
  <1>10. CASE Type[s] = "ServiceDiscovery"
    <2>1. r \in discoverServices(s)
      BY <1>10 DEF discoverProviders
    <2> QED
      BY <1>4, <1>5, <2>1 DEF discoverServices
  <1> QED
    BY <1>1, <1>7, <1>8, <1>9, <1>10

-----------------------------------------------------------------------------
(* Type correctness *)

\* Every call but idle.
PassCalls == {"addFinalizer", "paused", "refused", "scan", "manage", "sync", "delete",
              "writeStatus", "delList", "delDelete", "removeFinalizer"}

\* The variables of the pass.
PassType ==
    /\ seen \in (UNION {Specs[s] : s \in Sources}) \cup {NoSpec}
    /\ out \in Reasons
    /\ worker \in Sources \cup {Idle}
    /\ pc \in PassCalls \cup {"idle"}
    /\ stale \in BOOLEAN
    /\ unread \subseteq {"namespaces", "configmap", "pods", "services"}
    /\ found \subseteq Names /\ todo \subseteq Names /\ missed \subseteq Names
    /\ pc = "idle" <=> worker = Idle

\* The other variables.
WorldType ==
    /\ phase \in [Sources -> {"none", "live", "deleting", "gone"}]
    /\ fin \subseteq Sources
    /\ \A s \in Sources : spec[s] \in Specs[s] \cup {NoSpec}
    /\ spec \in [Sources -> SpecSet]
    /\ status \in [Sources -> Reasons]
    /\ \A s \in Sources : world[s] \in [Places(Type[s]) -> SUBSET Finds[s]]
    /\ world = [s \in Sources |-> world[s]]
    /\ usable \in [Sources -> {"ok", "noKey", "missing"}]
    /\ server \in [Names -> Server] /\ cache \in [Names -> Server]
    /\ queued \subseteq Sources /\ timer \subseteq Sources
    /\ left \in [Sources -> SUBSET Names]
    /\ changes \in 0..MaxChanges

\* The places of all types.
LEMMA AllPlaces ==
    UNION {Places(t) : t \in Types} = {"namespaces", "configmap", "pods", "services"}
  BY PlaceFacts DEF Types

\* The type invariant is the two together, now and after a step.
LEMMA TypeParts ==
    (TypeInv <=> PassType /\ WorldType) /\ (TypeInv <=> PassType /\ WorldType)'
  BY AllPlaces DEF TypeInv, TypeOK, PassType, WorldType, PassCalls

\* The specs there are are specs.
LEMMA SpecFacts ==
    /\ NoSpec \in SpecSet
    /\ \A s \in Sources : Specs[s] \subseteq SpecSet
    /\ TypeOK => seen \in SpecSet
  <1>1. NoSpec \in SpecSet
    BY DEF NoSpec, SpecSet
  <1>2. \A s \in Sources : Specs[s] \subseteq SpecSet
    BY SpecsAssumption
  <1>3. TypeOK => seen \in (UNION {Specs[s] : s \in Sources}) \cup {NoSpec}
    BY DEF TypeOK
  <1> QED
    BY <1>1, <1>2, <1>3

\* The calls each decision of a pass can lead to.
LEMMA CallNames ==
    /\ \A s, sp : First(s, sp) \in {"paused", "refused", "scan"}
    /\ \A sp : DelFirst(sp) \in {"delList", "removeFinalizer"}
    /\ \A S : AfterManage(S) \in {"manage", "sync", "writeStatus"}
    /\ \A s : FirstCall(s) \in {"addFinalizer", "paused", "refused", "scan", "delList",
                                "removeFinalizer"}
  BY DEF First, DelFirst, AfterManage, FirstCall

\* An absent server is a server, and so is what a pass applies and what a Delete leaves.
LEMMA ServerFacts ==
    ASSUME WorldType, NEW n \in Names
    PROVE  /\ NoServer \in Server
           /\ worker \in Sources => Applied(n) \in Server
           /\ Terminated(n) \in [Names -> Server]
           /\ [server EXCEPT ![n].state = "live"] \in [Names -> Server]
  <1>1. server[n] \in Server /\ cache[n] \in Server
    BY DEF WorldType
  <1>2. NoServer \in Server
    BY DEF NoServer, Server
  <1>3. worker \in Sources => Applied(n) \in Server
    BY <1>1 DEF Applied, Server
  <1>6. server \in [Names -> Server]
    BY DEF WorldType
  <1>4. Terminated(n) \in [Names -> Server]
    BY <1>6 DEF Terminated, Server
  <1>5. [server EXCEPT ![n].state = "live"] \in [Names -> Server]
    BY <1>6 DEF Server
  <1> QED
    BY <1>2, <1>3, <1>4, <1>5

\* An event of a server wakes sources.
LEMMA WakesFacts ==
    ASSUME WorldType, NEW n \in Names
    PROVE  Wakes(n) \subseteq Sources
  <1>1. server[n] \in Server /\ cache[n] \in Server
    BY DEF WorldType
  <1> QED
    BY <1>1 DEF Wakes, Server

\* A change counts one up to the bound.
LEMMA ChangeType ==
    ASSUME WorldType, Change \/ UNCHANGED changes
    PROVE  changes' \in 0..MaxChanges
  BY ChangesAssumption DEF WorldType, Change

\* The end of a pass leaves its variables empty.
LEMMA EndType == End => PassType'
  <1> SUFFICES ASSUME End PROVE PassType'
    OBVIOUS
  <1>1. seen' \in (UNION {Specs[s] : s \in Sources}) \cup {NoSpec} /\ stale' \in BOOLEAN
    BY Zenon DEF End
  <1>2. pc' \in PassCalls \cup {"idle"} /\ out' \in Reasons /\ worker' \in Sources \cup {Idle}
    BY DEF End, Reasons
  <1>3. (pc = "idle" <=> worker = Idle)'
    BY DEF End
  <1> QED
    BY <1>1, <1>2, <1>3 DEF End, PassType

\* A pass that returns an error keeps the types.
LEMMA RetryType ==
    ASSUME TypeInv, pc # "idle", Retry, Change \/ UNCHANGED changes
    PROVE  TypeInv'
  <1>1. PassType /\ WorldType
    BY TypeParts
  <1>2. changes' \in 0..MaxChanges
    BY <1>1, ChangeType
  <1>3. worker \in Sources
    BY <1>1 DEF PassType
  <1>4. WorldType'
    BY <1>1, <1>2, <1>3 DEF WorldType, Retry, object, cluster, servers
  <1>5. PassType'
    BY EndType DEF Retry
  <1> QED
    BY <1>4, <1>5, TypeParts

\* Every step keeps the types.
LEMMA TypeStep ==
    ASSUME TypeInv, [Next]_vars
    PROVE  TypeInv'
  <1>0. PassType /\ WorldType /\ TypeOK
    BY TypeParts DEF TypeInv
  <1>1. pc # "idle" => worker \in Sources
    BY <1>0 DEF PassType
  <1>2. ASSUME NEW s \in Sources, Reconcile(s) PROVE TypeInv'
    <2>1. FirstCall(s) \in PassCalls
      BY <1>2, CallNames DEF PassCalls
    <2>2. spec[s] \in (UNION {Specs[x] : x \in Sources}) \cup {NoSpec}
      BY <1>2, <1>0 DEF WorldType
    <2>3. (pc = "idle" <=> worker = Idle)'
      BY <1>2, <1>0, <2>1, SourcesAssumption DEF Reconcile, PassType, PassCalls
    <2>4. PassType'
      BY <1>2, <1>0, <2>1, <2>2, <2>3 DEF Reconcile, PassType
    <2>5. WorldType'
      BY <1>2, <1>0 DEF Reconcile, WorldType, object, cluster, servers
    <2> QED
      BY <2>1, <2>2, <2>3, <2>4, <2>5, TypeParts
  <1>3. CASE AddFinalizer
    <2>1. pc = "addFinalizer" /\ worker \in Sources
      BY <1>1, <1>3 DEF AddFinalizer
    <2>2. CASE UpdateFails
      BY <2>1, <2>2, RetryType DEF UpdateFails
    <2>3. CASE ~UpdateFails
      <3>1. First(worker, seen) \in PassCalls /\ First(worker, seen) # "idle"
        BY CallNames DEF PassCalls
      <3>2. PassType'
        BY <1>0, <1>3, <2>1, <2>3, <3>1 DEF AddFinalizer, PassType
      <3>3. WorldType'
        BY <1>0, <1>3, <2>1, <2>3 DEF AddFinalizer, WorldType, cluster, servers
      <3> QED
        BY <3>2, <3>3, TypeParts
    <2> QED
      BY <2>2, <2>3
  <1>4. CASE Scan
    <2>1. pc = "scan" /\ worker \in Sources
      BY <1>1, <1>4 DEF Scan
    <2>2. PICK r \in discoverProviders(worker) :
             /\ unread' = r.unread
             /\ found' = applyFilters(r.found, seen)
             /\ todo' = found'
             /\ out' = CASE r.err                -> "DiscoveryFailed"
                         [] ~r.err /\ r.partial  -> "PartialFailure"
                         [] ~r.err /\ ~r.partial -> "SyncCompleted"
             /\ pc' = IF r.err THEN "writeStatus" ELSE AfterManage(found')
             /\ Change \/ UNCHANGED changes
      BY <1>4 DEF Scan
    <2>3. /\ r.err \in BOOLEAN /\ r.partial \in BOOLEAN /\ r.found \in SUBSET Names
          /\ r.unread \subseteq {"namespaces", "configmap", "pods", "services"}
      BY <1>0, <2>1, ScanFacts
    <2>4. found' \subseteq Names /\ todo' \subseteq Names
      BY <1>0, <2>2, <2>3, FilterFacts, SpecFacts
    <2>5. out' \in Reasons
      BY <2>2, <2>3 DEF Reasons
    <2>6. pc' \in PassCalls /\ pc' # "idle"
      BY <2>2, CallNames DEF PassCalls
    <2>7. worker # Idle /\ UNCHANGED <<worker, seen, stale, missed>>
      BY <1>4, <2>1, SourcesAssumption DEF Scan
    <2>8. PassType'
      BY <1>0, <2>2, <2>3, <2>4, <2>5, <2>6, <2>7 DEF PassType
    <2>9. WorldType'
      BY <1>0, <1>4, <2>2, ChangeType DEF Scan, WorldType, object, cluster, servers
    <2> QED
      BY <2>8, <2>9, TypeParts
  <1>5. CASE createOrUpdateMCPServer
    <2>1. pc = "manage" /\ worker \in Sources
      BY <1>1, <1>5 DEF createOrUpdateMCPServer
    <2>2. PICK n \in todo :
             /\ todo' = todo \ {n} /\ pc' = AfterManage(todo')
             /\ Change \/ UNCHANGED changes
             /\ out' = out \/ out' = "PartialFailure"
             /\ \/ server' = [server EXCEPT ![n] = Applied(n)]
                \/ UNCHANGED server
      BY <1>5 DEF createOrUpdateMCPServer, Managed, Wrong
    <2>3. server' \in [Names -> Server] /\ n \in Names
      <3>1. n \in Names
        BY <1>0 DEF PassType
      <3>2. Applied(n) \in Server
        BY <1>0, <2>1, <3>1, ServerFacts
      <3> QED
        BY <1>0, <2>2, <3>1, <3>2 DEF WorldType
    <2>5. pc' \in PassCalls /\ pc' # "idle" /\ out' \in Reasons
      BY <1>0, <2>2, CallNames DEF PassCalls, Reasons, PassType
    <2>6. PassType'
      BY <1>0, <1>5, <2>1, <2>2, <2>5, SourcesAssumption
         DEF createOrUpdateMCPServer, PassType
    <2>7. WorldType'
      BY <1>0, <1>5, <2>2, <2>3, ChangeType
         DEF createOrUpdateMCPServer, WorldType, object, cluster, servers
    <2> QED
      BY <2>6, <2>7, TypeParts
  <1>6. CASE authoritativeSync
    <2>1. pc = "sync" /\ worker \in Sources /\ managed(worker) \subseteq Names
      BY <1>6, <1>1 DEF authoritativeSync, managed
    <2>5. listed(worker) \subseteq Names
      BY DEF listed
    <2>2. pc' \in PassCalls /\ pc' # "idle" /\ out' \in Reasons
      BY <1>6, <1>0 DEF authoritativeSync, Wrong, PassCalls, Reasons, PassType
    <2>3. PassType'
      BY <1>6, <1>0, <2>1, <2>2, <2>5, SourcesAssumption DEF authoritativeSync, PassType
    <2>4. WorldType'
      BY <1>6, <1>0, ChangeType DEF authoritativeSync, WorldType, object, cluster, servers
    <2> QED
      BY <2>1, <2>2, <2>3, <2>4, TypeParts
  <1>7. CASE DeleteServer
    <2>1. pc \in {"delete", "delDelete"} /\ worker \in Sources
      BY <1>1, <1>7 DEF DeleteServer
    <2>2. PICK n \in todo :
             /\ todo' = todo \ {n}
             /\ Change \/ UNCHANGED changes
             /\ out' = out \/ out' = "PartialFailure"
             /\ missed' = missed \/ missed' = missed \cup {n}
             /\ server' = Terminated(n) \/ UNCHANGED server
      BY <1>7 DEF DeleteServer, Wrong
    <2>3. n \in Names
      BY <1>0 DEF PassType
    <2>4. server' \in [Names -> Server]
      BY <1>0, <2>2, <2>3, ServerFacts DEF WorldType
    <2>6. pc' \in PassCalls /\ pc' # "idle" /\ out' \in Reasons
      BY <1>0, <1>7, <2>1, <2>2 DEF DeleteServer, PassCalls, Reasons, PassType
    <2>7. PassType'
      BY <1>0, <1>7, <2>1, <2>2, <2>3, <2>6, SourcesAssumption DEF DeleteServer, PassType
    <2>8. WorldType'
      BY <1>0, <1>7, <2>1, <2>2, <2>4, ChangeType DEF DeleteServer, WorldType, object, cluster
    <2> QED
      BY <2>7, <2>8, TypeParts
  <1>8. CASE WriteStatus
    <2>1. pc \in {"paused", "refused", "writeStatus"} /\ worker \in Sources
      BY <1>1, <1>8 DEF WriteStatus
    <2>2. CASE UpdateFails
      BY <2>1, <2>2, RetryType DEF UpdateFails
    <2>3. CASE ~UpdateFails
      <3>1. PassType'
        BY <1>8, <2>3, EndType DEF WriteStatus
      <3>2. Reported \in Reasons
        BY <1>0, <2>1 DEF Reported, Reasons, PassType
      <3>3. WorldType'
        BY <1>0, <1>8, <2>1, <2>3, <3>2 DEF WriteStatus, WorldType, object, cluster, servers
      <3> QED
        BY <3>1, <3>3, TypeParts
    <2> QED
      BY <2>2, <2>3
  <1>9. CASE DelList
    <2>1. pc = "delList" /\ worker \in Sources /\ managed(worker) \subseteq Names
      BY <1>9, <1>1 DEF DelList, managed
    <2>5. listed(worker) \subseteq Names
      BY DEF listed
    <2>2. pc' \in PassCalls /\ pc' # "idle"
      BY <1>9 DEF DelList, PassCalls
    <2>3. PassType'
      BY <1>9, <1>0, <2>1, <2>2, <2>5, SourcesAssumption DEF DelList, PassType
    <2>4. WorldType'
      BY <1>9, <1>0, <2>1, ChangeType DEF DelList, WorldType, object, cluster, servers
    <2> QED
      BY <2>1, <2>2, <2>3, <2>4, TypeParts
  <1>10. CASE RemoveFinalizer
    <2>1. pc = "removeFinalizer" /\ worker \in Sources
      BY <1>1, <1>10 DEF RemoveFinalizer
    <2>2. CASE UpdateFails
      BY <2>1, <2>2, RetryType DEF UpdateFails
    <2>3. CASE ~UpdateFails
      <3>1. PassType'
        BY <1>10, <2>3, EndType DEF RemoveFinalizer
      <3>2. WorldType'
        BY <1>0, <1>10, <2>1, <2>3
           DEF RemoveFinalizer, WorldType, PassType, Reasons, cluster, servers
      <3> QED
        BY <3>1, <3>2, TypeParts
    <2> QED
      BY <2>2, <2>3
  <1>11. ASSUME NEW s \in Sources, UserCreate(s) PROVE TypeInv'
    <2>1. PICK sp \in Specs[s] : spec' = [spec EXCEPT ![s] = sp]
      BY <1>11 DEF UserCreate
    <2>2. /\ spec' \in [Sources -> SpecSet]
          /\ \A x \in Sources : spec'[x] \in Specs[x] \cup {NoSpec}
      BY <1>0, <2>1, SpecFacts DEF WorldType
    <2>3. WorldType'
      BY <1>0, <1>11, <2>2 DEF UserCreate, WorldType, cluster, servers
    <2>4. PassType'
      BY <1>0, <1>11 DEF UserCreate, PassType, pass
    <2> QED
      BY <2>3, <2>4, TypeParts
  <1>12. ASSUME NEW s \in Sources, UserEdit(s) PROVE TypeInv'
    <2>1. PICK sp \in Specs[s] : spec' = [spec EXCEPT ![s] = sp]
      BY <1>12 DEF UserEdit
    <2>2. /\ spec' \in [Sources -> SpecSet]
          /\ \A x \in Sources : spec'[x] \in Specs[x] \cup {NoSpec}
      BY <1>0, <2>1, SpecFacts DEF WorldType
    <2>3. WorldType'
      BY <1>0, <1>12, <2>2, ChangeType DEF UserEdit, WorldType, cluster, servers, Reasons
    <2>4. PassType'
      <3>1. stale' \in BOOLEAN
        BY <1>12, Zenon DEF UserEdit
      <3> QED
        BY <1>0, <1>12, <3>1 DEF UserEdit, PassType
    <2> QED
      BY <2>3, <2>4, TypeParts
  <1>13. ASSUME NEW s \in Sources, UserDelete(s) PROVE TypeInv'
    <2>1. stale' \in BOOLEAN
      BY <1>13, Zenon DEF UserDelete
    <2>2. PassType'
      BY <1>0, <1>13, <2>1 DEF UserDelete, PassType
    <2>3. WorldType'
      BY <1>0, <1>13 DEF UserDelete, WorldType, cluster, servers
    <2> QED
      BY <2>2, <2>3, TypeParts
  <1>14. ASSUME NEW s \in Sources, WorldChange(s) PROVE TypeInv'
    <2>1. /\ \A x \in Sources : world'[x] \in [Places(Type[x]) -> SUBSET Finds[x]]
          /\ world' = [x \in Sources |-> world'[x]]
      <3>1. CASE UNCHANGED world
        BY <1>0, <3>1 DEF WorldType
      <3>2. ASSUME NEW p \in Places(Type[s]), NEW n \in Finds[s],
                   world' = [world EXCEPT ![s][p] = IF n \in @ THEN @ \ {n} ELSE @ \cup {n}]
            PROVE  /\ \A x \in Sources : world'[x] \in [Places(Type[x]) -> SUBSET Finds[x]]
                   /\ world' = [x \in Sources |-> world'[x]]
        BY <1>0, <3>2 DEF WorldType
      <3> QED
        BY <1>14, <3>1, <3>2 DEF WorldChange
    <2>2. usable' \in [Sources -> {"ok", "noKey", "missing"}]
      BY <1>0, <1>14 DEF WorldChange, WorldType
    <2>3. WorldType'
      BY <1>0, <1>14, <2>1, <2>2, ChangeType DEF WorldChange, WorldType, object, servers
    <2>4. PassType'
      BY <1>0, <1>14 DEF WorldChange, PassType, pass
    <2> QED
      BY <2>3, <2>4, TypeParts
  <1>15. ASSUME NEW s \in Sources, Fire(s) PROVE TypeInv'
    <2>1. PassType'
      BY <1>0, <1>15 DEF Fire, PassType, pass
    <2>2. WorldType'
      BY <1>0, <1>15 DEF Fire, WorldType, object, cluster, servers
    <2> QED
      BY <2>1, <2>2, TypeParts
  <1>16. ASSUME NEW n \in Names, UserServer(n) PROVE TypeInv'
    <2>1. server' \in [Names -> Server]
      BY <1>0, <1>16, ServerFacts DEF UserServer, WorldType
    <2>2. PassType'
      BY <1>0, <1>16 DEF UserServer, PassType, pass
    <2>3. WorldType'
      BY <1>0, <1>16, <2>1, ChangeType DEF UserServer, WorldType, object, cluster, servers
    <2> QED
      BY <2>2, <2>3, TypeParts
  <1>17. ASSUME NEW n \in Names, ServerGone(n) PROVE TypeInv'
    <2>1. server' \in [Names -> Server]
      BY <1>0, <1>17, ServerFacts DEF ServerGone, WorldType
    <2>2. PassType'
      BY <1>0, <1>17 DEF ServerGone, PassType, pass
    <2>3. WorldType'
      BY <1>0, <1>17, <2>1 DEF ServerGone, WorldType, object, cluster, servers
    <2> QED
      BY <2>2, <2>3, TypeParts
  <1>18. ASSUME NEW n \in Names, GarbageCollect(n) PROVE TypeInv'
    <2>1. server' \in [Names -> Server]
      BY <1>0, <1>18, ServerFacts DEF GarbageCollect, WorldType
    <2>2. PassType'
      BY <1>0, <1>18 DEF GarbageCollect, PassType, pass
    <2>3. WorldType'
      BY <1>0, <1>18, <2>1 DEF GarbageCollect, WorldType, object, cluster, servers
    <2> QED
      BY <2>2, <2>3, TypeParts
  <1>19. CASE Crash
    <2>1. PassType'
      BY <1>19, EndType DEF Crash
    <2>2. WorldType'
      BY <1>0, <1>19, ChangeType DEF Crash, existing, WorldType, object, cluster, servers
    <2> QED
      BY <2>1, <2>2, TypeParts
  <1>20. CASE UNCHANGED vars
    <2>1. PassType'
      BY <1>0, <1>20 DEF PassType, vars
    <2>2. WorldType'
      BY <1>0, <1>20 DEF WorldType, vars
    <2> QED
      BY <2>1, <2>2, TypeParts
  <1>21. ASSUME NEW n \in Names, Sync(n) PROVE TypeInv'
    <2>1. cache' \in [Names -> Server]
      BY <1>0, <1>21 DEF Sync, WorldType
    <2>2. PassType'
      BY <1>0, <1>21 DEF Sync, PassType, pass
    <2>3. WorldType'
      BY <1>0, <1>21, <2>1, WakesFacts DEF Sync, WorldType, object, cluster
    <2> QED
      BY <2>2, <2>3, TypeParts
  <1> QED
    BY <1>2, <1>3, <1>4, <1>5, <1>6, <1>7, <1>8, <1>9, <1>10, <1>11, <1>12, <1>13, <1>14, <1>15,
       <1>16, <1>17, <1>18, <1>19, <1>20, <1>21
       DEF Next, Step, Environment

\* The strengthened type invariant holds of every behaviour.
LEMMA TypeHolds == Spec => []TypeInv
  <1>1. Init => TypeInv
    <2> SUFFICES ASSUME Init PROVE TypeInv
      OBVIOUS
    <2>1. PassType
      <3>1. "none" \in Reasons
        BY DEF Reasons
      <3>2. stale \in BOOLEAN
        BY Zenon DEF Init
      <3> QED
        BY <3>1, <3>2 DEF Init, PassType
    <2>2. WorldType
      <3>1. NoServer \in Server /\ "none" \in Reasons
        BY DEF NoServer, Server, Reasons
      <3> QED
        BY <3>1, SpecFacts, ChangesAssumption DEF Init, WorldType
    <2> QED
      BY <2>1, <2>2, TypeParts
  <1> QED
    BY <1>1, TypeStep, PTL DEF Spec

\* Every variable keeps the values of its kind, whatever the sources, names and changes.
THEOREM TypeCorrect == Spec => []TypeOK
  <1>1. TypeInv => TypeOK
    BY DEF TypeInv
  <1> QED
    BY <1>1, TypeHolds, PTL

-----------------------------------------------------------------------------
(* The finalizer and the spec of a pass *)

\* Every step keeps SourceInv.
LEMMA SourceStep ==
    ASSUME TypeInv, SourceInv, [Next]_vars
    PROVE  SourceInv'
  <1>0. PassType /\ WorldType /\ SourceInv
    BY TypeParts
  <1>1. pc # "idle" => worker \in Sources
    BY <1>0 DEF PassType
  <1>2. ASSUME NEW s \in Sources, Reconcile(s) PROVE SourceInv'
    BY <1>0, <1>1, <1>2, SourcesAssumption
       DEF Reconcile, existing, FirstCall, DelFirst, First, SourceInv, PassType, WorldType,
          DeleteCalls, PassCalls, object, pass
  <1>3. CASE AddFinalizer
    BY <1>0, <1>1, <1>3
       DEF AddFinalizer, UpdateFails, Retry, End, First, SourceInv, PassType, WorldType,
          DeleteCalls, PassCalls, object, pass
  <1>4. CASE Scan
    BY <1>0, <1>1, <1>4
       DEF Scan, AfterManage, SourceInv, PassType, WorldType, DeleteCalls, PassCalls, object,
          pass
  <1>5. CASE createOrUpdateMCPServer
    BY <1>0, <1>1, <1>5
       DEF createOrUpdateMCPServer, Managed, AfterManage, SourceInv, PassType, WorldType,
          DeleteCalls, PassCalls, object, pass
  <1>6. CASE authoritativeSync
    BY <1>0, <1>1, <1>6
       DEF authoritativeSync, SourceInv, PassType, WorldType, DeleteCalls, PassCalls, object,
          pass
  <1>7. CASE DeleteServer
    BY <1>0, <1>1, <1>7
       DEF DeleteServer, SourceInv, PassType, WorldType, DeleteCalls, PassCalls, object, pass
  <1>8. CASE WriteStatus
    BY <1>0, <1>1, <1>8
       DEF WriteStatus, UpdateFails, Retry, End, SourceInv, PassType, WorldType, DeleteCalls,
          PassCalls, object, pass
  <1>9. CASE DelList
    BY <1>0, <1>1, <1>9
       DEF DelList, SourceInv, PassType, WorldType, DeleteCalls, PassCalls, object, pass
  <1>10. CASE RemoveFinalizer
    BY <1>0, <1>1, <1>10
       DEF RemoveFinalizer, UpdateFails, Retry, End, SourceInv, PassType, WorldType,
          DeleteCalls, PassCalls, object, pass
  <1>11. ASSUME NEW s \in Sources, UserCreate(s) PROVE SourceInv'
    <2>1. PICK sp : spec' = [spec EXCEPT ![s] = sp]
      BY <1>11 DEF UserCreate
    <2> QED
      BY <1>0, <1>1, <1>11, <2>1
         DEF UserCreate, SourceInv, PassType, WorldType, DeleteCalls, PassCalls, object, pass
  <1>12. ASSUME NEW s \in Sources, UserEdit(s) PROVE SourceInv'
    <2>1. PICK sp : spec' = [spec EXCEPT ![s] = sp]
      BY <1>12 DEF UserEdit
    <2>2. stale' <=> stale \/ worker = s
      BY <1>12, Zenon DEF UserEdit
    <2>3. UNCHANGED <<phase, fin, worker, pc, seen>>
      BY <1>12 DEF UserEdit
    <2>4. pc' = "idle" => ~stale'
      BY <1>0, <2>2, <2>3, SourcesAssumption DEF SourceInv, PassType
    <2>5. pc' # "idle" /\ ~stale' => ~stale /\ worker # s
      BY <2>2, <2>3
    <2>6. pc' # "idle" /\ ~stale' => seen' = spec'[worker']
      BY <1>0, <1>1, <2>1, <2>3, <2>5 DEF SourceInv, WorldType
    <2>7. pc' = "addFinalizer" /\ ~stale' => phase'[worker'] = "live"
      BY <1>0, <2>3, <2>5 DEF SourceInv
    <2> QED
      BY <1>0, <2>3, <2>4, <2>6, <2>7 DEF SourceInv
  <1>13. ASSUME NEW s \in Sources, UserDelete(s) PROVE SourceInv'
    <2>1. stale' <=> stale \/ worker = s
      BY <1>13, Zenon DEF UserDelete
    <2>2. /\ phase[s] = "live" /\ UNCHANGED <<fin, spec, worker, pc, seen>>
          /\ phase' = [phase EXCEPT ![s] = IF s \in fin THEN "deleting" ELSE "gone"]
      BY <1>13 DEF UserDelete
    <2>3. \A x \in Sources : /\ phase'[x] \in {"none", "gone"} => x \notin fin'
                             /\ phase'[x] = "deleting" => x \in fin'
      BY <1>0, <2>2 DEF SourceInv, WorldType
    <2>4. pc' = "idle" => ~stale'
      BY <1>0, <2>1, <2>2, SourcesAssumption DEF SourceInv, PassType
    <2>5. pc' # "idle" /\ ~stale' => seen' = spec'[worker'] /\ worker # s /\ ~stale
      BY <1>0, <2>1, <2>2 DEF SourceInv
    <2>6. pc' = "addFinalizer" /\ ~stale' => phase'[worker'] = "live"
      BY <1>0, <1>1, <2>2, <2>5 DEF SourceInv, WorldType
    <2>7. pc' \in DeleteCalls => phase'[worker'] = "deleting"
      BY <1>0, <1>1, <2>2 DEF SourceInv, WorldType, DeleteCalls
    <2> QED
      BY <1>0, <2>2, <2>3, <2>4, <2>5, <2>6, <2>7 DEF SourceInv
  <1>14. ASSUME NEW s \in Sources, WorldChange(s) PROVE SourceInv'
    BY <1>0, <1>1, <1>14
       DEF WorldChange, SourceInv, PassType, WorldType, DeleteCalls, PassCalls, object, pass
  <1>15. ASSUME NEW s \in Sources, Fire(s) PROVE SourceInv'
    BY <1>0, <1>1, <1>15
       DEF Fire, SourceInv, PassType, WorldType, DeleteCalls, PassCalls, object, pass
  <1>16. ASSUME NEW n \in Names, UserServer(n) PROVE SourceInv'
    BY <1>0, <1>1, <1>16
       DEF UserServer, SourceInv, PassType, WorldType, DeleteCalls, PassCalls, object, pass
  <1>17. ASSUME NEW n \in Names, ServerGone(n) PROVE SourceInv'
    BY <1>0, <1>1, <1>17
       DEF ServerGone, SourceInv, PassType, WorldType, DeleteCalls, PassCalls, object, pass
  <1>18. ASSUME NEW n \in Names, GarbageCollect(n) PROVE SourceInv'
    BY <1>0, <1>1, <1>18
       DEF GarbageCollect, SourceInv, PassType, WorldType, DeleteCalls, PassCalls, object, pass
  <1>19. CASE Crash
    BY <1>0, <1>1, <1>19
       DEF Crash, End, SourceInv, PassType, WorldType, DeleteCalls, PassCalls, object, pass
  <1>20. CASE UNCHANGED vars
    BY <1>0, <1>1, <1>20
       DEF SourceInv, PassType, WorldType, DeleteCalls, PassCalls, object, pass, vars
  <1>21. ASSUME NEW n \in Names, Sync(n) PROVE SourceInv'
    BY <1>0, <1>1, <1>21
       DEF Sync, SourceInv, PassType, WorldType, DeleteCalls, PassCalls, object, pass
  <1> QED
    BY <1>2, <1>3, <1>4, <1>5, <1>6, <1>7, <1>8, <1>9, <1>10, <1>11, <1>12, <1>13, <1>14, <1>15,
       <1>16, <1>17, <1>18, <1>19, <1>20, <1>21
       DEF Next, Step, Environment

\* The finalizer is on a source for as long as a pass may have written servers for it.
LEMMA SourceHolds == Spec => []SourceInv
  <1>1. Init => SourceInv
    BY DEF Init, SourceInv, DeleteCalls
  <1> QED
    BY <1>1, SourceStep, TypeHolds, PTL DEF Spec

-----------------------------------------------------------------------------
(* Labels, and what reconcileDelete leaves *)

\* A Delete changes nothing but the state of a live server.
LEMMA TerminatedFacts ==
    ASSUME WorldType, NEW n \in Names
    PROVE  \A m \in Names :
               /\ Terminated(n)[m].label = server[m].label
               /\ Terminated(n)[m].state = IF m = n /\ server[n].state = "live"
                                           THEN "terminating" ELSE server[m].state
  BY DEF Terminated, WorldType, Server

\* Every step keeps LabelInv.
LEMMA LabelStep ==
    ASSUME TypeInv, SourceInv, LabelInv, [Next]_vars
    PROVE  LabelInv'
  <1>0. PassType /\ WorldType /\ SourceInv /\ LabelInv
    BY TypeParts
  <1>1. ASSUME NEW s \in Sources, Reconcile(s) PROVE LabelInv'
    BY <1>0, <1>1 DEF Reconcile, LabelInv, WorldType, object, servers
  <1>2. CASE AddFinalizer
    BY <1>0, <1>2 DEF AddFinalizer, UpdateFails, Retry, LabelInv, WorldType, object, servers
  <1>3. CASE Scan
    BY <1>0, <1>3 DEF Scan, LabelInv, WorldType, object, servers
  <1>4. CASE createOrUpdateMCPServer
    <2>1. worker \in fin /\ UNCHANGED <<fin, phase>>
      BY <1>0, <1>4 DEF createOrUpdateMCPServer, SourceInv, object
    <2>2. CASE UNCHANGED server
      BY <1>0, <2>1, <2>2 DEF LabelInv
    <2>3. ASSUME NEW n \in Names, server' = [server EXCEPT ![n] = Applied(n)]
          PROVE  LabelInv'
      <3>1. Applied(n).label = worker /\ Applied(n).state # "absent"
        BY DEF Applied
      <3> QED
        BY <1>0, <2>1, <2>3, <3>1 DEF LabelInv, WorldType
    <2> QED
      BY <1>0, <1>4, <2>2, <2>3 DEF createOrUpdateMCPServer, PassType
  <1>5. CASE authoritativeSync
    BY <1>0, <1>5 DEF authoritativeSync, LabelInv, WorldType, object, servers
  <1>6. CASE DeleteServer
    <2>1. UNCHANGED <<fin, phase>>
      BY <1>6 DEF DeleteServer, object
    <2>2. PICK n \in Names : server' = Terminated(n) \/ UNCHANGED server
      BY <1>0, <1>6 DEF DeleteServer, PassType
    <2> QED
      BY <1>0, <2>1, <2>2, TerminatedFacts DEF LabelInv
  <1>7. CASE WriteStatus
    BY <1>0, <1>7 DEF WriteStatus, UpdateFails, Retry, LabelInv, WorldType, object, servers
  <1>8. CASE DelList
    BY <1>0, <1>8 DEF DelList, LabelInv, WorldType, object, servers
  <1>9. CASE RemoveFinalizer
    BY <1>0, <1>9 DEF RemoveFinalizer, UpdateFails, Retry, LabelInv, WorldType, object, servers
  <1>10. ASSUME NEW s \in Sources, UserCreate(s) PROVE LabelInv'
    BY <1>0, <1>10 DEF UserCreate, LabelInv, WorldType, object, servers
  <1>11. ASSUME NEW s \in Sources, UserEdit(s) PROVE LabelInv'
    BY <1>0, <1>11 DEF UserEdit, LabelInv, WorldType, object, servers
  <1>12. ASSUME NEW s \in Sources, UserDelete(s) PROVE LabelInv'
    BY <1>0, <1>12 DEF UserDelete, LabelInv, WorldType, object, servers
  <1>13. ASSUME NEW s \in Sources, WorldChange(s) PROVE LabelInv'
    BY <1>0, <1>13 DEF WorldChange, LabelInv, WorldType, object, servers
  <1>14. ASSUME NEW s \in Sources, Fire(s) PROVE LabelInv'
    BY <1>0, <1>14 DEF Fire, LabelInv, WorldType, object, servers
  <1>15. ASSUME NEW n \in Names, UserServer(n) PROVE LabelInv'
    <2>1. UNCHANGED <<fin, phase>>
      BY <1>15 DEF UserServer, object
    <2>2. CASE server' = Terminated(n)
      BY <1>0, <2>1, <2>2, TerminatedFacts DEF LabelInv
    <2>3. CASE server' = [server EXCEPT ![n].state = "live"]
      <3>1. \A m \in Names : /\ server'[m].label = server[m].label
                             /\ server'[m].state = "absent" => server[m].state = "absent"
        BY <1>0, <2>3 DEF WorldType, Server
      <3> QED
        BY <1>0, <2>1, <3>1 DEF LabelInv
    <2> QED
      BY <1>15, <2>2, <2>3 DEF UserServer
  <1>16. ASSUME NEW n \in Names, ServerGone(n) PROVE LabelInv'
    <2>1. UNCHANGED <<fin, phase>> /\ server' = [server EXCEPT ![n] = NoServer]
      BY <1>16 DEF ServerGone, object
    <2>2. NoServer.label = NoOne
      BY DEF NoServer
    <2> QED
      BY <1>0, <2>1, <2>2, SourcesAssumption DEF LabelInv, WorldType
  <1>17. ASSUME NEW n \in Names, GarbageCollect(n) PROVE LabelInv'
    <2>1. UNCHANGED <<fin, phase>> /\ server' = Terminated(n)
      BY <1>17 DEF GarbageCollect, object
    <2> QED
      BY <1>0, <2>1, TerminatedFacts DEF LabelInv
  <1>18. CASE Crash
    BY <1>0, <1>18 DEF Crash, LabelInv, WorldType, object, servers
  <1>19. CASE UNCHANGED vars
    BY <1>0, <1>19 DEF LabelInv, WorldType, object, servers, vars
  <1>20. ASSUME NEW n \in Names, Sync(n) PROVE LabelInv'
    BY <1>0, <1>20 DEF Sync, LabelInv, WorldType, object, servers
  <1> QED
    BY <1>1, <1>2, <1>3, <1>4, <1>5, <1>6, <1>7, <1>8, <1>9, <1>10, <1>11, <1>12, <1>13, <1>14,
       <1>15, <1>16, <1>17, <1>18, <1>19, <1>20
       DEF Next, Step, Environment

\* A label is a source's that has the finalizer or had it.
LEMMA LabelsHold == Spec => []LabelInv
  <1>1. Init => LabelInv
    BY SourcesAssumption DEF Init, LabelInv, NoServer
  <1> QED
    BY <1>1, LabelStep, SourceHolds, TypeHolds, PTL DEF Spec

\* Nothing but createOrUpdateMCPServer gives a source a live server.
LEMMA OnlyManaged ==
    ASSUME TypeInv, LabelInv, [Next]_vars, ~createOrUpdateMCPServer, NEW s \in Sources
    PROVE  live(s)' \subseteq live(s)
  <1>0. PassType /\ WorldType
    BY TypeParts
  <1>1. CASE UNCHANGED server
    BY <1>1 DEF live, managed
  <1>2. ASSUME NEW n \in Names, server' = Terminated(n)
        PROVE  live(s)' \subseteq live(s)
    BY <1>0, <1>2, TerminatedFacts DEF live, managed
  <1>3. ASSUME NEW n \in Names, server' = [server EXCEPT ![n] = NoServer]
        PROVE  live(s)' \subseteq live(s)
    BY <1>0, <1>3 DEF live, managed, NoServer, WorldType
  <1>4. ASSUME NEW n \in Names, UserServer(n)
        PROVE  live(s)' \subseteq live(s)
    <2>1. CASE server[n].state = "absent" /\ server' = [server EXCEPT ![n].state = "live"]
      <3>1. server[n].label # s
        BY <2>1, SourcesAssumption DEF LabelInv
      <3>2. \A m \in Names : /\ server'[m].label = server[m].label
                             /\ m # n => server'[m].state = server[m].state
        BY <1>0, <2>1 DEF WorldType, Server
      <3> QED
        BY <3>1, <3>2 DEF live, managed
    <2> QED
      BY <1>2, <1>4, <2>1 DEF UserServer
  <1>5. UNCHANGED server \/ \E n \in Names : \/ server' = Terminated(n)
                                             \/ server' = [server EXCEPT ![n] = NoServer]
                                             \/ UserServer(n)
    BY <1>0 DEF Next, Step, Environment, vars, PassType, Reconcile, AddFinalizer, UpdateFails,
                Retry, Scan, authoritativeSync, DeleteServer, WriteStatus, DelList,
                RemoveFinalizer, UserCreate, UserEdit, UserDelete, WorldChange, Fire,
                ServerGone, GarbageCollect, Sync, Crash, servers
  <1> QED
    BY <1>1, <1>2, <1>3, <1>4, <1>5

\* Every step keeps DeleteInv.
LEMMA DeleteStep ==
    ASSUME TypeInv, SourceInv, LabelInv, DeleteInv, [Next]_vars
    PROVE  DeleteInv'
  <1>0. PassType /\ WorldType /\ SourceInv /\ LabelInv /\ DeleteInv
    BY TypeParts
  <1>1. pc # "idle" => worker \in Sources
    BY <1>0 DEF PassType
  <1>2. UNCHANGED server \/ UNCHANGED todo \/ pc # "manage"
           => \A s \in Sources : live(s)' \subseteq live(s)
    <2>1. CASE UNCHANGED server
      BY <2>1 DEF live, managed
    <2>2. CASE UNCHANGED todo \/ pc # "manage"
      <3>1. ~createOrUpdateMCPServer
        BY <2>2 DEF createOrUpdateMCPServer, Managed
      <3> QED
        BY <3>1, OnlyManaged
    <2> QED
      BY <2>1, <2>2
  <1>3. ASSUME NEW s \in Sources, Reconcile(s) PROVE DeleteInv'
    BY <1>0, <1>1, <1>2, <1>3
       DEF Reconcile, FirstCall, First, DelFirst, DeleteInv, PassType, WorldType, object, servers, pass
  <1>4. CASE AddFinalizer
    BY <1>0, <1>1, <1>2, <1>4
       DEF AddFinalizer, UpdateFails, Retry, End, First, DeleteInv, PassType, WorldType, object,
          servers, pass
  <1>5. CASE Scan
    BY <1>0, <1>1, <1>2, <1>5
       DEF Scan, AfterManage, DeleteInv, PassType, WorldType, object, servers, pass
  <1>6. CASE createOrUpdateMCPServer
    <2>1. worker \in fin /\ UNCHANGED <<fin, phase, spec, left, worker>>
      BY <1>0, <1>6 DEF createOrUpdateMCPServer, SourceInv, object
    <2>2. phase[worker] # "gone" /\ pc' \in {"manage", "sync", "writeStatus"}
      BY <1>0, <1>1, <1>6, <2>1 DEF createOrUpdateMCPServer, Managed, AfterManage, SourceInv
    <2>3. \A s \in Sources \ {worker} : live(s)' \subseteq live(s)
      <3>1. CASE UNCHANGED server
        BY <3>1 DEF live, managed
      <3>2. ASSUME NEW n \in Names, server' = [server EXCEPT ![n] = Applied(n)]
            PROVE  \A s \in Sources \ {worker} : live(s)' \subseteq live(s)
        BY <1>0, <3>2 DEF live, managed, Applied, WorldType
      <3> QED
        BY <1>0, <1>6, <3>1, <3>2 DEF createOrUpdateMCPServer, PassType
    <2> QED
      BY <1>0, <2>1, <2>2, <2>3 DEF DeleteInv
  <1>7. CASE authoritativeSync
    BY <1>0, <1>1, <1>2, <1>7
       DEF authoritativeSync, DeleteInv, PassType, WorldType, object, servers, pass
  <1>8. CASE DeleteServer
    <2>1. UNCHANGED <<phase, spec, worker, seen, left>>
      BY <1>8 DEF DeleteServer, object
    <2>2. \A s \in Sources : live(s)' \subseteq live(s)
      BY <1>2, <1>8 DEF DeleteServer
    <2>3. PICK n \in todo : /\ todo' = todo \ {n}
                            /\ \/ server' = Terminated(n) /\ UNCHANGED missed
                               \/ pc = "delete"
                               \/ missed' = missed \cup {n}
      BY <1>8 DEF DeleteServer
    <2>4. n \in Names
      BY <1>0 DEF PassType
    <2>5. server' = Terminated(n) => n \notin live(worker)'
      BY <1>0, <2>1, <2>4, TerminatedFacts DEF live, managed
    <2>6. CASE pc = "delete"
      BY <1>0, <1>8, <2>1, <2>2, <2>6 DEF DeleteServer, DeleteInv
    <2>7. CASE pc = "delDelete"
      <3>1. live(worker)' \subseteq todo' \cup missed'
        BY <1>0, <1>1, <1>8, <2>1, <2>2, <2>3, <2>5, <2>7 DEF DeleteInv
      <3>2. pc' = IF todo' # {} THEN "delDelete" ELSE "removeFinalizer"
        BY <1>8, <2>7 DEF DeleteServer
      <3> QED
        BY <1>0, <2>1, <2>2, <3>1, <3>2 DEF DeleteInv
    <2> QED
      BY <1>8, <2>6, <2>7 DEF DeleteServer
  <1>9. CASE WriteStatus
    BY <1>0, <1>1, <1>2, <1>9
       DEF WriteStatus, UpdateFails, Retry, End, DeleteInv, PassType, WorldType, object, servers, pass
  <1>10. CASE DelList
    <2>1. /\ UNCHANGED <<phase, spec, worker, seen, left>>
          /\ \A s \in Sources : live(s)' \subseteq live(s)
      BY <1>2, <1>10 DEF DelList, object
    <2>2. \/ missed' = managed(worker) /\ pc' = "removeFinalizer"
          \/ /\ todo' = listed(worker) /\ missed' = managed(worker) \ listed(worker)
             /\ pc' = IF todo' = {} THEN "removeFinalizer" ELSE "delDelete"
      BY <1>1, <1>10 DEF DelList
    <2>3. live(worker) \subseteq managed(worker) /\ worker \in Sources
      BY <1>1, <1>10 DEF live, DelList
    <2> QED
      BY <1>0, <2>1, <2>2, <2>3 DEF DeleteInv
  <1>11. CASE RemoveFinalizer
    <2>1. \A s \in Sources : live(s)' \subseteq live(s)
      BY <1>2, <1>11 DEF RemoveFinalizer
    <2>2. CASE UpdateFails
      BY <1>0, <2>1, <2>2 DEF UpdateFails, Retry, End, DeleteInv, object
    <2>3. CASE ~UpdateFails
      <3>1. /\ ~stale /\ pc = "removeFinalizer" /\ pc' = "idle" /\ UNCHANGED spec
            /\ phase' = [phase EXCEPT ![worker] = "gone"]
            /\ left' = [left EXCEPT ![worker] = missed]
        BY <1>11, <2>3 DEF RemoveFinalizer, End
      <3>2. seen = spec[worker] /\ worker \in Sources
        BY <1>0, <1>1, <3>1 DEF SourceInv
      <3>3. \/ ~spec[worker].authoritative /\ ~spec[worker].controller
            \/ live(worker) \subseteq missed
        BY <1>0, <3>1, <3>2 DEF DeleteInv
      <3> QED
        BY <1>0, <2>1, <3>1, <3>2, <3>3 DEF DeleteInv, WorldType
    <2> QED
      BY <2>2, <2>3
  <1>12. ASSUME NEW s \in Sources, UserCreate(s) PROVE DeleteInv'
    <2>1. /\ UNCHANGED <<worker, seen, pc, todo, missed, left>>
          /\ \A x \in Sources : live(x)' \subseteq live(x)
      BY <1>2, <1>12 DEF UserCreate, pass
    <2>2. \A x \in Sources : phase'[x] = "gone" => phase[x] = "gone" /\ spec'[x] = spec[x]
      BY <1>0, <1>12 DEF UserCreate, WorldType
    <2> QED
      BY <1>0, <1>1, <2>1, <2>2 DEF DeleteInv
  <1>13. ASSUME NEW s \in Sources, UserEdit(s) PROVE DeleteInv'
    <2>1. /\ UNCHANGED <<worker, seen, pc, todo, missed, left>>
          /\ \A x \in Sources : live(x)' \subseteq live(x)
      BY <1>2, <1>13 DEF UserEdit, pass
    <2>2. \A x \in Sources : phase'[x] = "gone" => phase[x] = "gone" /\ spec'[x] = spec[x]
      BY <1>0, <1>13 DEF UserEdit, WorldType
    <2> QED
      BY <1>0, <1>1, <2>1, <2>2 DEF DeleteInv
  <1>14. ASSUME NEW s \in Sources, UserDelete(s) PROVE DeleteInv'
    <2>1. /\ UNCHANGED <<spec, worker, seen, pc, todo, missed, left>>
          /\ \A x \in Sources : live(x)' \subseteq live(x)
      BY <1>2, <1>14 DEF UserDelete
    <2>2. /\ phase[s] = "live"
          /\ phase' = [phase EXCEPT ![s] = IF s \in fin THEN "deleting" ELSE "gone"]
      BY <1>14 DEF UserDelete
    <2>3. s \notin fin => live(s) = {}
      BY <1>0, <2>2 DEF LabelInv, live, managed
    <2> QED
      BY <1>0, <1>1, <2>1, <2>2, <2>3 DEF DeleteInv, WorldType
  <1>15. ASSUME NEW s \in Sources, WorldChange(s) PROVE DeleteInv'
    <2>1. /\ UNCHANGED <<phase, spec, worker, seen, pc, todo, missed, left>>
          /\ \A x \in Sources : live(x)' \subseteq live(x)
      BY <1>2, <1>15 DEF WorldChange, object, pass
    <2> QED
      BY <1>0, <1>1, <2>1 DEF DeleteInv
  <1>16. ASSUME NEW s \in Sources, Fire(s) PROVE DeleteInv'
    <2>1. /\ UNCHANGED <<phase, spec, worker, seen, pc, todo, missed, left>>
          /\ \A x \in Sources : live(x)' \subseteq live(x)
      BY <1>2, <1>16 DEF Fire, object, pass
    <2> QED
      BY <1>0, <1>1, <2>1 DEF DeleteInv
  <1>17. ASSUME NEW n \in Names, UserServer(n) PROVE DeleteInv'
    <2>1. /\ UNCHANGED <<phase, spec, worker, seen, pc, todo, missed, left>>
          /\ \A x \in Sources : live(x)' \subseteq live(x)
      BY <1>2, <1>17 DEF UserServer, object, pass
    <2> QED
      BY <1>0, <1>1, <2>1 DEF DeleteInv
  <1>18. ASSUME NEW n \in Names, ServerGone(n) PROVE DeleteInv'
    <2>1. /\ UNCHANGED <<phase, spec, worker, seen, pc, todo, missed, left>>
          /\ \A x \in Sources : live(x)' \subseteq live(x)
      BY <1>2, <1>18 DEF ServerGone, object, pass
    <2> QED
      BY <1>0, <1>1, <2>1 DEF DeleteInv
  <1>19. ASSUME NEW n \in Names, GarbageCollect(n) PROVE DeleteInv'
    <2>1. /\ UNCHANGED <<phase, spec, worker, seen, pc, todo, missed, left>>
          /\ \A x \in Sources : live(x)' \subseteq live(x)
      BY <1>2, <1>19 DEF GarbageCollect, object, pass
    <2> QED
      BY <1>0, <1>1, <2>1 DEF DeleteInv
  <1>20. CASE Crash
    BY <1>0, <1>1, <1>2, <1>20 DEF Crash, End, DeleteInv, PassType, WorldType, object, servers, pass
  <1>21. CASE UNCHANGED vars
    BY <1>0, <1>1, <1>2, <1>21 DEF DeleteInv, PassType, WorldType, object, servers, pass, vars
  <1>22. ASSUME NEW n \in Names, Sync(n) PROVE DeleteInv'
    <2>1. /\ UNCHANGED <<phase, spec, worker, seen, pc, todo, missed, left>>
          /\ \A x \in Sources : live(x)' \subseteq live(x)
      BY <1>2, <1>22 DEF Sync, object, pass
    <2> QED
      BY <1>0, <1>1, <2>1 DEF DeleteInv
  <1> QED
    BY <1>3, <1>4, <1>5, <1>6, <1>7, <1>8, <1>9, <1>10, <1>11, <1>12, <1>13, <1>14, <1>15,
       <1>16, <1>17, <1>18, <1>19, <1>20, <1>21, <1>22
       DEF Next, Step, Environment

\* A source that is gone left no live server behind (reconcileDelete), unless its last
\* spec is Additive without ownership, but those its last list did not show or could not
\* be had for and those whose Delete failed: for any sources, the ones that make the same
\* name included.
THEOREM NothingLeft == Spec => []LeavesNothing
  <1>1. Init => DeleteInv
    BY DEF Init, DeleteInv
  <1>2. DeleteInv => LeavesNothing
    BY DEF DeleteInv, LeavesNothing, live
  <1> QED
    BY <1>1, <1>2, DeleteStep, LabelsHold, SourceHolds, TypeHolds, PTL DEF Spec

-----------------------------------------------------------------------------
(* What a sync reports *)

\* Every step keeps SyncInv.
LEMMA SyncStep ==
    ASSUME TypeInv, LabelInv, SyncInv, [Next]_vars
    PROVE  SyncInv'
  <1>0. PassType /\ WorldType /\ TypeOK /\ LabelInv /\ SyncInv
    BY TypeParts DEF TypeInv
  <1>1. pc # "idle" => worker \in Sources
    BY <1>0 DEF PassType
  <1>2. UNCHANGED todo \/ pc # "manage" => \A s \in Sources : live(s)' \subseteq live(s)
    <2> SUFFICES ASSUME UNCHANGED todo \/ pc # "manage"
                 PROVE  \A s \in Sources : live(s)' \subseteq live(s)
      OBVIOUS
    <2>1. ~createOrUpdateMCPServer
      BY DEF createOrUpdateMCPServer, Managed
    <2> QED
      BY <2>1, OnlyManaged
  <1>3. ASSUME NEW s \in Sources, Reconcile(s) PROVE SyncInv'
    BY <1>0, <1>1, <1>2, <1>3
       DEF Reconcile, FirstCall, First, DelFirst, SyncInv, SyncCalls, PassType, WorldType, pass
  <1>4. CASE AddFinalizer
    BY <1>0, <1>1, <1>2, <1>4
       DEF AddFinalizer, UpdateFails, Retry, End, First, SyncInv, SyncCalls, PassType,
          WorldType, pass
  <1>5. CASE Scan
    <2>1. pc = "scan" /\ worker \in Sources /\ UNCHANGED <<seen, worker>>
      BY <1>1, <1>5 DEF Scan
    <2>2. PICK r \in discoverProviders(worker) :
             /\ unread' = r.unread
             /\ found' = applyFilters(r.found, seen)
             /\ todo' = found'
             /\ out' = CASE r.err                -> "DiscoveryFailed"
                         [] ~r.err /\ r.partial  -> "PartialFailure"
                         [] ~r.err /\ ~r.partial -> "SyncCompleted"
             /\ pc' = IF r.err THEN "writeStatus" ELSE AfterManage(found')
      BY <1>5 DEF Scan
    <2>3. /\ r.found \in SUBSET Names /\ seen \in SpecSet
          /\ r.err \in BOOLEAN /\ r.partial \in BOOLEAN
          /\ ~r.err /\ ~r.partial => r.unread = {}
      BY <1>0, <2>1, ScanFacts, SpecFacts
    <2>4. Cardinality(found') <= seen.limit
      BY <2>2, <2>3, FilterFacts
    <2>5. out' = "SyncCompleted" => pc' = AfterManage(found') /\ unread' = {}
      BY <2>2, <2>3
    <2> QED
      BY <2>1, <2>2, <2>4, <2>5 DEF SyncInv, AfterManage
  <1>6. CASE createOrUpdateMCPServer
    <2>1. pc = "manage" /\ UNCHANGED <<seen, worker, found, unread>>
      BY <1>6 DEF createOrUpdateMCPServer
    <2>2. PICK n \in todo :
             /\ todo' = todo \ {n} /\ pc' = AfterManage(todo')
             /\ \/ n \notin BadNames /\ UNCHANGED out
                \/ out' = "PartialFailure"
      BY <1>6 DEF createOrUpdateMCPServer, Managed, Wrong
    <2>3. out' = "SyncCompleted" => found' \cap BadNames \subseteq todo'
      BY <1>0, <2>1, <2>2 DEF SyncInv
    <2>4. pc' \in {"manage", "sync", "writeStatus"} /\ pc' # "manage" => todo' = {}
      BY <2>2 DEF AfterManage
    <2>5. pc' = "writeStatus" => ~seen.authoritative
      BY <2>2 DEF AfterManage
    <2>6. /\ Cardinality(found') <= seen'.limit
          /\ out' = "SyncCompleted" => unread' = {}
      BY <1>0, <2>1, <2>2 DEF SyncInv, SyncCalls
    <2>7. pc' # "delete"
      BY <2>2 DEF AfterManage
    <2> QED
      BY <2>1, <2>3, <2>4, <2>5, <2>6, <2>7 DEF SyncInv
  <1>7. CASE authoritativeSync
    <2>1. pc = "sync" /\ worker \in Sources /\ UNCHANGED <<seen, worker, found, unread, server>>
      BY <1>1, <1>7 DEF authoritativeSync, servers
    <2>2. \/ out' = "PartialFailure" /\ pc' = "writeStatus"
          \/ /\ UNCHANGED out /\ todo' = listed(worker) \ found
             /\ missed' = managed(worker) \ listed(worker)
             /\ pc' = IF todo' = {} THEN "writeStatus" ELSE "delete"
      BY <1>7 DEF authoritativeSync, Wrong
    <2>3. live(worker)' \subseteq managed(worker)
      BY <2>1 DEF live, managed
    <2>4. Cardinality(found') <= seen'.limit
      BY <1>0, <2>1 DEF SyncInv, SyncCalls
    <2>5. UNCHANGED out /\ out = "SyncCompleted" => found' \cap BadNames = {} /\ unread' = {}
      BY <1>0, <2>1 DEF SyncInv, SyncCalls
    <2> QED
      BY <2>1, <2>2, <2>3, <2>4, <2>5 DEF SyncInv
  <1>8. CASE DeleteServer
    <2>1. UNCHANGED <<worker, seen, found, unread>> /\ worker \in Sources
      BY <1>1, <1>8 DEF DeleteServer
    <2>2. live(worker)' \subseteq live(worker)
      BY <1>2, <1>8, <2>1 DEF DeleteServer
    <2>3. PICK n \in todo : /\ todo' = todo \ {n}
                            /\ \/ server' = Terminated(n) /\ UNCHANGED <<out, missed>>
                               \/ pc = "delDelete" \/ out' = "PartialFailure"
      BY <1>8 DEF DeleteServer, Wrong
    <2>4. n \in Names
      BY <1>0 DEF PassType
    <2>5. server' = Terminated(n) => n \notin live(worker)'
      BY <1>0, <2>1, <2>4, TerminatedFacts DEF live, managed
    <2>6. CASE pc = "delDelete"
      BY <1>0, <1>8, <2>6 DEF DeleteServer, SyncInv, SyncCalls
    <2>7. CASE pc = "delete"
      <3>1. pc' = IF todo' # {} THEN "delete" ELSE "writeStatus"
        BY <1>8, <2>7 DEF DeleteServer
      <3>2. Cardinality(found') <= seen'.limit
        BY <1>0, <2>1, <2>7 DEF SyncInv, SyncCalls
      <3>3. out' = "SyncCompleted" => /\ found' \cap BadNames = {} /\ unread' = {}
                                      /\ live(worker)' \subseteq found' \cup todo' \cup missed'
        BY <1>0, <2>1, <2>2, <2>3, <2>5, <2>7 DEF SyncInv, SyncCalls
      <3> QED
        BY <2>1, <3>1, <3>2, <3>3 DEF SyncInv
    <2> QED
      BY <1>8, <2>6, <2>7 DEF DeleteServer
  <1>9. CASE WriteStatus
    BY <1>0, <1>1, <1>2, <1>9
       DEF WriteStatus, UpdateFails, Retry, End, SyncInv, SyncCalls, PassType, WorldType, pass
  <1>10. CASE DelList
    BY <1>0, <1>1, <1>2, <1>10 DEF DelList, SyncInv, SyncCalls, PassType, WorldType, pass
  <1>11. CASE RemoveFinalizer
    BY <1>0, <1>1, <1>2, <1>11
       DEF RemoveFinalizer, UpdateFails, Retry, End, SyncInv, SyncCalls, PassType, WorldType,
          pass
  <1>12. ASSUME NEW s \in Sources, UserCreate(s) PROVE SyncInv'
    <2>1. /\ UNCHANGED <<worker, seen, pc, todo, out, found, unread, missed>>
          /\ \A x \in Sources : live(x)' \subseteq live(x)
      BY <1>2, <1>12 DEF UserCreate, pass
    <2> QED
      BY <1>0, <1>1, <2>1 DEF SyncInv, SyncCalls
  <1>13. ASSUME NEW s \in Sources, UserEdit(s) PROVE SyncInv'
    <2>1. /\ UNCHANGED <<worker, seen, pc, todo, out, found, unread, missed>>
          /\ \A x \in Sources : live(x)' \subseteq live(x)
      BY <1>2, <1>13 DEF UserEdit, pass
    <2> QED
      BY <1>0, <1>1, <2>1 DEF SyncInv, SyncCalls
  <1>14. ASSUME NEW s \in Sources, UserDelete(s) PROVE SyncInv'
    <2>1. /\ UNCHANGED <<worker, seen, pc, todo, out, found, unread, missed>>
          /\ \A x \in Sources : live(x)' \subseteq live(x)
      BY <1>2, <1>14 DEF UserDelete, pass
    <2> QED
      BY <1>0, <1>1, <2>1 DEF SyncInv, SyncCalls
  <1>15. ASSUME NEW s \in Sources, WorldChange(s) PROVE SyncInv'
    <2>1. /\ UNCHANGED <<worker, seen, pc, todo, out, found, unread, missed>>
          /\ \A x \in Sources : live(x)' \subseteq live(x)
      BY <1>2, <1>15 DEF WorldChange, pass
    <2> QED
      BY <1>0, <1>1, <2>1 DEF SyncInv, SyncCalls
  <1>16. ASSUME NEW s \in Sources, Fire(s) PROVE SyncInv'
    <2>1. /\ UNCHANGED <<worker, seen, pc, todo, out, found, unread, missed>>
          /\ \A x \in Sources : live(x)' \subseteq live(x)
      BY <1>2, <1>16 DEF Fire, pass
    <2> QED
      BY <1>0, <1>1, <2>1 DEF SyncInv, SyncCalls
  <1>17. ASSUME NEW n \in Names, UserServer(n) PROVE SyncInv'
    <2>1. /\ UNCHANGED <<worker, seen, pc, todo, out, found, unread, missed>>
          /\ \A x \in Sources : live(x)' \subseteq live(x)
      BY <1>2, <1>17 DEF UserServer, pass
    <2> QED
      BY <1>0, <1>1, <2>1 DEF SyncInv, SyncCalls
  <1>18. ASSUME NEW n \in Names, ServerGone(n) PROVE SyncInv'
    <2>1. /\ UNCHANGED <<worker, seen, pc, todo, out, found, unread, missed>>
          /\ \A x \in Sources : live(x)' \subseteq live(x)
      BY <1>2, <1>18 DEF ServerGone, pass
    <2> QED
      BY <1>0, <1>1, <2>1 DEF SyncInv, SyncCalls
  <1>19. ASSUME NEW n \in Names, GarbageCollect(n) PROVE SyncInv'
    <2>1. /\ UNCHANGED <<worker, seen, pc, todo, out, found, unread, missed>>
          /\ \A x \in Sources : live(x)' \subseteq live(x)
      BY <1>2, <1>19 DEF GarbageCollect, pass
    <2> QED
      BY <1>0, <1>1, <2>1 DEF SyncInv, SyncCalls
  <1>20. CASE Crash
    BY <1>0, <1>1, <1>2, <1>20 DEF Crash, End, SyncInv, SyncCalls, PassType, WorldType, pass
  <1>21. CASE UNCHANGED vars
    BY <1>0, <1>1, <1>2, <1>21 DEF SyncInv, SyncCalls, PassType, WorldType, pass, vars
  <1>22. ASSUME NEW n \in Names, Sync(n) PROVE SyncInv'
    <2>1. /\ UNCHANGED <<worker, seen, pc, todo, out, found, unread, missed>>
          /\ \A x \in Sources : live(x)' \subseteq live(x)
      BY <1>2, <1>22 DEF Sync, pass
    <2> QED
      BY <1>0, <1>1, <2>1 DEF SyncInv, SyncCalls
  <1> QED
    BY <1>3, <1>4, <1>5, <1>6, <1>7, <1>8, <1>9, <1>10, <1>11, <1>12, <1>13, <1>14, <1>15,
       <1>16, <1>17, <1>18, <1>19, <1>20, <1>21, <1>22
       DEF Next, Step, Environment

\* What a sync reports as completed it has read in full, and an Authoritative one is all
\* there is: its live servers are of its scan, under valid names, at most maxProviders of
\* them, or the list did not show them yet.
THEOREM ExactHolds == Spec => []CompletedIsExact
  <1>1. Init => SyncInv
    BY DEF Init, SyncInv, SyncCalls
  <1>2. SyncInv => CompletedIsExact
    BY DEF SyncInv, SyncCalls, CompletedIsExact, live
  <1> QED
    BY <1>1, <1>2, SyncStep, LabelsHold, SourceHolds, TypeHolds, PTL DEF Spec

=============================================================================
