---------------------------- MODULE Registration ----------------------------
(***************************************************************************)
(* How the MCPServer controller puts a server into core and takes it out   *)
(* again (internal/controller/mcpserver_registration.go).                  *)
(*                                                                         *)
(* Core keys servers by name across the cluster, so several MCPServers can *)
(* name the same server.  A Lease per name, the claim, decides whose it    *)
(* is.  Names do not interact, so the module follows one name: CRs are the *)
(* MCPServers that carry it, one per namespace and incarnation (UID).      *)
(*                                                                         *)
(* A reconcile pass is a sequence of calls to the API server and to core.  *)
(* Every call is one action, and passes of different CRs (there are        *)
(* --max-concurrent-reconciles workers), users, core and other callers of  *)
(* core interleave between any two of them.                                *)
(***************************************************************************)
EXTENDS Naturals

CONSTANTS
    CRs,             \* MCPServers that carry the name
    Container,       \* those in container mode; the others are remote
    Stamped,         \* containers whose Deployment says core discovered them
    Endpoints,       \* addresses of upstreams and pods
    TLSBlocks,       \* peer-identity blocks of key-pinned servers
    MaxFaults,       \* bound: failed calls, refusals, lost replies, crashes
    RetryLosesReply, \* a registration's reply may be lost and the POST repeated
    OldCore,         \* core may be one before 2.32.0, which reports no provenance
    CoreForgets      \* core may lose a server the operator registered

Nobody     == "nobody"
Human      == "human"       \* core's config, or another caller of core's API
Latecomer  == "latecomer"   \* the same, added while a CR claimed the name or was about to
Discovery  == "discovery"   \* core's own discovery of the operator's pods
NoEndpoint == ""
NoTLS      == ""
Discovered == "discovered"  \* claimEndpointDiscovered

ASSUME CRsAssumption ==
    /\ Nobody \notin CRs /\ Human \notin CRs /\ Latecomer \notin CRs /\ Discovery \notin CRs
    /\ Container \subseteq CRs
    /\ Stamped \subseteq Container
ASSUME DataAssumption ==
    /\ NoEndpoint \notin Endpoints /\ Discovered \notin Endpoints
    /\ NoTLS \notin TLSBlocks
ASSUME BoundAssumption == MaxFaults \in Nat
ASSUME SwitchAssumption ==
    /\ RetryLosesReply \in BOOLEAN
    /\ OldCore \in BOOLEAN
    /\ CoreForgets \in BOOLEAN

VARIABLES
    phase,   \* phase[c]: the CR object, from creation to its removal
    fin,     \* the CRs that carry the operator's finalizer
    spec,    \* spec[c]: endpoint (a container's is its pod's) and tls block
    status,  \* status[c]: what the last pass reported
    warned,  \* warned[c]: what a deletion's Warning events said it left behind
    lease,   \* the Lease that claims the name
    core,    \* what core holds under the name
    reports, \* core says how a server reached it (its version is fixed)
    pc,      \* pc[c]: the call the pass of c makes next
    claim,   \* claim[c]: the pass's copy of the claim
    seen,    \* seen[c]: the pass's copy of the spec
    faults   \* calls that failed so far

objects == <<phase, fin, spec>>
pass    == <<pc, claim, seen>>
vars    == <<phase, fin, spec, status, warned, lease, core, reports, pc, claim, seen, faults>>

-----------------------------------------------------------------------------
(* State *)

Lease   == [holder : CRs \cup {Nobody}, endpoint : Endpoints \cup {NoEndpoint, Discovered},
            tls : TLSBlocks \cup {NoTLS}, started : BOOLEAN]
NoLease == [holder |-> Nobody, endpoint |-> NoEndpoint, tls |-> NoTLS, started |-> FALSE]

\* by is who put the server there.  state is what core knows of the upstream:
\* nobody called it yet, it answered, or it fails.
Server   == [by : CRs \cup {Nobody, Human, Latecomer, Discovery},
             endpoint : Endpoints \cup {NoEndpoint},
             tls : TLSBlocks \cup {NoTLS}, state : {"uncalled", "answered", "failing"}]
NoServer == [by |-> Nobody, endpoint |-> NoEndpoint, tls |-> NoTLS, state |-> "uncalled"]

Spec0  == [endpoint |-> NoEndpoint, tls |-> NoTLS]
AnySpec == [endpoint : Endpoints \cup {NoEndpoint}, tls : TLSBlocks \cup {NoTLS}]

\* A remote server has an endpoint; a container's is empty while its pod has
\* no address.
SpecOf(c) == {s \in AnySpec : c \in Container \/ s.endpoint # NoEndpoint}

Calls == {"addFinalizer", "getClaim", "peerIdentity", "refuseDeregister",
          "refuseRelease", "deliver", "recordDelivered", "deregister",
          "recordEndpoint", "health", "provenance", "takeDiscovered", "move",
          "recordMoved", "take", "post", "recordTLS", "giveBack", "start",
          "recordStarted", "read",
          "delGetClaim", "delDeregister", "delRelease", "delFinalizer"}

holds(l, c) == l.holder = c

keyPinned(c) == seen[c].tls # NoTLS

-----------------------------------------------------------------------------
(* Parts of a pass *)

Goto(c, p) == pc' = [pc EXCEPT ![c] = p]

\* The pass returns; controller-runtime runs c again, at the latest after the
\* requeue interval.
End(c) == /\ pc'    = [pc EXCEPT ![c] = "idle"]
          /\ claim' = [claim EXCEPT ![c] = NoLease]
          /\ seen'  = [seen EXCEPT ![c] = Spec0]

\* writeRegistrationStatus and writeStatus: the write may be refused (409),
\* and the pass ends all the same.
Report(c, s) == /\ End(c)
                /\ status' \in {status, [status EXCEPT ![c] = s]}

Fault == /\ faults < MaxFaults
         /\ faults' = faults + 1

\* The call fails and the pass returns its error: nothing is written.
FailCall(c) == /\ Fault
               /\ End(c)
               /\ UNCHANGED <<objects, status, warned, lease, core>>

\* annotate is an Update carrying the copy's resourceVersion: it is refused
\* once the Lease is no longer the one this pass read or wrote last.
annotate(c, l, next) ==
    \/ /\ lease = claim[c]
       /\ lease' = l
       /\ claim' = [claim EXCEPT ![c] = l]
       /\ Goto(c, next)
       /\ UNCHANGED <<objects, status, warned, core, seen, faults>>
    \/ /\ IF lease = claim[c] THEN Fault ELSE UNCHANGED faults
       /\ End(c)
       /\ UNCHANGED <<objects, status, warned, lease, core>>

-----------------------------------------------------------------------------
(* Reconcile: the finalizer first, the registration after it *)

\* Mutant: the pass registers before the finalizer is on the CR.
FirstCall_NoFinalizer(c) == IF phase[c] = "deleting" THEN "delGetClaim" ELSE "getClaim"

FirstCall(c) ==
    IF phase[c] = "deleting" THEN "delGetClaim"
    ELSE IF c \in fin THEN "getClaim" ELSE "addFinalizer"

Reconcile(c) ==
    /\ pc[c] = "idle"
    /\ phase[c] \in {"live", "deleting"}
    /\ seen' = [seen EXCEPT ![c] = spec[c]]
    /\ Goto(c, FirstCall(c))
    /\ UNCHANGED <<objects, status, warned, lease, core, claim, faults>>

\* The CR was edited since the pass read it.  A pod's address is not part of
\* the object.
Edited(c) == \/ spec[c].tls # seen[c].tls
             \/ c \notin Container /\ spec[c].endpoint # seen[c].endpoint

\* The Update carries the resourceVersion read: a CR edited or deleted in the
\* meantime refuses it.
AddFinalizer(c) ==
    /\ pc[c] = "addFinalizer"
    /\ \/ /\ phase[c] = "live" /\ ~Edited(c)
          /\ fin' = fin \cup {c}
          /\ Goto(c, "getClaim")
          /\ UNCHANGED <<phase, spec, status, warned, lease, core, claim, seen, faults>>
       \/ /\ phase[c] # "live" \/ Edited(c)
          /\ End(c)
          /\ UNCHANGED <<objects, status, warned, lease, core, faults>>
       \/ FailCall(c)

-----------------------------------------------------------------------------
(* registration *)

\* What follows once the name is known not to be another CR's: a key-pinned
\* server, or one that was, is changed in place; a plain one whose endpoint
\* changed is removed and registered again; any other is looked up in core.
AfterClaim(c, l) ==
    IF /\ l # NoLease
       /\ seen[c].tls # NoTLS \/ l.tls # NoTLS
       /\ l.endpoint # seen[c].endpoint \/ l.tls # seen[c].tls
    THEN "deliver"
    ELSE IF l # NoLease /\ l.endpoint # seen[c].endpoint
    THEN IF l.endpoint # NoEndpoint THEN "deregister" ELSE "recordEndpoint"
    ELSE "health"

\* The claim is read past the cache.
GetClaim(c) ==
    /\ pc[c] = "getClaim"
    /\ \/ /\ lease # NoLease /\ ~holds(lease, c)
          /\ Report(c, "NameTaken")
          /\ UNCHANGED <<objects, warned, lease, core, faults>>
       \/ /\ lease = NoLease \/ holds(lease, c)
          /\ claim' = [claim EXCEPT ![c] = lease]
          /\ Goto(c, IF keyPinned(c) THEN "peerIdentity" ELSE AfterClaim(c, lease))
          /\ UNCHANGED <<objects, status, warned, lease, core, seen, faults>>
       \/ FailCall(c)

\* peerIdentityRefusal: core is asked for its capabilities over https.  A
\* refusal removes whatever this CR registered before.
PeerIdentity(c) ==
    /\ pc[c] = "peerIdentity"
    /\ \/ /\ Goto(c, AfterClaim(c, claim[c]))
          /\ UNCHANGED <<objects, status, warned, lease, core, claim, seen, faults>>
       \/ /\ Fault /\ claim[c] # NoLease
          /\ Goto(c, "refuseDeregister")
          /\ UNCHANGED <<objects, status, warned, lease, core, claim, seen>>
       \/ /\ Fault /\ claim[c] = NoLease
          /\ Report(c, "Degraded")
          /\ UNCHANGED <<objects, warned, lease, core>>
       \/ FailCall(c)

\* DeregisterMCPServer, DELETE by name; a 404 is success.  A call whose reply
\* is lost may have removed the server.
Deregister(c, next) ==
    \/ /\ core' = NoServer
       /\ Goto(c, next)
       /\ UNCHANGED <<objects, status, warned, lease, claim, seen, faults>>
    \/ /\ Fault
       /\ core' \in {core, NoServer}
       /\ End(c)
       /\ UNCHANGED <<objects, status, warned, lease>>

\* release deletes the Lease by name, whoever holds it by then.
Release(c, s) ==
    \/ /\ lease' = NoLease
       /\ Report(c, s)
       /\ UNCHANGED <<objects, warned, core, faults>>
    \/ FailCall(c)

\* Mutant: a refused key list only gives the name back.
RefuseDeregister_Skipped(c) ==
    /\ pc[c] = "refuseDeregister"
    /\ Goto(c, "refuseRelease")
    /\ UNCHANGED <<objects, status, warned, lease, core, claim, seen, faults>>

RefuseDeregister(c) == pc[c] = "refuseDeregister" /\ Deregister(c, "refuseRelease")
RefuseRelease(c)    == pc[c] = "refuseRelease" /\ Release(c, "Degraded")

\* UpdateMCPServerConnection, PUT: core changes endpoint and tls in place, and
\* starts afresh on a new endpoint.  A server it discovered becomes the
\* operator's.
Updated(c) == [by |-> IF core.by = Discovery THEN c ELSE core.by,
               endpoint |-> seen[c].endpoint, tls |-> seen[c].tls,
               state |-> IF core.endpoint = seen[c].endpoint THEN core.state ELSE "uncalled"]

deliverConnection(c, next) ==
    \/ /\ core # NoServer
       /\ core' = Updated(c)
       /\ Goto(c, next)
       /\ UNCHANGED <<objects, status, warned, lease, claim, seen, faults>>
    \/ /\ core = NoServer      \* 404: a registration sends the block
       /\ Goto(c, next)
       /\ UNCHANGED <<objects, status, warned, lease, core, claim, seen, faults>>
    \/ /\ Fault                \* refused, conflicting, or its reply lost
       /\ core' \in {core, IF core = NoServer THEN NoServer ELSE Updated(c)}
       /\ Report(c, "Degraded")
       /\ UNCHANGED <<objects, warned, lease>>

\* What deliverConnection records on the claim.
Delivered(c) == [claim[c] EXCEPT !.endpoint = seen[c].endpoint, !.tls = seen[c].tls]

Deliver(c)         == pc[c] = "deliver" /\ deliverConnection(c, "recordDelivered")
RecordDelivered(c) == pc[c] = "recordDelivered" /\ annotate(c, Delivered(c), "health")

\* A plain endpoint change: deregistered first and the claim moved second.
DeregisterOld(c) == pc[c] = "deregister" /\ Deregister(c, "recordEndpoint")
Moved(c) == [claim[c] EXCEPT !.endpoint = seen[c].endpoint, !.started = FALSE]
RecordEndpoint(c) == pc[c] = "recordEndpoint" /\ annotate(c, Moved(c), "health")

\* register with a claim in hand: a plain container without an address has
\* nothing to send yet.
ToRegister(c) == IF ~keyPinned(c) /\ seen[c].endpoint = NoEndpoint THEN "read" ELSE "post"

\* Mutants: core is asked before the name is claimed; a claim is taken to mean
\* that the registration went through.
register_Unclaimed(c) == ToRegister(c)
register_ClaimedOnly(c) == IF claim[c] = NoLease THEN "take" ELSE "read"

\* register claims the name, then asks core.
register(c) == IF claim[c] = NoLease THEN "take" ELSE ToRegister(c)

\* The health read and the switch on its answer.
Health(c) ==
    /\ pc[c] = "health"
    /\ \/ /\ core = NoServer
          /\ Goto(c, register(c))
          /\ UNCHANGED <<objects, status, warned, lease, core, claim, seen, faults>>
       \/ /\ core # NoServer /\ claim[c] = NoLease
          /\ c \in Stamped \/ ~(keyPinned(c) \/ c \in Container)
          /\ Goto(c, IF c \in Stamped THEN "provenance" ELSE "read")
          /\ UNCHANGED <<objects, status, warned, lease, core, claim, seen, faults>>
       \/ /\ core # NoServer /\ claim[c] = NoLease
          /\ c \notin Stamped /\ (keyPinned(c) \/ c \in Container)
          /\ Report(c, "NameTaken")
          /\ UNCHANGED <<objects, warned, lease, core, faults>>
       \/ /\ core # NoServer /\ claim[c] # NoLease
          /\ Goto(c, IF ~claim[c].started /\ seen[c].endpoint # NoEndpoint
                     THEN "start" ELSE "read")
          /\ UNCHANGED <<objects, status, warned, lease, core, claim, seen, faults>>
       \/ /\ Fault             \* core could not be asked
          /\ Goto(c, "read")
          /\ UNCHANGED <<objects, status, warned, lease, core, claim, seen>>

\* Mutant: the Deployment alone decides, whatever core says.
Provenance_Unasked(c) ==
    /\ pc[c] = "provenance"
    /\ Goto(c, "takeDiscovered")
    /\ UNCHANGED <<objects, status, warned, lease, core, claim, seen, faults>>

\* discoveredFromItsOwnPod asks core for the provenance of the server.  A core
\* that reports none leaves the decision to the Deployment, whose stamp brought
\* the pass here.  A 404 and an error are a no.
Provenance(c) ==
    /\ pc[c] = "provenance"
    /\ \/ /\ core.by = Discovery \/ (~reports /\ core # NoServer)
          /\ Goto(c, "takeDiscovered")
          /\ UNCHANGED <<objects, status, warned, lease, core, claim, seen, faults>>
       \/ /\ core.by # Discovery /\ (reports \/ core = NoServer)
          /\ Report(c, "NameTaken")
          /\ UNCHANGED <<objects, warned, lease, core, faults>>
       \/ /\ Fault
          /\ Report(c, "NameTaken")
          /\ UNCHANGED <<objects, warned, lease, core>>

\* Mutant: the server's name in the place of its endpoint.
Claimed_Name(c, endpoint) == [holder |-> c, endpoint |-> c, tls |-> NoTLS, started |-> FALSE]

\* The Lease that take creates.
Claimed(c, endpoint) == [holder |-> c, endpoint |-> endpoint, tls |-> NoTLS, started |-> FALSE]

\* Mutant: AlreadyExists counts as held.
take_AnyHolder(c, endpoint, next) ==
    /\ lease' = IF lease = NoLease THEN Claimed(c, endpoint) ELSE lease
    /\ claim' = [claim EXCEPT ![c] = lease']
    /\ Goto(c, next)
    /\ UNCHANGED <<objects, status, warned, core, seen, faults>>

\* take: creating the Lease is atomic.  On AlreadyExists the Lease is read, and
\* is the claim only if c holds it.  A Create whose reply is lost leaves the
\* Lease to the next pass.
take(c, endpoint, next) ==
    \/ /\ lease = NoLease \/ holds(lease, c)
       /\ lease' = IF lease = NoLease THEN Claimed(c, endpoint) ELSE lease
       /\ claim' = [claim EXCEPT ![c] = lease']
       /\ Goto(c, next)
       /\ UNCHANGED <<objects, status, warned, core, seen, faults>>
    \/ /\ lease # NoLease /\ ~holds(lease, c)
       /\ End(c)
       /\ UNCHANGED <<objects, status, warned, lease, core, faults>>
    \/ /\ Fault
       /\ lease' \in {lease, IF lease = NoLease THEN Claimed(c, endpoint) ELSE lease}
       /\ End(c)
       /\ UNCHANGED <<objects, status, warned, core>>

TakeDiscovered(c) == pc[c] = "takeDiscovered" /\ take(c, Discovered, "move")
Move(c)           == pc[c] = "move" /\ deliverConnection(c, "recordMoved")
RecordMoved(c)    == pc[c] = "recordMoved" /\ annotate(c, Delivered(c), "read")

Take(c) == pc[c] = "take" /\ take(c, seen[c].endpoint, ToRegister(c))

\* POST /api/mcp_servers/.  The client repeats a POST whose reply is lost: core
\* took the first one and answers the second "already exists".
Registered(c) == [by |-> c, endpoint |-> seen[c].endpoint, tls |-> seen[c].tls,
                  state |-> "uncalled"]

Post(c) ==
    /\ pc[c] = "post"
    /\ \/ /\ core = NoServer
          /\ core' = Registered(c)
          /\ Goto(c, "recordTLS")
          /\ UNCHANGED <<objects, status, warned, lease, claim, seen, faults>>
       \/ /\ core # NoServer
          /\ Goto(c, "giveBack")
          /\ UNCHANGED <<objects, status, warned, lease, core, claim, seen, faults>>
       \/ /\ RetryLosesReply /\ core = NoServer /\ Fault
          /\ core' = Registered(c)
          /\ Goto(c, "giveBack")
          /\ UNCHANGED <<objects, status, warned, lease, claim, seen>>
       \/ /\ Fault             \* refused, or no reply at all
          /\ core' \in {core, IF core = NoServer THEN Registered(c) ELSE core}
          /\ Report(c, "Degraded")
          /\ UNCHANGED <<objects, warned, lease>>

WithTLS(c) == [claim[c] EXCEPT !.tls = seen[c].tls]
RecordTLS(c) ==
    /\ pc[c] = "recordTLS"
    /\ annotate(c, WithTLS(c), IF seen[c].endpoint = NoEndpoint THEN "read" ELSE "start")

\* "Not this operator's: give the claim back."
GiveBack(c) == pc[c] = "giveBack" /\ Release(c, "NameTaken")

\* The server as core knows it after calling it.
Called(s) == [core EXCEPT !.state = s]

\* start: for a remote server, core connects to it.
Start(c) ==
    /\ pc[c] = "start"
    /\ \/ /\ core # NoServer
          /\ core' = Called("answered")
          /\ Goto(c, "recordStarted")
          /\ UNCHANGED <<objects, status, warned, lease, claim, seen, faults>>
       \/ /\ core # NoServer   \* the upstream does not answer
          /\ core' = Called("failing")
          /\ Fault
          /\ Report(c, "Degraded")
          /\ UNCHANGED <<objects, warned, lease>>
       \/ /\ IF core = NoServer THEN UNCHANGED faults ELSE Fault
          /\ Report(c, "Degraded")
          /\ UNCHANGED <<objects, warned, lease, core>>

Started(c) == [claim[c] EXCEPT !.started = TRUE]
RecordStarted(c) == pc[c] = "recordStarted" /\ annotate(c, Started(c), "read")

\* The read that ends a pass: core's health for a remote server, the tool list
\* (which core answers from its read model) for a container whose pod is ready.
Read(c) ==
    /\ pc[c] = "read"
    /\ \/ /\ core # NoServer
          /\ core.state # "failing" \/ c \in Container
          /\ Report(c, "Ready")
          /\ UNCHANGED faults
       \/ /\ core = NoServer \/ core.state = "failing" \/ c \in Container
          /\ Report(c, "Degraded")
          /\ UNCHANGED faults
       \/ /\ Fault
          /\ Report(c, "Degraded")
    /\ UNCHANGED <<objects, warned, lease, core>>

-----------------------------------------------------------------------------
(* reconcileDelete and deregisterOwned *)

\* Mutant: a CR that does not hold the claim waits until nobody does.
AfterDelClaim_Waits(c) ==
    IF holds(lease, c) THEN "delDeregister"
    ELSE IF lease = NoLease THEN "delFinalizer" ELSE "delGetClaim"

AfterDelClaim(c) == IF holds(lease, c) THEN "delDeregister" ELSE "delFinalizer"

DelGetClaim(c) ==
    /\ pc[c] = "delGetClaim"
    /\ \/ /\ Goto(c, AfterDelClaim(c))
          /\ UNCHANGED <<objects, status, warned, lease, core, claim, seen, faults>>
       \/ FailCall(c)

\* Mutant: the error is dropped without a word.
DelDeregister_Silent(c) ==
    /\ pc[c] = "delDeregister"
    /\ Goto(c, "delRelease")
    /\ \/ core' = NoServer /\ UNCHANGED faults
       \/ Fault /\ core' \in {core, NoServer}
    /\ UNCHANGED <<objects, status, warned, lease, claim, seen>>

\* A failed deregistration is reported and not retried.
DelDeregister(c) ==
    /\ pc[c] = "delDeregister"
    /\ Goto(c, "delRelease")
    /\ \/ /\ core' = NoServer
          /\ UNCHANGED <<warned, faults>>
       \/ /\ Fault
          /\ core' \in {core, NoServer}
          /\ warned' = [warned EXCEPT ![c] = @ \cup {"server"}]
    /\ UNCHANGED <<objects, status, lease, claim, seen>>

DelRelease(c) ==
    /\ pc[c] = "delRelease"
    /\ Goto(c, "delFinalizer")
    /\ \/ /\ lease' = NoLease
          /\ UNCHANGED <<warned, faults>>
       \/ /\ Fault
          /\ lease' \in {lease, NoLease}
          /\ warned' = [warned EXCEPT ![c] = @ \cup {"lease"}]
    /\ UNCHANGED <<objects, status, core, claim, seen>>

\* Removing the finalizer removes the object.
DelFinalizer(c) ==
    /\ pc[c] = "delFinalizer"
    /\ \/ /\ ~Edited(c)
          /\ phase' = [phase EXCEPT ![c] = "gone"]
          /\ fin'   = fin \ {c}
          /\ End(c)
          /\ UNCHANGED <<spec, status, warned, lease, core, faults>>
       \/ /\ Edited(c)
          /\ End(c)
          /\ UNCHANGED <<objects, status, warned, lease, core, faults>>
       \/ FailCall(c)

\* One call of the pass of c.
Step(c) ==
    /\ UNCHANGED reports
    /\ \/ Reconcile(c) \/ AddFinalizer(c) \/ GetClaim(c)
       \/ PeerIdentity(c) \/ RefuseDeregister(c) \/ RefuseRelease(c)
       \/ Deliver(c) \/ RecordDelivered(c) \/ DeregisterOld(c) \/ RecordEndpoint(c)
       \/ Health(c) \/ Provenance(c)
       \/ TakeDiscovered(c) \/ Move(c) \/ RecordMoved(c)
       \/ Take(c) \/ Post(c) \/ RecordTLS(c) \/ GiveBack(c)
       \/ Start(c) \/ RecordStarted(c) \/ Read(c)
       \/ DelGetClaim(c) \/ DelDeregister(c) \/ DelRelease(c) \/ DelFinalizer(c)

-----------------------------------------------------------------------------
(* Everything else that acts on the objects or on core *)

\* The operator's process dies: every pass is lost, what it wrote is not.
Crash ==
    /\ Fault
    /\ \E c \in CRs : pc[c] # "idle"
    /\ pc'    = [c \in CRs |-> "idle"]
    /\ claim' = [c \in CRs |-> NoLease]
    /\ seen'  = [c \in CRs |-> Spec0]
    /\ UNCHANGED <<objects, status, warned, lease, core>>

UserCreate(c) ==
    /\ phase[c] = "absent"
    /\ phase' = [phase EXCEPT ![c] = "live"]
    /\ \E s \in SpecOf(c) : spec' = [spec EXCEPT ![c] = s]
    /\ UNCHANGED <<fin, status, warned, lease, core, pass, faults>>

\* A user edits the spec, or a container's pod gains, changes or loses its
\* address.
Change(c) ==
    /\ phase[c] \in {"live", "deleting"}
    /\ \E s \in SpecOf(c) \ {spec[c]} : spec' = [spec EXCEPT ![c] = s]
    /\ UNCHANGED <<phase, fin, status, warned, lease, core, pass, faults>>

UserDelete(c) ==
    /\ phase[c] = "live"
    /\ phase' = [phase EXCEPT ![c] = IF c \in fin THEN "deleting" ELSE "gone"]
    /\ UNCHANGED <<fin, spec, status, warned, lease, core, pass, faults>>

\* "delete it by hand to reuse the name": the Lease of a CR that is gone.
AdminDeleteLease ==
    /\ lease # NoLease /\ phase[lease.holder] = "gone"
    /\ lease' = NoLease
    /\ UNCHANGED <<objects, status, warned, core, pass, faults>>

\* A CR holds the name's claim, or has found the name free and is about to
\* take it.
ClaimUnderWay == lease # NoLease \/ \E c \in CRs : pc[c] \in {"take", "takeDiscovered"}

\* Someone else adds the name to core.
ForeignAdd ==
    /\ core = NoServer
    /\ core' = [NoServer EXCEPT !.by = IF ClaimUnderWay THEN Latecomer ELSE Human]
    /\ UNCHANGED <<objects, status, warned, lease, pass, faults>>

\* Its owner removes it, or an administrator a leftover by hand.
ForeignRemove ==
    /\ \/ core.by \in {Human, Latecomer}
       \/ core.by \in CRs /\ phase[core.by] = "gone"
    /\ core' = NoServer
    /\ UNCHANGED <<objects, status, warned, lease, pass, faults>>

\* Core discovers a stamped pod, or drops it once the pod is gone.
Discover ==
    /\ core = NoServer
    /\ \E c \in Stamped :
          /\ phase[c] \in {"live", "deleting"} /\ spec[c].endpoint # NoEndpoint
          /\ core' = [NoServer EXCEPT !.by = Discovery, !.endpoint = spec[c].endpoint]
    /\ UNCHANGED <<objects, status, warned, lease, pass, faults>>

Expire ==
    /\ core.by = Discovery
    /\ core' = NoServer
    /\ UNCHANGED <<objects, status, warned, lease, pass, faults>>

\* Core's health worker calls the server.
Observe ==
    /\ core # NoServer
    /\ \E s \in {"answered", "failing"} : core' = Called(s)
    /\ UNCHANGED <<objects, status, warned, lease, pass, faults>>

\* A core without a durable store restarts.
Forget ==
    /\ CoreForgets /\ core.by \in CRs /\ Fault
    /\ core' = NoServer
    /\ UNCHANGED <<objects, status, warned, lease, pass>>

Environment ==
    /\ UNCHANGED reports
    /\ \/ Crash \/ AdminDeleteLease
       \/ \E c \in CRs : UserCreate(c) \/ Change(c) \/ UserDelete(c)
       \/ ForeignAdd \/ ForeignRemove \/ Discover \/ Expire \/ Observe \/ Forget

-----------------------------------------------------------------------------
(* Specification *)

Init ==
    /\ phase  = [c \in CRs |-> "absent"]
    /\ fin    = {}
    /\ spec   = [c \in CRs |-> Spec0]
    /\ status = [c \in CRs |-> "Pending"]
    /\ warned = [c \in CRs |-> {}]
    /\ lease  = NoLease
    /\ core   = NoServer
    /\ reports \in BOOLEAN /\ (OldCore \/ reports)
    /\ pc     = [c \in CRs |-> "idle"]
    /\ claim  = [c \in CRs |-> NoLease]
    /\ seen   = [c \in CRs |-> Spec0]
    /\ faults = 0

Next == (\E c \in CRs : Step(c)) \/ Environment

Spec == Init /\ [][Next]_vars

\* Every pass runs to its end and every CR is looked at again: the controller's
\* workers, its watches and the requeue every pass returns.
FairSpec == Spec /\ \A c \in CRs : WF_vars(Step(c))

-----------------------------------------------------------------------------
(* Properties *)

\* The type invariant: every variable, the passes' copies of the claim and the
\* spec included, holds a value of its kind.
TypeOK ==
    /\ phase  \in [CRs -> {"absent", "live", "deleting", "gone"}]
    /\ fin    \in SUBSET CRs
    /\ spec   \in [CRs -> AnySpec]
    /\ status \in [CRs -> {"Pending", "Ready", "NameTaken", "Degraded"}]
    /\ warned \in [CRs -> SUBSET {"server", "lease"}]
    /\ lease  \in Lease
    /\ core   \in Server
    /\ reports \in BOOLEAN
    /\ pc     \in [CRs -> Calls \cup {"idle"}]
    /\ claim  \in [CRs -> Lease]
    /\ seen   \in [CRs -> AnySpec]
    /\ faults \in 0..MaxFaults

\* "Registered and not claimed would leave a server in core that deleting the
\* CR never removes" (register): what a CR put into core is under that CR's
\* claim, or its deletion said in an event that the server stays.
OwnedIsClaimed ==
    core.by \in CRs => holds(lease, core.by) \/ "server" \in warned[core.by]

\* A claim is held by a CR that still has the finalizer, so its deletion comes
\* past deregisterOwned, or the deletion said in an event that the Lease stays:
\* no name is blocked by a CR that is silently gone.
HolderPresent ==
    lease # NoLease => lease.holder \in fin \/ "lease" \in warned[lease.holder]

\* A pass reads the claim once and goes on acting for several calls.  Whatever
\* happened in between, when it changes core it still holds the claim, and it
\* never creates, changes or deletes another CR's Lease, although release
\* deletes by name alone.
ActsAsHolder ==
    [][\A c \in CRs : pc'[c] # pc[c] =>
          /\ core' # core => holds(lease, c)
          /\ lease' # lease => lease = NoLease \/ holds(lease, c)]_vars

\* c holds a claim it may have taken over on the word of its Deployment alone:
\* core is too old to say whose the server is.
TakenUnseen(c) == ~reports /\ c \in Stamped /\ holds(lease, c)

\* A CR naming a server core already holds stays a mirror: no pass starts,
\* changes or removes a server that someone else put into core before the name
\* was claimed, except under the claim of a CR whose own stamp had to decide
\* because core reports no provenance.  (What is added later, while a claim is
\* under way, has no such protection: a Latecomer.)
ForeignUntouched ==
    [][\A c \in CRs : pc'[c] # pc[c] /\ core.by = Human =>
          core' = core \/ TakenUnseen(c)]_vars

\* The detailed protocol keeps what NameOwnership promises.
Ownership == INSTANCE NameOwnership WITH
    owner <- lease.holder, entry <- core.by,
    left <- {c \in CRs : "server" \in warned[c]}

\* Every behaviour of the registration, seen through who holds the Lease and
\* who put the server into core, is one the ownership of a name allows.
RefinesOwnership == Ownership!Spec

\* A deleted CR goes, whatever state core and the claim are in and although
\* calls on the way fail, once its spec is no longer edited.
DeletionCompletes ==
    \A c \in CRs : <>[][~Change(c)]_vars =>
        (phase[c] = "deleting" ~> phase[c] = "gone")

\* c is the only CR left with the name, its spec stays s, and nobody else
\* claims the name or serves it.
Settled(c, s) ==
    /\ phase[c] = "live" /\ spec[c] = s
    /\ \A d \in CRs \ {c} : phase[d] \in {"absent", "gone"}
    /\ lease.holder \in {c, Nobody}
    /\ core.by \in {c, Nobody}

\* A CR that is left alone with its name ends up holding it, registered as its
\* spec says and started, from wherever crashes, lost replies and earlier
\* owners left the claim and core.
NameGranted ==
    \A c \in CRs : \A s \in SpecOf(c) :
        s.endpoint # NoEndpoint /\ <>[]Settled(c, s) =>
            <>[](/\ holds(lease, c) /\ lease.started
                 /\ core.by = c /\ core.endpoint = s.endpoint)

-----------------------------------------------------------------------------
(* The invariant that makes the properties above inductive *)

\* The calls a pass makes only as the holder of the claim.
HoldingCalls ==
    {"refuseDeregister", "refuseRelease", "deliver", "recordDelivered",
     "deregister", "recordEndpoint", "move", "recordMoved", "post", "recordTLS",
     "giveBack", "start", "recordStarted", "delDeregister", "delRelease"}

\* The calls of a pass that has no copy of the claim yet, or never gets one.
NoCopyCalls ==
    {"idle", "addFinalizer", "getClaim", "delGetClaim", "delDeregister", "delRelease",
     "delFinalizer"}

\* The calls before which c has found, or made sure, that core holds no server
\* of c.
ClearedCalls == {"take", "post", "giveBack", "refuseRelease", "delRelease", "delFinalizer"}

\* Without a holder there is no Lease, and without an origin no server.
WellFormed ==
    /\ lease.holder = Nobody => lease = NoLease
    /\ core.by = Nobody => core = NoServer

\* A pass's copy of the claim is the Lease as it is now, however long ago it
\* was read, and a pass about to act on the name still holds it.
ClaimCurrent ==
    \A c \in CRs :
        /\ claim[c] # NoLease => claim[c] = lease /\ holds(lease, c)
        /\ pc[c] \in HoldingCalls => holds(lease, c)
        /\ pc[c] \in NoCopyCalls => claim[c] = NoLease

\* The finalizer is on a CR before its pass touches the name, and comes off
\* only when the claim is released or reported as left.
FinalizerFirst ==
    \A c \in CRs :
        /\ pc[c] \notin {"idle", "addFinalizer"} => c \in fin
        /\ phase[c] = "deleting" => c \in fin
        /\ phase[c] = "gone" => c \notin fin
        /\ pc[c] = "delFinalizer" => ~holds(lease, c) \/ "lease" \in warned[c]

\* A CR without the finalizer, and a pass about to claim, register or give up
\* the name, has no server in core that nobody was told of.
ServerCleared ==
    \A c \in CRs : (c \notin fin \/ pc[c] \in ClearedCalls) /\ core.by = c
                       => "server" \in warned[c]

\* A name that someone else put into core before it was claimed is nobody's
\* claim, and no pass is about to claim it, except by a stamp that core could not
\* contradict.
ForeignFree ==
    /\ \A c \in CRs : pc[c] = "provenance" => c \in Stamped
    /\ core.by = Human =>
          /\ lease.holder \in CRs => ~reports /\ lease.holder \in Stamped
          /\ \A c \in CRs : /\ pc[c] # "take"
                            /\ pc[c] = "takeDiscovered" => ~reports /\ c \in Stamped

ClaimInv == WellFormed /\ ClaimCurrent /\ FinalizerFirst /\ HolderPresent
OwnedInv == OwnedIsClaimed /\ ServerCleared

=============================================================================
