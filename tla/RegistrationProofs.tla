------------------------- MODULE RegistrationProofs -------------------------
(***************************************************************************)
(* Theorems about Registration, for any set of MCPServers that carry the   *)
(* name, any endpoints and key lists and any number of faults.             *)
(***************************************************************************)
EXTENDS Registration, TLAPS

-----------------------------------------------------------------------------
(* The values a step writes are of their kind. *)

\* The value that stands for no Lease is a Lease record.
LEMMA NoLeaseType == NoLease \in Lease
  BY DEF NoLease, Lease

\* The value that stands for no server is a server record.
LEMMA NoServerType == NoServer \in Server
  BY DEF NoServer, Server

\* The empty spec a pass holds between passes is a spec.
LEMMA Spec0Type == Spec0 \in AnySpec
  BY DEF Spec0, AnySpec

\* What annotate writes, at any of its four places, is a Lease.
LEMMA AnnotatedType ==
  ASSUME TypeOK, NEW c \in CRs
  PROVE  /\ Delivered(c) \in Lease
         /\ Moved(c) \in Lease
         /\ WithTLS(c) \in Lease
         /\ Started(c) \in Lease
  BY DEF TypeOK, Delivered, Moved, WithTLS, Started, Lease, AnySpec

\* What take creates is a Lease, for a registration and for a discovered server.
LEMMA ClaimedType ==
  ASSUME TypeOK, NEW c \in CRs
  PROVE  Claimed(c, seen[c].endpoint) \in Lease /\ Claimed(c, Discovered) \in Lease
  BY DEF TypeOK, Claimed, Lease, AnySpec

\* What a PUT leaves in core is a server.
LEMMA UpdatedType ==
  ASSUME TypeOK, NEW c \in CRs
  PROVE  Updated(c) \in Server
  BY DEF TypeOK, Updated, Server, AnySpec

\* What a POST leaves in core is a server.
LEMMA RegisteredType ==
  ASSUME TypeOK, NEW c \in CRs
  PROVE  Registered(c) \in Server
  BY DEF TypeOK, Registered, Server, AnySpec

\* What core records after calling a server is a server.
LEMMA CalledType ==
  ASSUME TypeOK, NEW s \in {"answered", "failing"}
  PROVE  Called(s) \in Server
  BY DEF TypeOK, Called, Server

-----------------------------------------------------------------------------
(* Type correctness *)

\* Every variable keeps a value of its kind through every step.
THEOREM TypeCorrect == Spec => []TypeOK
<1>1. Init => TypeOK
  BY NoLeaseType, NoServerType, Spec0Type, BoundAssumption DEF Init, TypeOK
<1>2. TypeOK /\ [Next]_vars => TypeOK'
  <2> SUFFICES ASSUME TypeOK, [Next]_vars PROVE TypeOK'
    OBVIOUS
  <2>0. reports' \in BOOLEAN
    BY DEF TypeOK, Next, Step, Environment, vars
  <2> USE <2>0, NoLeaseType, NoServerType, Spec0Type, BoundAssumption
      DEF TypeOK, objects, pass, Goto, End, Report, Fault, FailCall
  <2>1. ASSUME NEW c \in CRs, Reconcile(c) PROVE TypeOK'
    BY <2>1 DEF Reconcile, FirstCall, Calls
  <2>2. ASSUME NEW c \in CRs, AddFinalizer(c) PROVE TypeOK'
    BY <2>2 DEF AddFinalizer, Calls
  <2>3. ASSUME NEW c \in CRs, GetClaim(c) PROVE TypeOK'
    BY <2>3 DEF GetClaim, AfterClaim, Calls
  <2>4. ASSUME NEW c \in CRs, PeerIdentity(c) PROVE TypeOK'
    BY <2>4 DEF PeerIdentity, AfterClaim, Calls
  <2>5. ASSUME NEW c \in CRs, RefuseDeregister(c) PROVE TypeOK'
    BY <2>5 DEF RefuseDeregister, Deregister, Calls
  <2>6. ASSUME NEW c \in CRs, RefuseRelease(c) PROVE TypeOK'
    BY <2>6 DEF RefuseRelease, Release, Calls
  <2>7. ASSUME NEW c \in CRs, Deliver(c) PROVE TypeOK'
    BY <2>7, UpdatedType DEF Deliver, deliverConnection, Calls
  <2>8. ASSUME NEW c \in CRs, RecordDelivered(c) PROVE TypeOK'
    BY <2>8, AnnotatedType DEF RecordDelivered, annotate, Calls
  <2>9. ASSUME NEW c \in CRs, DeregisterOld(c) PROVE TypeOK'
    BY <2>9 DEF DeregisterOld, Deregister, Calls
  <2>10. ASSUME NEW c \in CRs, RecordEndpoint(c) PROVE TypeOK'
    BY <2>10, AnnotatedType DEF RecordEndpoint, annotate, Calls
  <2>11. ASSUME NEW c \in CRs, Health(c) PROVE TypeOK'
    BY <2>11 DEF Health, register, ToRegister, Calls
  <2>12. ASSUME NEW c \in CRs, Provenance(c) PROVE TypeOK'
    BY <2>12 DEF Provenance, Calls
  <2>13. ASSUME NEW c \in CRs, TakeDiscovered(c) PROVE TypeOK'
    BY <2>13, ClaimedType DEF TakeDiscovered, take, Calls
  <2>14. ASSUME NEW c \in CRs, Move(c) PROVE TypeOK'
    BY <2>14, UpdatedType DEF Move, deliverConnection, Calls
  <2>15. ASSUME NEW c \in CRs, RecordMoved(c) PROVE TypeOK'
    BY <2>15, AnnotatedType DEF RecordMoved, annotate, Calls
  <2>16. ASSUME NEW c \in CRs, Take(c) PROVE TypeOK'
    BY <2>16, ClaimedType DEF Take, take, ToRegister, Calls
  <2>17. ASSUME NEW c \in CRs, Post(c) PROVE TypeOK'
    BY <2>17, RegisteredType DEF Post, Calls
  <2>18. ASSUME NEW c \in CRs, RecordTLS(c) PROVE TypeOK'
    BY <2>18, AnnotatedType DEF RecordTLS, annotate, Calls
  <2>19. ASSUME NEW c \in CRs, GiveBack(c) PROVE TypeOK'
    BY <2>19 DEF GiveBack, Release, Calls
  <2>20. ASSUME NEW c \in CRs, Start(c) PROVE TypeOK'
    BY <2>20, CalledType DEF Start, Calls
  <2>21. ASSUME NEW c \in CRs, RecordStarted(c) PROVE TypeOK'
    BY <2>21, AnnotatedType DEF RecordStarted, annotate, Calls
  <2>22. ASSUME NEW c \in CRs, Read(c) PROVE TypeOK'
    BY <2>22 DEF Read, Calls
  <2>23. ASSUME NEW c \in CRs, DelGetClaim(c) PROVE TypeOK'
    BY <2>23 DEF DelGetClaim, AfterDelClaim, Calls
  <2>24. ASSUME NEW c \in CRs, DelDeregister(c) PROVE TypeOK'
    BY <2>24 DEF DelDeregister, Calls
  <2>25. ASSUME NEW c \in CRs, DelRelease(c) PROVE TypeOK'
    BY <2>25 DEF DelRelease, Calls
  <2>26. ASSUME NEW c \in CRs, DelFinalizer(c) PROVE TypeOK'
    BY <2>26 DEF DelFinalizer, Calls
  <2>30. ASSUME Crash PROVE TypeOK'
    BY <2>30 DEF Crash
  <2>31. ASSUME NEW c \in CRs, UserCreate(c) \/ Change(c) PROVE TypeOK'
    BY <2>31 DEF UserCreate, Change, SpecOf
  <2>32. ASSUME NEW c \in CRs, UserDelete(c) PROVE TypeOK'
    BY <2>32 DEF UserDelete
  <2>33. ASSUME AdminDeleteLease \/ ForeignRemove \/ Expire \/ Forget PROVE TypeOK'
    BY <2>33 DEF AdminDeleteLease, ForeignRemove, Expire, Forget
  <2>34. ASSUME ForeignAdd PROVE TypeOK'
    <3>1. core' \in Server
      BY <2>34 DEF ForeignAdd, NoServer, Server
    <3> QED
      BY <2>34, <3>1 DEF ForeignAdd
  <2>37. ASSUME Discover PROVE TypeOK'
    <3>1. PICK c \in CRs :
             core' = [NoServer EXCEPT !.by = Discovery, !.endpoint = spec[c].endpoint]
      BY <2>37, CRsAssumption DEF Discover
    <3>2. core' \in Server
      BY <3>1 DEF NoServer, Server, AnySpec
    <3> QED
      BY <2>37, <3>2 DEF Discover
  <2>35. ASSUME Observe PROVE TypeOK'
    BY <2>35, CalledType DEF Observe
  <2>36. CASE UNCHANGED vars
    BY <2>36 DEF vars
  <2> QED
    BY <2>1, <2>2, <2>3, <2>4, <2>5, <2>6, <2>7, <2>8, <2>9, <2>10, <2>11, <2>12, <2>13, <2>14,
       <2>15, <2>16, <2>17, <2>18, <2>19, <2>20, <2>21, <2>22, <2>23, <2>24, <2>25, <2>26,
       <2>30, <2>31, <2>32, <2>33, <2>34, <2>35, <2>36, <2>37
       DEF Next, Step, Environment
<1> QED
  BY <1>1, <1>2, PTL DEF Spec

-----------------------------------------------------------------------------
(* Who holds the Lease, and who put the server into core, after a write. *)

\* Nobody holds the absent Lease, and the creator holds a new one.
LEMMA HolderFacts ==
  /\ NoLease.holder = Nobody
  /\ \A c, e : Claimed(c, e).holder = c
  BY DEF NoLease, Claimed

\* annotate never changes who holds the Lease.
LEMMA AnnotatedHolder ==
  ASSUME TypeOK, NEW c \in CRs
  PROVE  /\ Delivered(c).holder = claim[c].holder
         /\ Moved(c).holder = claim[c].holder
         /\ WithTLS(c).holder = claim[c].holder
         /\ Started(c).holder = claim[c].holder
  BY DEF TypeOK, Delivered, Moved, WithTLS, Started, Lease

\* Who is the origin of what each call leaves in core.
LEMMA OriginFacts ==
  ASSUME TypeOK
  PROVE  /\ NoServer.by = Nobody
         /\ \A c : Registered(c).by = c
         /\ \A c : Updated(c).by = IF core.by = Discovery THEN c ELSE core.by
         /\ \A s : Called(s).by = core.by
  BY DEF TypeOK, NoServer, Registered, Updated, Called, Server

-----------------------------------------------------------------------------
(* The claim is exclusive and current *)

\* Every call of every pass, and everything around them, keeps the claim
\* exclusive: a pass's copy of the Lease stays current without being read again,
\* because only its holder's own pass, or a deletion after the holder is gone,
\* changes a Lease.
LEMMA ClaimStep == TypeOK /\ ClaimInv /\ [Next]_vars => ClaimInv'
<1> SUFFICES ASSUME TypeOK, ClaimInv, [Next]_vars PROVE ClaimInv'
  OBVIOUS
<1> USE HolderFacts, AnnotatedHolder, OriginFacts, CRsAssumption
    DEF ClaimInv, WellFormed, ClaimCurrent, FinalizerFirst, HolderPresent, HoldingCalls,
        NoCopyCalls, holds, TypeOK, objects, pass, Goto, End, Report, Fault, FailCall
<1>1. ASSUME NEW c \in CRs, Reconcile(c) PROVE ClaimInv'
  BY <1>1 DEF Reconcile, FirstCall
<1>2. ASSUME NEW c \in CRs, AddFinalizer(c) PROVE ClaimInv'
  BY <1>2 DEF AddFinalizer
<1>3. ASSUME NEW c \in CRs, GetClaim(c) PROVE ClaimInv'
  BY <1>3 DEF GetClaim, AfterClaim
<1>4. ASSUME NEW c \in CRs, PeerIdentity(c) PROVE ClaimInv'
  BY <1>4 DEF PeerIdentity, AfterClaim
<1>5. ASSUME NEW c \in CRs, RefuseDeregister(c) PROVE ClaimInv'
  BY <1>5 DEF RefuseDeregister, Deregister
<1>6. ASSUME NEW c \in CRs, RefuseRelease(c) PROVE ClaimInv'
  <2>1. WellFormed'
    BY <1>6 DEF RefuseRelease, Release
  <2>2. ClaimCurrent'
    BY <1>6 DEF RefuseRelease, Release
  <2>3. FinalizerFirst'
    BY <1>6 DEF RefuseRelease, Release
  <2>4. HolderPresent'
    BY <1>6 DEF RefuseRelease, Release
  <2> QED
    BY <2>1, <2>2, <2>3, <2>4
<1>7. ASSUME NEW c \in CRs, Deliver(c) PROVE ClaimInv'
  <2>1. WellFormed'
    BY <1>7 DEF Deliver, deliverConnection
  <2>2. ClaimCurrent'
    BY <1>7 DEF Deliver, deliverConnection
  <2>3. FinalizerFirst'
    BY <1>7 DEF Deliver, deliverConnection
  <2>4. HolderPresent'
    BY <1>7 DEF Deliver, deliverConnection
  <2> QED
    BY <2>1, <2>2, <2>3, <2>4
<1>8. ASSUME NEW c \in CRs, RecordDelivered(c) PROVE ClaimInv'
  <2>1. WellFormed'
    BY <1>8 DEF RecordDelivered, annotate
  <2>2. ClaimCurrent'
    BY <1>8 DEF RecordDelivered, annotate
  <2>3. FinalizerFirst'
    BY <1>8 DEF RecordDelivered, annotate
  <2>4. HolderPresent'
    BY <1>8 DEF RecordDelivered, annotate
  <2> QED
    BY <2>1, <2>2, <2>3, <2>4
<1>9. ASSUME NEW c \in CRs, DeregisterOld(c) PROVE ClaimInv'
  BY <1>9 DEF DeregisterOld, Deregister
<1>10. ASSUME NEW c \in CRs, RecordEndpoint(c) PROVE ClaimInv'
  <2>1. WellFormed'
    BY <1>10 DEF RecordEndpoint, annotate
  <2>2. ClaimCurrent'
    BY <1>10 DEF RecordEndpoint, annotate
  <2>3. FinalizerFirst'
    BY <1>10 DEF RecordEndpoint, annotate
  <2>4. HolderPresent'
    BY <1>10 DEF RecordEndpoint, annotate
  <2> QED
    BY <2>1, <2>2, <2>3, <2>4
<1>11. ASSUME NEW c \in CRs, Health(c) PROVE ClaimInv'
  BY <1>11 DEF Health, register, ToRegister
<1>12. ASSUME NEW c \in CRs, Provenance(c) PROVE ClaimInv'
  BY <1>12 DEF Provenance
<1>13. ASSUME NEW c \in CRs, TakeDiscovered(c) PROVE ClaimInv'
  <2>1. WellFormed'
    BY <1>13 DEF TakeDiscovered, take
  <2>2. ClaimCurrent'
    BY <1>13 DEF TakeDiscovered, take
  <2>3. FinalizerFirst'
    BY <1>13 DEF TakeDiscovered, take
  <2>4. HolderPresent'
    BY <1>13 DEF TakeDiscovered, take
  <2> QED
    BY <2>1, <2>2, <2>3, <2>4
<1>14. ASSUME NEW c \in CRs, Move(c) PROVE ClaimInv'
  <2>1. WellFormed'
    BY <1>14 DEF Move, deliverConnection
  <2>2. ClaimCurrent'
    BY <1>14 DEF Move, deliverConnection
  <2>3. FinalizerFirst'
    BY <1>14 DEF Move, deliverConnection
  <2>4. HolderPresent'
    BY <1>14 DEF Move, deliverConnection
  <2> QED
    BY <2>1, <2>2, <2>3, <2>4
<1>15. ASSUME NEW c \in CRs, RecordMoved(c) PROVE ClaimInv'
  <2>1. WellFormed'
    BY <1>15 DEF RecordMoved, annotate
  <2>2. ClaimCurrent'
    BY <1>15 DEF RecordMoved, annotate
  <2>3. FinalizerFirst'
    BY <1>15 DEF RecordMoved, annotate
  <2>4. HolderPresent'
    BY <1>15 DEF RecordMoved, annotate
  <2> QED
    BY <2>1, <2>2, <2>3, <2>4
<1>16. ASSUME NEW c \in CRs, Take(c) PROVE ClaimInv'
  BY <1>16 DEF Take, take, ToRegister
<1>17. ASSUME NEW c \in CRs, Post(c) PROVE ClaimInv'
  BY <1>17 DEF Post
<1>18. ASSUME NEW c \in CRs, RecordTLS(c) PROVE ClaimInv'
  <2>1. WellFormed'
    BY <1>18 DEF RecordTLS, annotate
  <2>2. ClaimCurrent'
    BY <1>18 DEF RecordTLS, annotate
  <2>3. FinalizerFirst'
    BY <1>18 DEF RecordTLS, annotate
  <2>4. HolderPresent'
    BY <1>18 DEF RecordTLS, annotate
  <2> QED
    BY <2>1, <2>2, <2>3, <2>4
<1>19. ASSUME NEW c \in CRs, GiveBack(c) PROVE ClaimInv'
  <2>1. WellFormed'
    BY <1>19 DEF GiveBack, Release
  <2>2. ClaimCurrent'
    BY <1>19 DEF GiveBack, Release
  <2>3. FinalizerFirst'
    BY <1>19 DEF GiveBack, Release
  <2>4. HolderPresent'
    BY <1>19 DEF GiveBack, Release
  <2> QED
    BY <2>1, <2>2, <2>3, <2>4
<1>20. ASSUME NEW c \in CRs, Start(c) PROVE ClaimInv'
  <2>1. WellFormed'
    BY <1>20 DEF Start
  <2>2. ClaimCurrent'
    BY <1>20 DEF Start
  <2>3. FinalizerFirst'
    BY <1>20 DEF Start
  <2>4. HolderPresent'
    BY <1>20 DEF Start
  <2> QED
    BY <2>1, <2>2, <2>3, <2>4
<1>21. ASSUME NEW c \in CRs, RecordStarted(c) PROVE ClaimInv'
  <2>1. WellFormed'
    BY <1>21 DEF RecordStarted, annotate
  <2>2. ClaimCurrent'
    BY <1>21 DEF RecordStarted, annotate
  <2>3. FinalizerFirst'
    BY <1>21 DEF RecordStarted, annotate
  <2>4. HolderPresent'
    BY <1>21 DEF RecordStarted, annotate
  <2> QED
    BY <2>1, <2>2, <2>3, <2>4
<1>22. ASSUME NEW c \in CRs, Read(c) PROVE ClaimInv'
  BY <1>22 DEF Read
<1>23. ASSUME NEW c \in CRs, DelGetClaim(c) PROVE ClaimInv'
  <2>1. WellFormed'
    BY <1>23 DEF DelGetClaim, AfterDelClaim
  <2>2. ClaimCurrent'
    BY <1>23 DEF DelGetClaim, AfterDelClaim
  <2>3. FinalizerFirst'
    BY <1>23 DEF DelGetClaim, AfterDelClaim
  <2>4. HolderPresent'
    BY <1>23 DEF DelGetClaim, AfterDelClaim
  <2> QED
    BY <2>1, <2>2, <2>3, <2>4
<1>24. ASSUME NEW c \in CRs, DelDeregister(c) PROVE ClaimInv'
  BY <1>24 DEF DelDeregister
<1>25. ASSUME NEW c \in CRs, DelRelease(c) PROVE ClaimInv'
  <2>1. WellFormed'
    BY <1>25 DEF DelRelease
  <2>2. ClaimCurrent'
    BY <1>25 DEF DelRelease
  <2>3. FinalizerFirst'
    BY <1>25 DEF DelRelease
  <2>4. HolderPresent'
    BY <1>25 DEF DelRelease
  <2> QED
    BY <2>1, <2>2, <2>3, <2>4
<1>26. ASSUME NEW c \in CRs, DelFinalizer(c) PROVE ClaimInv'
  BY <1>26 DEF DelFinalizer
<1>30. ASSUME Crash PROVE ClaimInv'
  BY <1>30 DEF Crash
<1>31. ASSUME NEW c \in CRs, UserCreate(c) \/ Change(c) PROVE ClaimInv'
  BY <1>31 DEF UserCreate, Change
<1>32. ASSUME NEW c \in CRs, UserDelete(c) PROVE ClaimInv'
  BY <1>32 DEF UserDelete
<1>33. ASSUME AdminDeleteLease PROVE ClaimInv'
  BY <1>33 DEF AdminDeleteLease
<1>34. ASSUME ForeignAdd \/ Discover \/ ForeignRemove \/ Expire \/ Forget \/ Observe
       PROVE  ClaimInv'
  <2>1. core'.by # Nobody \/ core' = NoServer
    <3>1. CASE ForeignAdd
      BY <3>1 DEF ForeignAdd, NoServer, Nobody, Human, Latecomer
    <3>2. CASE Discover
      <4>1. PICK c \in CRs :
               core' = [NoServer EXCEPT !.by = Discovery, !.endpoint = spec[c].endpoint]
        BY <3>2 DEF Discover
      <4> QED
        BY <4>1 DEF NoServer, Nobody, Discovery
    <3>3. CASE ForeignRemove \/ Expire \/ Forget
      BY <3>3 DEF ForeignRemove, Expire, Forget
    <3>4. CASE Observe
      BY <3>4 DEF Observe
    <3> QED
      BY <1>34, <3>1, <3>2, <3>3, <3>4
  <2>2. UNCHANGED <<objects, warned, lease, pass>>
    BY <1>34 DEF ForeignAdd, Discover, ForeignRemove, Expire, Forget, Observe
  <2> QED
    BY <2>1, <2>2
<1>36. CASE UNCHANGED vars
  BY <1>36 DEF vars
<1> QED
  BY <1>1, <1>2, <1>3, <1>4, <1>5, <1>6, <1>7, <1>8, <1>9, <1>10, <1>11, <1>12, <1>13,
     <1>14, <1>15, <1>16, <1>17, <1>18, <1>19, <1>20, <1>21, <1>22, <1>23, <1>24, <1>25,
     <1>26, <1>30, <1>31, <1>32, <1>33, <1>34, <1>36
     DEF Next, Step, Environment

-----------------------------------------------------------------------------
(* Registered and claimed *)

\* As long as no POST is repeated after a lost reply, no step leaves a server
\* in core that its CR neither claims nor reported.
LEMMA OwnedStep ==
  ~RetryLosesReply /\ TypeOK /\ ClaimInv /\ OwnedInv /\ [Next]_vars => OwnedInv'
<1> SUFFICES ASSUME ~RetryLosesReply, TypeOK, ClaimInv, OwnedInv, [Next]_vars
             PROVE  OwnedInv'
  OBVIOUS
<1> USE HolderFacts, AnnotatedHolder, OriginFacts, CRsAssumption
    DEF ClaimInv, WellFormed, ClaimCurrent, FinalizerFirst, HolderPresent, HoldingCalls,
        OwnedInv, OwnedIsClaimed, ServerCleared, ClearedCalls,
        holds, TypeOK, objects, pass, Goto, End, Report, Fault, FailCall
<1>1. ASSUME NEW c \in CRs, Reconcile(c) PROVE OwnedInv'
  BY <1>1 DEF Reconcile, FirstCall
<1>2. ASSUME NEW c \in CRs, AddFinalizer(c) PROVE OwnedInv'
  BY <1>2 DEF AddFinalizer
<1>3. ASSUME NEW c \in CRs, GetClaim(c) PROVE OwnedInv'
  BY <1>3 DEF GetClaim, AfterClaim
<1>4. ASSUME NEW c \in CRs, PeerIdentity(c) PROVE OwnedInv'
  BY <1>4 DEF PeerIdentity, AfterClaim
<1>5. ASSUME NEW c \in CRs, RefuseDeregister(c) PROVE OwnedInv'
  BY <1>5 DEF RefuseDeregister, Deregister
<1>6. ASSUME NEW c \in CRs, RefuseRelease(c) PROVE OwnedInv'
  BY <1>6 DEF RefuseRelease, Release
<1>7. ASSUME NEW c \in CRs, Deliver(c) PROVE OwnedInv'
  BY <1>7 DEF Deliver, deliverConnection
<1>8. ASSUME NEW c \in CRs, RecordDelivered(c) PROVE OwnedInv'
  BY <1>8 DEF RecordDelivered, annotate
<1>9. ASSUME NEW c \in CRs, DeregisterOld(c) PROVE OwnedInv'
  BY <1>9 DEF DeregisterOld, Deregister
<1>10. ASSUME NEW c \in CRs, RecordEndpoint(c) PROVE OwnedInv'
  BY <1>10 DEF RecordEndpoint, annotate
<1>11. ASSUME NEW c \in CRs, Health(c) PROVE OwnedInv'
  BY <1>11 DEF Health, register, ToRegister
<1>12. ASSUME NEW c \in CRs, Provenance(c) PROVE OwnedInv'
  BY <1>12 DEF Provenance
<1>13. ASSUME NEW c \in CRs, TakeDiscovered(c) PROVE OwnedInv'
  BY <1>13 DEF TakeDiscovered, take
<1>14. ASSUME NEW c \in CRs, Move(c) PROVE OwnedInv'
  BY <1>14 DEF Move, deliverConnection
<1>15. ASSUME NEW c \in CRs, RecordMoved(c) PROVE OwnedInv'
  BY <1>15 DEF RecordMoved, annotate
<1>16. ASSUME NEW c \in CRs, Take(c) PROVE OwnedInv'
  BY <1>16 DEF Take, take, ToRegister
<1>17. ASSUME NEW c \in CRs, Post(c) PROVE OwnedInv'
  BY <1>17 DEF Post
<1>18. ASSUME NEW c \in CRs, RecordTLS(c) PROVE OwnedInv'
  BY <1>18 DEF RecordTLS, annotate
<1>19. ASSUME NEW c \in CRs, GiveBack(c) PROVE OwnedInv'
  BY <1>19 DEF GiveBack, Release
<1>20. ASSUME NEW c \in CRs, Start(c) PROVE OwnedInv'
  BY <1>20 DEF Start
<1>21. ASSUME NEW c \in CRs, RecordStarted(c) PROVE OwnedInv'
  BY <1>21 DEF RecordStarted, annotate
<1>22. ASSUME NEW c \in CRs, Read(c) PROVE OwnedInv'
  BY <1>22 DEF Read
<1>23. ASSUME NEW c \in CRs, DelGetClaim(c) PROVE OwnedInv'
  BY <1>23 DEF DelGetClaim, AfterDelClaim
<1>24. ASSUME NEW c \in CRs, DelDeregister(c) PROVE OwnedInv'
  BY <1>24 DEF DelDeregister
<1>25. ASSUME NEW c \in CRs, DelRelease(c) PROVE OwnedInv'
  BY <1>25 DEF DelRelease
<1>26. ASSUME NEW c \in CRs, DelFinalizer(c) PROVE OwnedInv'
  BY <1>26 DEF DelFinalizer
<1>30. ASSUME Crash PROVE OwnedInv'
  BY <1>30 DEF Crash
<1>31. ASSUME NEW c \in CRs, UserCreate(c) \/ Change(c) PROVE OwnedInv'
  BY <1>31 DEF UserCreate, Change
<1>32. ASSUME NEW c \in CRs, UserDelete(c) PROVE OwnedInv'
  BY <1>32 DEF UserDelete
<1>33. ASSUME AdminDeleteLease PROVE OwnedInv'
  BY <1>33 DEF AdminDeleteLease
<1>34. ASSUME ForeignAdd \/ Discover \/ ForeignRemove \/ Expire \/ Forget \/ Observe
       PROVE  OwnedInv'
  <2>1. core'.by = core.by \/ core'.by \notin CRs
    <3>1. CASE ForeignAdd
      BY <3>1 DEF ForeignAdd, NoServer
    <3>2. CASE Discover
      <4>1. PICK c \in CRs :
               core' = [NoServer EXCEPT !.by = Discovery, !.endpoint = spec[c].endpoint]
        BY <3>2 DEF Discover
      <4> QED
        BY <4>1 DEF NoServer
    <3>3. CASE ForeignRemove \/ Expire \/ Forget
      BY <3>3 DEF ForeignRemove, Expire, Forget
    <3>4. CASE Observe
      BY <3>4 DEF Observe
    <3> QED
      BY <1>34, <3>1, <3>2, <3>3, <3>4
  <2>2. UNCHANGED <<objects, warned, lease, pass>>
    BY <1>34 DEF ForeignAdd, Discover, ForeignRemove, Expire, Forget, Observe
  <2> QED
    BY <2>1, <2>2
<1>36. CASE UNCHANGED vars
  BY <1>36 DEF vars
<1> QED
  BY <1>1, <1>2, <1>3, <1>4, <1>5, <1>6, <1>7, <1>8, <1>9, <1>10, <1>11, <1>12, <1>13,
     <1>14, <1>15, <1>16, <1>17, <1>18, <1>19, <1>20, <1>21, <1>22, <1>23, <1>24, <1>25,
     <1>26, <1>30, <1>31, <1>32, <1>33, <1>34, <1>36
     DEF Next, Step, Environment

\* The claim invariant: copies are current, holders act, the finalizer is on
\* before the name is touched.
THEOREM ClaimsHold == Spec => []ClaimInv
<1>1. Init => ClaimInv
  BY HolderFacts, CRsAssumption
     DEF Init, ClaimInv, WellFormed, ClaimCurrent, FinalizerFirst, HolderPresent,
         HoldingCalls, holds, NoServer
<1> QED
  BY <1>1, TypeCorrect, ClaimStep, PTL DEF Spec

\* A name is never blocked by a CR that is silently gone: reconcileDelete
\* comes past the release of every Lease, or reports it.
THEOREM HoldersPresent == Spec => []HolderPresent
  BY ClaimsHold, PTL DEF ClaimInv

\* The inductive invariant behind RegisteredAndClaimed.
LEMMA OwnedHolds ==
  ASSUME ~RetryLosesReply
  PROVE  Spec => []OwnedInv
<1>1. Init => OwnedInv
  BY HolderFacts, CRsAssumption
     DEF Init, OwnedInv, OwnedIsClaimed, ServerCleared, ClearedCalls, NoServer
<1>2. TypeOK /\ ClaimInv /\ OwnedInv /\ [Next]_vars => OwnedInv'
  BY OwnedStep
<1> QED
  BY <1>1, <1>2, TypeCorrect, ClaimsHold, PTL DEF Spec

\* A server a CR put into core is under its claim or was reported as left
\* there, for any number of CRs, faults and crashes, provided the client never
\* repeats a POST that core already took (doWithRetry does: RegistrationLostReply).
THEOREM RegisteredAndClaimed ==
  ASSUME ~RetryLosesReply
  PROVE  Spec => []OwnedIsClaimed
<1>1. OwnedInv => OwnedIsClaimed
  BY DEF OwnedInv
<1> QED
  BY <1>1, OwnedHolds, PTL

-----------------------------------------------------------------------------
(* Acting as the holder *)

\* One call of a pass changes core only as the holder, never touches the Lease
\* of another CR, and leaves the other passes where they are.
LEMMA HolderActs ==
  ASSUME TypeOK, ClaimInv, NEW c \in CRs, Step(c)
  PROVE  /\ core' # core => holds(lease, c)
         /\ lease' # lease => lease = NoLease \/ holds(lease, c)
         /\ \A d \in CRs \ {c} : pc'[d] = pc[d]
<1> DEFINE Goal == /\ core' # core => holds(lease, c)
                   /\ lease' # lease => lease = NoLease \/ holds(lease, c)
                   /\ \A d \in CRs \ {c} : pc'[d] = pc[d]
<1> USE DEF ClaimInv, ClaimCurrent, HoldingCalls, holds, TypeOK, objects,
            Goto, End, Report, Fault, FailCall
<1>1. ASSUME Reconcile(c) PROVE Goal
  BY <1>1 DEF Reconcile, FirstCall
<1>2. ASSUME AddFinalizer(c) PROVE Goal
  BY <1>2 DEF AddFinalizer
<1>3. ASSUME GetClaim(c) PROVE Goal
  BY <1>3 DEF GetClaim, AfterClaim
<1>4. ASSUME PeerIdentity(c) PROVE Goal
  BY <1>4 DEF PeerIdentity, AfterClaim
<1>5. ASSUME RefuseDeregister(c) PROVE Goal
  BY <1>5 DEF RefuseDeregister, Deregister
<1>6. ASSUME RefuseRelease(c) PROVE Goal
  BY <1>6 DEF RefuseRelease, Release
<1>7. ASSUME Deliver(c) PROVE Goal
  BY <1>7 DEF Deliver, deliverConnection
<1>8. ASSUME RecordDelivered(c) PROVE Goal
  BY <1>8 DEF RecordDelivered, annotate
<1>9. ASSUME DeregisterOld(c) PROVE Goal
  BY <1>9 DEF DeregisterOld, Deregister
<1>10. ASSUME RecordEndpoint(c) PROVE Goal
  BY <1>10 DEF RecordEndpoint, annotate
<1>11. ASSUME Health(c) PROVE Goal
  BY <1>11 DEF Health, register, ToRegister
<1>12. ASSUME Provenance(c) PROVE Goal
  BY <1>12 DEF Provenance
<1>13. ASSUME TakeDiscovered(c) PROVE Goal
  BY <1>13 DEF TakeDiscovered, take
<1>14. ASSUME Move(c) PROVE Goal
  BY <1>14 DEF Move, deliverConnection
<1>15. ASSUME RecordMoved(c) PROVE Goal
  BY <1>15 DEF RecordMoved, annotate
<1>16. ASSUME Take(c) PROVE Goal
  BY <1>16 DEF Take, take, ToRegister
<1>17. ASSUME Post(c) PROVE Goal
  BY <1>17 DEF Post
<1>18. ASSUME RecordTLS(c) PROVE Goal
  BY <1>18 DEF RecordTLS, annotate
<1>19. ASSUME GiveBack(c) PROVE Goal
  BY <1>19 DEF GiveBack, Release
<1>20. ASSUME Start(c) PROVE Goal
  BY <1>20 DEF Start
<1>21. ASSUME RecordStarted(c) PROVE Goal
  BY <1>21 DEF RecordStarted, annotate
<1>22. ASSUME Read(c) PROVE Goal
  BY <1>22 DEF Read
<1>23. ASSUME DelGetClaim(c) PROVE Goal
  BY <1>23 DEF DelGetClaim, AfterDelClaim
<1>24. ASSUME DelDeregister(c) PROVE Goal
  BY <1>24 DEF DelDeregister
<1>25. ASSUME DelRelease(c) PROVE Goal
  BY <1>25 DEF DelRelease
<1>26. ASSUME DelFinalizer(c) PROVE Goal
  BY <1>26 DEF DelFinalizer
<1> QED
  BY <1>1, <1>2, <1>3, <1>4, <1>5, <1>6, <1>7, <1>8, <1>9, <1>10, <1>11, <1>12, <1>13,
     <1>14, <1>15, <1>16, <1>17, <1>18, <1>19, <1>20, <1>21, <1>22, <1>23, <1>24, <1>25,
     <1>26 DEF Step

\* However long ago a pass read the claim, it changes core only while it holds
\* it, and never deletes or overwrites the Lease of another CR.
THEOREM PassesActAsHolder == Spec => ActsAsHolder
<1> DEFINE Acts == \A c \in CRs : pc'[c] # pc[c] =>
                      /\ core' # core => holds(lease, c)
                      /\ lease' # lease => lease = NoLease \/ holds(lease, c)
<1>1. TypeOK /\ ClaimInv /\ [Next]_vars => [Acts]_vars
  <2> SUFFICES ASSUME TypeOK, ClaimInv, Next PROVE Acts
    OBVIOUS
  <2>1. ASSUME NEW c \in CRs, Step(c) PROVE Acts
    BY <2>1, HolderActs
  <2>2. CASE Crash
    BY <2>2 DEF Crash
  <2>3. CASE Environment /\ ~Crash
    <3>1. pc' = pc
      BY <2>3 DEF Environment, UserCreate, Change, UserDelete, AdminDeleteLease, ForeignAdd,
                  ForeignRemove, Discover, Expire, Observe, Forget, pass
    <3> QED
      BY <3>1
  <2> QED
    BY <2>1, <2>2, <2>3 DEF Next
<1> QED
  BY <1>1, TypeCorrect, ClaimsHold, PTL DEF Spec, ActsAsHolder

-----------------------------------------------------------------------------
(* Names that others put into core *)

\* No step makes a server that was in core before the claim the business of a
\* claim, except by a stamp that core could not contradict.
LEMMA ForeignStep == TypeOK /\ ClaimInv /\ ForeignFree /\ [Next]_vars => ForeignFree'
<1> SUFFICES ASSUME TypeOK, ClaimInv, ForeignFree, [Next]_vars
             PROVE  ForeignFree'
  OBVIOUS
<1>0. reports' = reports
  BY DEF Next, Step, Environment, vars
<1> USE <1>0, HolderFacts, AnnotatedHolder, OriginFacts, CRsAssumption
    DEF ClaimInv, WellFormed, ClaimCurrent, HoldingCalls, ForeignFree,
        holds, TypeOK, objects, pass, Goto, End, Report, Fault, FailCall, Nobody, Human
<1>1. ASSUME NEW c \in CRs, Reconcile(c) PROVE ForeignFree'
  BY <1>1 DEF Reconcile, FirstCall
<1>2. ASSUME NEW c \in CRs, AddFinalizer(c) PROVE ForeignFree'
  BY <1>2 DEF AddFinalizer
<1>3. ASSUME NEW c \in CRs, GetClaim(c) PROVE ForeignFree'
  BY <1>3 DEF GetClaim, AfterClaim
<1>4. ASSUME NEW c \in CRs, PeerIdentity(c) PROVE ForeignFree'
  BY <1>4 DEF PeerIdentity, AfterClaim
<1>5. ASSUME NEW c \in CRs, RefuseDeregister(c) PROVE ForeignFree'
  BY <1>5 DEF RefuseDeregister, Deregister
<1>6. ASSUME NEW c \in CRs, RefuseRelease(c) PROVE ForeignFree'
  BY <1>6 DEF RefuseRelease, Release
<1>7. ASSUME NEW c \in CRs, Deliver(c) PROVE ForeignFree'
  <2>1. core'.by = Human => core.by = Human
    BY <1>7 DEF Deliver, deliverConnection
  <2>2. /\ lease' = lease
        /\ \A d \in CRs : pc'[d] = pc[d] \/ pc'[d] \in {"recordDelivered", "recordMoved", "idle"}
    BY <1>7 DEF Deliver, deliverConnection
  <2> QED
    BY <2>1, <2>2
<1>8. ASSUME NEW c \in CRs, RecordDelivered(c) PROVE ForeignFree'
  BY <1>8 DEF RecordDelivered, annotate
<1>9. ASSUME NEW c \in CRs, DeregisterOld(c) PROVE ForeignFree'
  BY <1>9 DEF DeregisterOld, Deregister
<1>10. ASSUME NEW c \in CRs, RecordEndpoint(c) PROVE ForeignFree'
  BY <1>10 DEF RecordEndpoint, annotate
<1>11. ASSUME NEW c \in CRs, Health(c) PROVE ForeignFree'
  BY <1>11 DEF Health, register, ToRegister
<1>12. ASSUME NEW c \in CRs, Provenance(c) PROVE ForeignFree'
  BY <1>12 DEF Provenance, Discovery
<1>13. ASSUME NEW c \in CRs, TakeDiscovered(c) PROVE ForeignFree'
  BY <1>13 DEF TakeDiscovered, take
<1>14. ASSUME NEW c \in CRs, Move(c) PROVE ForeignFree'
  <2>1. core'.by = Human => core.by = Human
    BY <1>14 DEF Move, deliverConnection
  <2>2. /\ lease' = lease
        /\ \A d \in CRs : pc'[d] = pc[d] \/ pc'[d] \in {"recordDelivered", "recordMoved", "idle"}
    BY <1>14 DEF Move, deliverConnection
  <2> QED
    BY <2>1, <2>2
<1>15. ASSUME NEW c \in CRs, RecordMoved(c) PROVE ForeignFree'
  BY <1>15 DEF RecordMoved, annotate
<1>16. ASSUME NEW c \in CRs, Take(c) PROVE ForeignFree'
  BY <1>16 DEF Take, take, ToRegister
<1>17. ASSUME NEW c \in CRs, Post(c) PROVE ForeignFree'
  BY <1>17 DEF Post
<1>18. ASSUME NEW c \in CRs, RecordTLS(c) PROVE ForeignFree'
  BY <1>18 DEF RecordTLS, annotate
<1>19. ASSUME NEW c \in CRs, GiveBack(c) PROVE ForeignFree'
  BY <1>19 DEF GiveBack, Release
<1>20. ASSUME NEW c \in CRs, Start(c) PROVE ForeignFree'
  BY <1>20 DEF Start
<1>21. ASSUME NEW c \in CRs, RecordStarted(c) PROVE ForeignFree'
  BY <1>21 DEF RecordStarted, annotate
<1>22. ASSUME NEW c \in CRs, Read(c) PROVE ForeignFree'
  BY <1>22 DEF Read
<1>23. ASSUME NEW c \in CRs, DelGetClaim(c) PROVE ForeignFree'
  BY <1>23 DEF DelGetClaim, AfterDelClaim
<1>24. ASSUME NEW c \in CRs, DelDeregister(c) PROVE ForeignFree'
  BY <1>24 DEF DelDeregister
<1>25. ASSUME NEW c \in CRs, DelRelease(c) PROVE ForeignFree'
  BY <1>25 DEF DelRelease
<1>26. ASSUME NEW c \in CRs, DelFinalizer(c) PROVE ForeignFree'
  BY <1>26 DEF DelFinalizer
<1>30. ASSUME Crash PROVE ForeignFree'
  BY <1>30 DEF Crash
<1>31. ASSUME NEW c \in CRs, UserCreate(c) \/ Change(c) \/ UserDelete(c) PROVE ForeignFree'
  BY <1>31 DEF UserCreate, Change, UserDelete
<1>32. ASSUME AdminDeleteLease PROVE ForeignFree'
  BY <1>32 DEF AdminDeleteLease
<1>33. ASSUME ForeignAdd PROVE ForeignFree'
  <2>1. core'.by = Human => ~ClaimUnderWay
    BY <1>33 DEF ForeignAdd, NoServer, Latecomer
  <2>2. UNCHANGED <<lease, pc>>
    BY <1>33 DEF ForeignAdd
  <2> QED
    BY <2>1, <2>2 DEF ClaimUnderWay
<1>34. ASSUME ForeignRemove \/ Expire \/ Forget \/ Observe PROVE ForeignFree'
  BY <1>34 DEF ForeignRemove, Expire, Forget, Observe
<1>35. ASSUME Discover PROVE ForeignFree'
  <2>1. PICK c \in CRs :
           core' = [NoServer EXCEPT !.by = Discovery, !.endpoint = spec[c].endpoint]
    BY <1>35 DEF Discover
  <2>2. core'.by # Human
    BY <2>1 DEF NoServer, Discovery
  <2> QED
    BY <1>35, <2>2 DEF Discover
<1>36. CASE UNCHANGED vars
  BY <1>36 DEF vars
<1> QED
  BY <1>1, <1>2, <1>3, <1>4, <1>5, <1>6, <1>7, <1>8, <1>9, <1>10, <1>11, <1>12, <1>13,
     <1>14, <1>15, <1>16, <1>17, <1>18, <1>19, <1>20, <1>21, <1>22, <1>23, <1>24, <1>25,
     <1>26, <1>30, <1>31, <1>32, <1>33, <1>34, <1>35, <1>36
     DEF Next, Step, Environment

\* A CR that names a server core already holds stays a mirror: no pass starts,
\* changes or removes what someone else put into core before the name was
\* claimed, whoever adds and removes names meanwhile.  The exception is a stamped
\* CR on a core that reports no provenance (discoveredFromItsOwnPod).
THEOREM ForeignKept == Spec => ForeignUntouched
<1> DEFINE Kept == \A c \in CRs : pc'[c] # pc[c] /\ core.by = Human =>
                                    core' = core \/ TakenUnseen(c)
<1>1. Init => ForeignFree
  BY DEF Init, ForeignFree, NoServer, Nobody, Human
<1>2. TypeOK /\ ClaimInv /\ ForeignFree /\ [Next]_vars => ForeignFree'
  BY ForeignStep
<1>3. TypeOK /\ ClaimInv /\ ForeignFree /\ [Next]_vars => [Kept]_vars
  <2> SUFFICES ASSUME TypeOK, ClaimInv, ForeignFree, Next PROVE Kept
    OBVIOUS
  <2>1. ASSUME NEW c \in CRs, Step(c) PROVE Kept
    <3>1. core.by = Human /\ holds(lease, c) => TakenUnseen(c)
      BY DEF ForeignFree, TakenUnseen, holds
    <3> QED
      BY <2>1, <3>1, HolderActs
  <2>2. CASE Crash
    BY <2>2 DEF Crash
  <2>3. CASE Environment /\ ~Crash
    <3>1. pc' = pc
      BY <2>3 DEF Environment, UserCreate, Change, UserDelete, AdminDeleteLease, ForeignAdd,
                  ForeignRemove, Discover, Expire, Observe, Forget, pass
    <3> QED
      BY <3>1
  <2> QED
    BY <2>1, <2>2, <2>3 DEF Next
<1> QED
  BY <1>1, <1>2, <1>3, TypeCorrect, ClaimsHold, PTL DEF Spec, ForeignUntouched

-----------------------------------------------------------------------------
(* The protocol keeps what NameOwnership promises *)

\* Every step of the protocol is a step of NameOwnership or leaves its variables
\* unchanged.
LEMMA StepOwnership ==
  ASSUME ~RetryLosesReply, TypeOK, ClaimInv, OwnedInv, [Next]_vars
  PROVE  [Ownership!Next]_(Ownership!vars)
<1> DEFINE Goal == [Ownership!Next]_(Ownership!vars)
<1> USE HolderFacts, AnnotatedHolder, OriginFacts, CRsAssumption
    DEF ClaimInv, WellFormed, ClaimCurrent, FinalizerFirst, HoldingCalls,
        OwnedInv, OwnedIsClaimed, ServerCleared, ClearedCalls,
        holds, TypeOK, objects, pass, Goto, End, Report, Fault, FailCall,
        Ownership!Next, Ownership!vars, Ownership!Acquire, Ownership!Put, Ownership!Remove,
        Ownership!LeaveBehind, Ownership!GiveUp, Ownership!Others
<1>1. ASSUME NEW c \in CRs, Reconcile(c) PROVE Goal
  BY <1>1 DEF Reconcile, FirstCall
<1>2. ASSUME NEW c \in CRs, AddFinalizer(c) PROVE Goal
  BY <1>2 DEF AddFinalizer
<1>3. ASSUME NEW c \in CRs, GetClaim(c) PROVE Goal
  BY <1>3 DEF GetClaim, AfterClaim
<1>4. ASSUME NEW c \in CRs, PeerIdentity(c) PROVE Goal
  BY <1>4 DEF PeerIdentity, AfterClaim
<1>5. ASSUME NEW c \in CRs, RefuseDeregister(c) PROVE Goal
  BY <1>5 DEF RefuseDeregister, Deregister
<1>6. ASSUME NEW c \in CRs, RefuseRelease(c) PROVE Goal
  BY <1>6 DEF RefuseRelease, Release
<1>7. ASSUME NEW c \in CRs, Deliver(c) PROVE Goal
  BY <1>7 DEF Deliver, deliverConnection
<1>8. ASSUME NEW c \in CRs, RecordDelivered(c) PROVE Goal
  BY <1>8 DEF RecordDelivered, annotate
<1>9. ASSUME NEW c \in CRs, DeregisterOld(c) PROVE Goal
  BY <1>9 DEF DeregisterOld, Deregister
<1>10. ASSUME NEW c \in CRs, RecordEndpoint(c) PROVE Goal
  BY <1>10 DEF RecordEndpoint, annotate
<1>11. ASSUME NEW c \in CRs, Health(c) PROVE Goal
  BY <1>11 DEF Health, register, ToRegister
<1>12. ASSUME NEW c \in CRs, Provenance(c) PROVE Goal
  BY <1>12 DEF Provenance
<1>13. ASSUME NEW c \in CRs, TakeDiscovered(c) PROVE Goal
  BY <1>13 DEF TakeDiscovered, take
<1>14. ASSUME NEW c \in CRs, Move(c) PROVE Goal
  BY <1>14 DEF Move, deliverConnection
<1>15. ASSUME NEW c \in CRs, RecordMoved(c) PROVE Goal
  BY <1>15 DEF RecordMoved, annotate
<1>16. ASSUME NEW c \in CRs, Take(c) PROVE Goal
  BY <1>16 DEF Take, take, ToRegister
<1>17. ASSUME NEW c \in CRs, Post(c) PROVE Goal
  BY <1>17 DEF Post
<1>18. ASSUME NEW c \in CRs, RecordTLS(c) PROVE Goal
  BY <1>18 DEF RecordTLS, annotate
<1>19. ASSUME NEW c \in CRs, GiveBack(c) PROVE Goal
  BY <1>19 DEF GiveBack, Release
<1>20. ASSUME NEW c \in CRs, Start(c) PROVE Goal
  BY <1>20 DEF Start
<1>21. ASSUME NEW c \in CRs, RecordStarted(c) PROVE Goal
  BY <1>21 DEF RecordStarted, annotate
<1>22. ASSUME NEW c \in CRs, Read(c) PROVE Goal
  BY <1>22 DEF Read
<1>23. ASSUME NEW c \in CRs, DelGetClaim(c) PROVE Goal
  BY <1>23 DEF DelGetClaim, AfterDelClaim
<1>24. ASSUME NEW c \in CRs, DelDeregister(c) PROVE Goal
  BY <1>24 DEF DelDeregister
<1>25. ASSUME NEW c \in CRs, DelRelease(c) PROVE Goal
  <2>1. \A d \in CRs : ("server" \in warned[d])' <=> "server" \in warned[d]
    BY <1>25 DEF DelRelease
  <2>2. {d \in CRs : "server" \in warned[d]}' = {d \in CRs : "server" \in warned[d]}
    BY <2>1
  <2>3. core' = core /\ lease' \in {lease, NoLease}
    BY <1>25 DEF DelRelease
  <2>4. lease.holder = c /\ (core.by = c => "server" \in warned[c])
    BY <1>25 DEF DelRelease
  <2> QED
    BY <2>2, <2>3, <2>4
<1>26. ASSUME NEW c \in CRs, DelFinalizer(c) PROVE Goal
  BY <1>26 DEF DelFinalizer
<1>30. ASSUME Crash PROVE Goal
  BY <1>30 DEF Crash
<1>31. ASSUME NEW c \in CRs, UserCreate(c) \/ Change(c) \/ UserDelete(c) PROVE Goal
  BY <1>31 DEF UserCreate, Change, UserDelete
<1>32. ASSUME AdminDeleteLease PROVE Goal
  BY <1>32 DEF AdminDeleteLease, Lease
<1>33. ASSUME ForeignRemove \/ Expire \/ Forget \/ Observe PROVE Goal
  BY <1>33 DEF ForeignRemove, Expire, Forget, Observe, Human, Latecomer, Nobody, Discovery
<1>34. ASSUME ForeignAdd PROVE Goal
  <2>1. core'.by \in {Human, Latecomer}
    BY <1>34 DEF ForeignAdd, NoServer
  <2> QED
    BY <1>34, <2>1 DEF ForeignAdd
<1>35. ASSUME Discover PROVE Goal
  <2>1. PICK c \in CRs :
           core' = [NoServer EXCEPT !.by = Discovery, !.endpoint = spec[c].endpoint]
    BY <1>35 DEF Discover
  <2>2. core'.by = Discovery
    BY <2>1 DEF NoServer
  <2> QED
    BY <1>35, <2>2 DEF Discover
<1>36. CASE UNCHANGED vars
  BY <1>36 DEF vars
<1> QED
  BY <1>1, <1>2, <1>3, <1>4, <1>5, <1>6, <1>7, <1>8, <1>9, <1>10, <1>11, <1>12, <1>13,
     <1>14, <1>15, <1>16, <1>17, <1>18, <1>19, <1>20, <1>21, <1>22, <1>23, <1>24, <1>25,
     <1>26, <1>30, <1>31, <1>32, <1>33, <1>34, <1>35, <1>36
     DEF Next, Step, Environment

\* The registration implements NameOwnership, under the same proviso about
\* repeated POSTs.
THEOREM ImplementsOwnership ==
  ASSUME ~RetryLosesReply
  PROVE  Spec => RefinesOwnership
<1>1. Init => Ownership!Init
  BY HolderFacts DEF Init, Ownership!Init, NoServer
<1>2. TypeOK /\ ClaimInv /\ OwnedInv /\ [Next]_vars => [Ownership!Next]_(Ownership!vars)
  BY StepOwnership
<1> QED
  BY <1>1, <1>2, TypeCorrect, ClaimsHold, OwnedHolds, PTL
     DEF Spec, RefinesOwnership, Ownership!Spec

=============================================================================
