--------------------------- MODULE NamespaceEgress --------------------------
(***************************************************************************)
(* How the namespace egress controller keeps the default-deny policy of a  *)
(* namespace that opted into egress enforcement                            *)
(* (internal/controller/namespace_egress_controller.go).                   *)
(*                                                                         *)
(* A pass reads the label and the policy, and then makes at most one call. *)
(* Only the policy the namespace controls has events that lead back to the *)
(* namespace; someone else's policy under the same name has none.          *)
(***************************************************************************)
EXTENDS Naturals

CONSTANT MaxChanges   \* bound: edits, failures and restarts

VARIABLES
    label,      \* the enforce-egress label of the namespace is "true"
    deny,       \* the NetworkPolicy under the default-deny's name
    nsQueued,   \* the namespace is in the controller's work queue
    nsTimer,    \* a RequeueAfter will bring it back
    nsPc,       \* the call the pass makes next
    nsFailed,   \* a call of the last pass failed
    changes     \* changes so far

\* own: as desired and controlled by the namespace.  edited: controlled by it,
\* and changed since.  orphan: written before owner references were set.
\* foreign: someone else's.
Denies == {"none", "own", "edited", "orphan", "foreign"}

\* Mutant: the label of the manager is not looked at.
defaultDenyOwnedByOperator_Controlled(d) == d \in {"own", "edited"}

defaultDenyOwnedByOperator(d) == d \in {"own", "edited", "orphan"}

\* The policy's owner is the namespace: Owns() maps its events.
Watched(d) == d \in {"own", "edited"}

\* The variables of the namespace controller keep their types.
NsTypeOK ==
    /\ label \in BOOLEAN
    /\ deny \in Denies
    /\ nsQueued \in BOOLEAN /\ nsTimer \in BOOLEAN /\ nsFailed \in BOOLEAN
    /\ nsPc \in {"idle", "applyDeny", "deleteDeny"}

NsInit ==
    /\ label \in BOOLEAN
    /\ deny \in {"none", "orphan", "foreign"}
    /\ nsQueued = TRUE
    /\ nsTimer = FALSE
    /\ nsPc = "idle"
    /\ nsFailed = FALSE

Change == changes < MaxChanges /\ changes' = changes + 1

-----------------------------------------------------------------------------
(* Reconcile *)

\* The reads of a pass, and what it does about them.  A policy that is not the
\* operator's is neither adopted nor deleted; an opted-in namespace comes back
\* for it later.
NsReconcile ==
    /\ nsPc = "idle"
    /\ nsQueued
    /\ nsQueued' = FALSE
    /\ nsFailed' = FALSE
    /\ \/ /\ ~label /\ defaultDenyOwnedByOperator(deny)
          /\ nsPc' = "deleteDeny"
          /\ UNCHANGED nsTimer
       \/ /\ label
          /\ deny = "none" \/ (defaultDenyOwnedByOperator(deny) /\ deny # "own")
          /\ nsPc' = "applyDeny"
          /\ UNCHANGED nsTimer
       \/ /\ label /\ ~defaultDenyOwnedByOperator(deny) /\ deny # "none"
          /\ nsTimer' = TRUE
          /\ UNCHANGED nsPc
       \/ /\ IF label THEN deny = "own" ELSE ~defaultDenyOwnedByOperator(deny)
          /\ UNCHANGED <<nsPc, nsTimer>>
    /\ UNCHANGED <<label, deny, changes>>

\* The read of the policy fails.  Only an opted-in namespace returns the error.
NsReadFails ==
    /\ nsPc = "idle"
    /\ nsQueued
    /\ Change
    /\ nsQueued' = label
    /\ nsFailed' = TRUE
    /\ UNCHANGED <<label, deny, nsTimer, nsPc>>

\* applyOwned forces ownership: what appeared under the name since the read is
\* overwritten.
NsApplyDeny ==
    /\ nsPc = "applyDeny"
    /\ deny' = "own"
    /\ nsQueued' = TRUE
    /\ nsPc' = "idle"
    /\ UNCHANGED <<label, nsTimer, nsFailed, changes>>

NsDeleteDeny ==
    /\ nsPc = "deleteDeny"
    /\ deny' = "none"
    /\ nsQueued' = (nsQueued \/ Watched(deny))
    /\ nsPc' = "idle"
    /\ UNCHANGED <<label, nsTimer, nsFailed, changes>>

NsCallFails ==
    /\ nsPc # "idle"
    /\ Change
    /\ nsPc' = "idle"
    /\ nsQueued' = TRUE
    /\ nsFailed' = TRUE
    /\ UNCHANGED <<label, deny, nsTimer>>

NsRequeue ==
    /\ nsTimer
    /\ nsTimer' = FALSE
    /\ nsQueued' = TRUE
    /\ UNCHANGED <<label, deny, nsPc, nsFailed, changes>>

\* The operator restarts: every namespace is listed and queued.
NsRestart ==
    /\ nsPc' = "idle"
    /\ nsQueued' = TRUE
    /\ nsTimer' = FALSE
    /\ nsFailed' = FALSE
    /\ UNCHANGED <<label, deny>>

-----------------------------------------------------------------------------
(* Users *)

FlipLabel ==
    /\ label' = ~label
    /\ nsQueued' = TRUE
    /\ UNCHANGED <<deny, nsTimer, nsPc, nsFailed>>

\* Someone edits or deletes the policy, or puts one of their own in its place.
DenyChanges ==
    /\ Change
    /\ \/ deny = "own" /\ deny' \in {"edited", "none"}
       \/ deny \in {"edited", "orphan", "foreign"} /\ deny' = "none"
       \/ deny = "none" /\ deny' = "foreign"
    /\ nsQueued' = (nsQueued \/ Watched(deny))
    /\ UNCHANGED <<label, nsTimer, nsPc, nsFailed>>

NsStep == NsReconcile \/ NsApplyDeny \/ NsDeleteDeny

NsNext == NsStep \/ NsReadFails \/ NsCallFails \/ NsRequeue \/ DenyChanges

=============================================================================
