--------------------------- MODULE NameOwnership ----------------------------
(***************************************************************************)
(* What the registration claims promise about one server name in core:     *)
(*                                                                         *)
(*   - the name has one owner at a time, and changes hands only by being   *)
(*     free in between;                                                    *)
(*   - a CR's server appears in core only while that CR owns the name;     *)
(*   - an owner gives the name up only with its server out of core, or     *)
(*     after saying that it stays there.                                   *)
(***************************************************************************)
CONSTANTS CRs, Nobody, Human, Latecomer, Discovery

VARIABLES
    owner,   \* the CR that owns the name, or Nobody
    entry,   \* who put the server that core holds there, or Nobody
    left     \* the CRs that said their server stays in core

vars == <<owner, entry, left>>

Init == owner = Nobody /\ entry = Nobody /\ left = {}

Acquire(c) ==
    /\ owner = Nobody
    /\ owner' = c
    /\ UNCHANGED <<entry, left>>

\* The owner registers its server, or takes over the one core discovered.
Put(c) ==
    /\ owner = c /\ entry \in {Nobody, Discovery}
    /\ entry' = c
    /\ UNCHANGED <<owner, left>>

Remove(c) ==
    /\ owner = c
    /\ entry' = Nobody
    /\ UNCHANGED <<owner, left>>

\* The owner could not be sure to have removed its server, and says so.
LeaveBehind(c) ==
    /\ owner = c
    /\ left' = left \cup {c}
    /\ entry' \in {entry, Nobody}
    /\ UNCHANGED owner

GiveUp(c) ==
    /\ owner = c /\ (entry # c \/ c \in left)
    /\ owner' = Nobody
    /\ UNCHANGED <<entry, left>>

\* Core's other callers, its discovery and its restarts.
Others ==
    /\ entry' \in IF entry = Nobody THEN {Human, Latecomer, Discovery} ELSE {Nobody}
    /\ UNCHANGED <<owner, left>>

Next == Others \/ \E c \in CRs : \/ Acquire(c) \/ Put(c) \/ Remove(c)
                                 \/ LeaveBehind(c) \/ GiveUp(c)

Spec == Init /\ [][Next]_vars

=============================================================================
