------------------------ MODULE MCGovernedNamespace -------------------------
(***************************************************************************)
(* Instances of GovernedNamespace: a few specs that between them take      *)
(* every branch, each a plausible edit of another.                         *)
(***************************************************************************)
EXTENDS GovernedNamespace

Unpinned == [caps |-> "egress", max |-> 1, pinned |-> FALSE, cold |-> FALSE, keyed |-> FALSE,
             fence |-> "on"]
Pinned   == [Unpinned EXCEPT !.pinned = TRUE, !.fence = "off"]
Quiet    == [Unpinned EXCEPT !.caps = "noNetwork", !.max = 0, !.cold = TRUE, !.fence = "off"]
Keyed    == [Unpinned EXCEPT !.caps = "noEgress", !.keyed = TRUE, !.pinned = TRUE]
Mistaken == [Unpinned EXCEPT !.caps = "nil", !.max = 0, !.fence = "bad"]

SafetySpecs == {Unpinned, Pinned, Quiet}
LiveSpecs   == {Unpinned, Keyed, Mistaken}

=============================================================================
