--------------------------- MODULE MCServerGroup ----------------------------
(***************************************************************************)
(* Instances of ServerGroup: two servers, which start as its members.     *)
(***************************************************************************)
EXTENDS ServerGroup

MCPolicies == {[kind |-> "none", min |-> 0], [kind |-> "percent", min |-> 50]}

MCStart == {[s \in Servers |-> [label |-> CHOOSE l \in Labels : TRUE, state |-> t]] :
                t \in {"Ready", "Dead"}}

=============================================================================
