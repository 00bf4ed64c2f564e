------------------------- MODULE MCDiscoverySource -------------------------
(* Small instances of DiscoverySource. *)
EXTENDS DiscoverySource

\* The second source's only name is also one of the first's.
MCFinds == [s \in Sources |-> IF s = "a" THEN {1, 2} ELSE {2}]

MCType == [s \in Sources |-> IF s = "a" THEN "ConfigMap" ELSE "Annotations"]
NamespaceType == [s \in Sources |-> "Namespace"]
ServicesType == [s \in Sources |-> "ServiceDiscovery"]

Plain == [authoritative |-> TRUE, paused |-> FALSE, controller |-> TRUE,
          cross |-> FALSE, allow |-> Names, limit |-> Cardinality(Names)]

\* One deviation from Plain at a time, and an Additive source without ownership.
MCSpecs == [s \in Sources |->
    IF s = "b" THEN {Plain}
    ELSE {Plain,
          [Plain EXCEPT !.limit = 1, !.controller = FALSE],
          [Plain EXCEPT !.paused = TRUE],
          [Plain EXCEPT !.cross = TRUE],
          [Plain EXCEPT !.authoritative = FALSE, !.controller = FALSE, !.allow = {2}]}]
\* Without the refusal, which is for ConfigMaps, and with a filter on names.
NamespaceSpecs == [s \in Sources |->
    {sp \in MCSpecs[s] : ~sp.cross /\ sp.limit # 1} \cup {[Plain EXCEPT !.allow = {2}]}]
PlainSpecs == [s \in Sources |-> {Plain}]
=============================================================================
