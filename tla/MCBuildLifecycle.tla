--------------------------- MODULE MCBuildLifecycle ---------------------------
(* Small instances of BuildLifecycle for TLC: two builds of one combination. *)
EXTENDS BuildLifecycle, TLC

CONSTANTS s1, p1, p2, i1, i2

MCBuilds == {1, 2}
MCSeries == {s1}
MCPrefixes == {p1, p2}
MCImages == {i1, i2}
MCSeriesOf == [b \in MCBuilds |-> s1]
MCPrefixOf == [b \in MCBuilds |-> IF b = 1 THEN p1 ELSE p2]
MCImageOf == [b \in MCBuilds |-> IF b = 1 THEN i1 ELSE i2]

(* The second build has every sidecar, where the runs look at the files. *)
MCSidecars == {2}

(* At most one directory is being removed, or left by a removal that was cut. *)
MCOneRemoval == Cardinality({b \in doomed : dir[b]}) < 2

(* Requests are told apart by nothing but their names. *)
MCSymmetry == Permutations(Requests)
=============================================================================
