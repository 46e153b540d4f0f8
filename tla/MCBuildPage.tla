------------------------------ MODULE MCBuildPage ------------------------------
(* One build with a compose file, looked at while it is made and deleted. *)
EXTENDS BuildPage

CONSTANTS s1, p1, i1

MCBuilds == {1}
MCSeries == {s1}
MCPrefixes == {p1}
MCImages == {i1}
MCSeriesOf == [b \in MCBuilds |-> s1]
MCPrefixOf == [b \in MCBuilds |-> p1]
MCImageOf == [b \in MCBuilds |-> i1]
MCComposed == {1}
=============================================================================
