---------------------------- MODULE MCClusterSync ----------------------------
EXTENDS ClusterReplica, TLC

OneJoins   == {<<Joiner, Prim>>}
AllPrimary == [n \in Nodes |-> "primary"]
FreshGen   == [n \in Nodes |-> 0]
=============================================================================
