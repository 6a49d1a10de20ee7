--------------------------- MODULE ClusterReplica ---------------------------
(***************************************************************************)
(* A cluster seen from one node that joins another: what it then holds of  *)
(* the other's configuration implements ConfigReplica.                     *)
(***************************************************************************)
EXTENDS ClusterSync

CONSTANTS Prim, Joiner

(* Prim joins nobody.  Joiner, installed as a standalone primary, joins    *)
(* Prim if it joins at all.  The other nodes do as they like.              *)
ASSUME JoinAssumption ==
    /\ Prim \in Nodes /\ Joiner \in Nodes /\ Prim # Joiner
    /\ \A n \in Nodes : <<Prim, n>> \notin Joins
    /\ \A n \in Nodes : <<Joiner, n>> \in Joins => n = Prim
    /\ StartRole[Joiner] = "primary"

(* The copy Joiner keeps of Prim's configuration is the one ConfigReplica  *)
(* describes: nothing but changes Prim has made, and never fewer of them   *)
(* than before (pullSnapshot's comparison, ApplySnapshot's transaction).   *)
Replica == INSTANCE ConfigReplica
             WITH source <- Of(Prim, Prim), replica <- Of(Prim, Joiner)
ReplicaSpec == Replica!Spec
=============================================================================
