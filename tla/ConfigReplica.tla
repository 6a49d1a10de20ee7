---------------------------- MODULE ConfigReplica ----------------------------
(***************************************************************************)
(* What a cluster promises of a member's copy of the configuration, with   *)
(* nothing of how it is kept: the copy follows the primary.  It holds only *)
(* changes the primary has made, table by table, and no change it has once *)
(* taken over is lost again.                                               *)
(***************************************************************************)
CONSTANT Tables
VARIABLES source, replica

Init ==
    /\ source = [t \in Tables |-> {}]
    /\ replica = [t \in Tables |-> {}]

(* The primary changes a table.                                            *)
Change ==
    /\ \A t \in Tables : source[t] \subseteq source'[t]
    /\ UNCHANGED replica

(* The replica takes over some of what it lacks.                           *)
Sync ==
    /\ \A t \in Tables : /\ replica[t] \subseteq replica'[t]
                         /\ replica'[t] \subseteq source[t]
    /\ UNCHANGED source

Next == Change \/ Sync

Spec == Init /\ [][Next]_<<source, replica>>
=============================================================================
