--------------------------- MODULE MCPersistQueue ---------------------------
(* Instances of PersistQueue for TLC.                                      *)
EXTENDS PersistQueue, TLC

(* Serials around the wrap.                                                *)
MCTwoSerials == {2 * Half - 1, 0}

(* Goroutines have no identity the code looks at.                          *)
Goroutines == Permutations(Transfers) \cup Permutations(Writers)

(* A zone's contents are read by snapshotZone only, and a transfer installs *)
(* them anew before it: while no transfer is between the two, they make no *)
(* difference.                                                             *)
Needed == [o \in Owners |->
             IF \E t \in Transfers : xfer[t].pc = "installed" /\ xfer[t].owner = o
             THEN zoneOf[o] ELSE Nothing]
Relevant == <<Needed, live, catalog, xfer, load, writer, queue, stop, disk>>
=============================================================================
