--------------------------- MODULE MCZoneTransfer ---------------------------
(* Instances of ZoneTransfer for TLC.                                      *)
EXTENDS ZoneTransfer

CONSTANTS apex, www, n1, d1, d2, none

Rec(n, t, d)   == [name |-> n, type |-> t, data |-> d, ttl |-> 300]
Add(n, t, d)   == [class |-> "IN", name |-> n, type |-> t, data |-> d, ttl |-> 300]
DelSet(n, t)   == [class |-> "ANY", name |-> n, type |-> t, data |-> none, ttl |-> 0]
Wire(us)       == [formed |-> TRUE, ours |-> TRUE, signed |-> TRUE,
                   prereqs |-> << >>, updates |-> us]

MCNames == {apex, www}
MCData  == {n1, d1, d2}
MCTypes == RRTypes
MCNone  == {}

MCSeed == {Rec(apex, "SOA", 2 * Half - 2), Rec(apex, "NS", n1)}

(* Adds, a removal and a replacement: enough to delete what was added and  *)
(* to add back what was deleted.                                           *)
MCEdits == {
    Wire(<<Add(www, "A", d1)>>),
    Wire(<<DelSet(www, "A"), Add(www, "A", d2)>>),
    Wire(<<DelSet(www, "A")>>)}

(* Two that do and undo, and one of which may only move the serial: the    *)
(* fewest with which an increment on the wrong serial does damage.         *)
MCToggle == {Wire(<<DelSet(www, "A")>>), Wire(<<DelSet(www, "A"), Add(www, "A", d2)>>)}
=============================================================================
