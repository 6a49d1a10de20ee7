--------------------------- MODULE MCUpdatePersist ---------------------------
(* Instances of UpdatePersist for TLC.                                     *)
EXTENDS UpdatePersist

CONSTANTS apex, www, elsewhere, n1, n2, d1, none

Rec(n, t, d, ttl)    == [name |-> n, type |-> t, data |-> d, ttl |-> ttl]
Add(n, t, d, ttl)    == [class |-> "IN", name |-> n, type |-> t, data |-> d, ttl |-> ttl]
DelRR(n, t, d)       == [class |-> "NONE", name |-> n, type |-> t, data |-> d, ttl |-> 0]
DelSet(n, t)         == [class |-> "ANY", name |-> n, type |-> t, data |-> none, ttl |-> 0]
Wire(ps, us)         == [formed |-> TRUE, ours |-> TRUE, signed |-> TRUE,
                         prereqs |-> ps, updates |-> us]
Edit(del, adds)      == [others |-> adds, soas |-> << >>, nss |-> << >>, early |-> del,
                         nsDels |-> << >>, wipeNS |-> FALSE, wipeSOA |-> FALSE]
ReplaceNS(nss)       == [Edit(<< >>, << >>) EXCEPT !.nss = nss, !.wipeNS = TRUE]
ReplaceSOA(soas)     == [Edit(<< >>, << >>) EXCEPT !.soas = soas, !.wipeSOA = TRUE]

MCNames == {apex, www}
MCData  == {n1, n2, d1}
MCTypes == RRTypes

(* Serials start two steps before they wrap.                               *)
MCSeed == {Rec(apex, "SOA", 2 * Half - 2, 300), Rec(apex, "NS", n1, 300)}

(* Edits of ordinary records, each one able to undo another.               *)
MCEdits == {
    Wire(<< >>, <<Add(www, "A", d1, 300)>>),
    Wire(<< >>, <<Add(www, "A", d1, 3600)>>),
    Wire(<< >>, <<DelSet(www, "ANY"), Add(www, "CNAME", d1, 300)>>),
    Wire(<< >>, <<DelSet(www, "A")>>),
    Wire(<< >>, <<Add(www, "CNAME", d1, 300), Add(www, "A", d1, 300)>>)}

(* Attempts on the apex.                                                   *)
MCApexEdits == {
    Wire(<< >>, <<Add(apex, "NS", n2, 300), DelRR(apex, "NS", n1)>>),
    Wire(<< >>, <<DelRR(apex, "NS", n1), DelRR(apex, "NS", n2)>>),
    Wire(<< >>, <<DelSet(apex, "ANY"), DelSet(apex, "NS"), DelSet(apex, "SOA")>>),
    Wire(<< >>, <<DelRR(apex, "SOA", 2 * Half - 2)>>),
    Wire(<< >>, <<Add(apex, "SOA", 1, 300), Add(apex, "CNAME", d1, 300)>>)}

(* Messages that are turned away, and prerequisites of each form.          *)
MCChecked == {
    [Wire(<< >>, << >>) EXCEPT !.formed = FALSE],
    [Wire(<< >>, << >>) EXCEPT !.ours = FALSE],
    [Wire(<< >>, << >>) EXCEPT !.signed = FALSE],
    Wire(<< >>, <<Add(www, "A", d1, 300), Add(elsewhere, "A", d1, 300)>>),
    Wire(<< >>, <<Add(www, "RRSIG", d1, 300), Add(www, "AXFR", none, 0)>>),
    Wire(<<DelSet(www, "ANY")>>, <<Add(www, "RRSIG", d1, 300)>>),
    Wire(<<[DelSet(www, "ANY") EXCEPT !.class = "NONE"]>>, <<Add(www, "A", d1, 300)>>),
    Wire(<<Add(www, "A", d1, 0)>>, <<DelRR(www, "A", d1)>>),
    Wire(<<[DelSet(www, "CNAME") EXCEPT !.class = "NONE"]>>, <<DelSet(www, "RRSIG")>>)}

MCHttp == {
    Edit(<<DelRR(www, "A", d1)>>, <<Add(www, "CNAME", d1, 300)>>),
    ReplaceNS(<<Add(apex, "NS", n2, 300)>>),
    ReplaceNS(<<Add(apex, "NS", n1, 300), Add(apex, "NS", n2, 300)>>),
    ReplaceNS(<< >>),
    ReplaceSOA(<<Add(apex, "SOA", 0, 300)>>)}

MCApexAndChecked == MCApexEdits \cup MCChecked

(* Records that some later stage cannot take: a SOA below the apex, NSEC3  *)
(* parameters, a type without a mnemonic, a TTL of 0.                      *)
MCOffApexSOA == {
    Wire(<< >>, <<Add(www, "SOA", 0, 300)>>),
    Wire(<< >>, <<DelSet(www, "SOA")>>)}
MCUnbuildable  == {Wire(<< >>, <<Add(www, "NSEC3PARAM", d1, 300)>>)}
MCUnreadable   == {Wire(<< >>, <<Add(www, "TYPE65280", d1, 300)>>)}
MCZeroTTL      == {Wire(<< >>, <<Add(www, "A", d1, 0)>>)}
MCOdd == MCOffApexSOA \cup MCUnbuildable \cup MCUnreadable \cup MCZeroTTL
           \cup {Wire(<< >>, <<DelRR(apex, "NS", n1), Add(www, "A", d1, 3600)>>)}

MCNone == {}
=============================================================================
