---------------------------- MODULE IxfrJournal ----------------------------
(***************************************************************************)
(* The RFC 1995 journal of one zone (ixfr/journal.go, ixfr/persist.go):    *)
(* the increments between the zone's recent generations, newest last.  An  *)
(* increment keeps the two serials and the non-SOA records that went and   *)
(* came; TTLs count, so a TTL change is a delete and an add.               *)
(***************************************************************************)
EXTENDS ZoneUpdate

Increment == [oldSerial : Serials, newSerial : Serials,
              deleted : SUBSET RR, added : SUBSET RR]

(* A slip: records compared without their TTL.                             *)
diffMissingSameTTL(a, b) == {rr \in a : rr.type # "SOA" /\ matching(b, rr) = {}}

diffMissing(a, b) == {rr \in a \ b : rr.type # "SOA"}

NewIncrement(old, new) ==
    [oldSerial |-> serialOf(old), newSerial |-> serialOf(new),
     deleted |-> diffMissing(old, new), added |-> diffMissing(new, old)]

(* commit: append the increment and keep the newest `history' of them.     *)
Extend(incs, inc, history) ==
    LET next == Append(incs, inc)
    IN  IF Len(next) > history
          THEN SubSeq(next, Len(next) - history + 1, Len(next))
          ELSE next

chained(incs) ==
    \A i \in DOMAIN incs : i > 1 => incs[i].oldSerial = incs[i-1].newSerial

(* A slip: a saved journal trusted as it is.                               *)
reconcileNothing(incs, current) == incs

(* What a load keeps of a saved journal: up to the newest increment that   *)
(* ends at the zone's serial, the longest suffix that chains.              *)
reconcile(incs, current) ==
    LET ends == {i \in DOMAIN incs : incs[i].newSerial = current}
    IN  IF ends = {} THEN << >>
        ELSE LET end    == CHOOSE i \in ends : \A j \in ends : j <= i
                 starts == {i \in 1 .. end : chained(SubSeq(incs, i, end))}
                 start  == CHOOSE i \in starts : \A j \in starts : i <= j
             IN  SubSeq(incs, start, end)

-----------------------------------------------------------------------------
(* Serving a transfer from a journal.                                      *)

(* The increments an IXFR from `serial' consists of; none when the journal *)
(* does not reach back to it or does not end at the current generation.    *)
ixfrFrom(incs, current, serial) ==
    LET starts == {i \in DOMAIN incs : incs[i].oldSerial = serial}
    IN  IF \/ starts = {}
           \/ ~hasSOA(current)
           \/ incs[Len(incs)].newSerial # serialOf(current)
          THEN << >>
          ELSE SubSeq(incs, CHOOSE i \in starts : \A j \in starts : i <= j, Len(incs))

(* The kind of answer, with the increments of an IXFR.  Serial 0 asks for  *)
(* the whole zone.                                                         *)
answer(incs, current, serial) ==
    LET cur    == serialOf(current)
        stream == ixfrFrom(incs, current, serial)
    IN  CASE serial = 0 -> [kind |-> "axfr", incs |-> << >>]
          [] serial # 0 /\ (serial = cur \/ serialNewer(serial, cur)) ->
               [kind |-> "uptodate", incs |-> << >>]
          [] OTHER -> IF stream = << >> THEN [kind |-> "axfr", incs |-> << >>]
                                        ELSE [kind |-> "ixfr", incs |-> stream]

(* What RFC 1995 says a client makes of increments, deletes before adds in *)
(* each one: a record is there if the last increment that says something   *)
(* about it adds it, or none does and it was there before.                 *)
Replay(z, incs) ==
    LET lastWord(rr, i) == \A j \in DOMAIN incs : j > i => rr \notin incs[j].deleted
    IN  {rr \in z \ SOAs(z) : lastWord(rr, 0)}
          \cup UNION {{rr \in incs[i].added : lastWord(rr, i)} : i \in DOMAIN incs}

=============================================================================
