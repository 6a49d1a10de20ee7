----------------------------- MODULE IxfrStream -----------------------------
(***************************************************************************)
(* The record streams of zone transfers: how the primary's journal writes  *)
(* them (ixfr/journal.go) and how secondary-persistent reads them back     *)
(* (secondary-persistent/ixfr.go).  A stream is a sequence of records; a   *)
(* SOA marks the ends of a transfer and the parts of an increment.         *)
(***************************************************************************)
EXTENDS IxfrJournal, SequencesExt

isSOA(rr) == rr.type = "SOA"

(* The primary's side.  The records of one part come in no fixed order.    *)

soaWithSerial(soa, serial) == [soa EXCEPT !.data = serial]

ixfrStream(current, increments) ==
    LET soa  == soaOf(current)
        part(inc) == <<soaWithSerial(soa, inc.oldSerial)>> \o SetToSeq(inc.deleted)
                       \o <<soaWithSerial(soa, inc.newSerial)>> \o SetToSeq(inc.added)
    IN  <<soa>> \o FlattenSeq([i \in DOMAIN increments |-> part(increments[i])]) \o <<soa>>

axfrStream(current) ==
    LET soa == soaOf(current)
    IN  <<soa>> \o SetToSeq(current \ SOAs(current)) \o <<soa>>

(* Journal.answer as the records that go over the wire.                    *)
AnswerStream(incs, current, serial) ==
    LET a == answer(incs, current, serial)
    IN  CASE a.kind = "axfr"     -> axfrStream(current)
          [] a.kind = "uptodate" -> <<soaOf(current)>>
          [] a.kind = "ixfr"     -> ixfrStream(current, a.incs)

-----------------------------------------------------------------------------
(* The secondary's side.                                                   *)

Inner(stream) == SubSeq(stream, 2, Len(stream) - 1)

classifyXFR(stream) ==
    LET first == Head(stream)
        last  == Last(stream)
    IN  CASE stream = << >> \/ ~isSOA(first)  -> "error"
          [] Len(stream) = 1 /\ isSOA(first) -> "uptodate"
          [] OTHER ->
               IF ~isSOA(last) \/ last.data # first.data THEN "error"
               ELSE IF \E rr \in Range(Inner(stream)) : isSOA(rr) /\ rr.data # first.data
                      THEN "ixfr" ELSE "axfr"

(* The parser's state: the section it is in, the increment it is filling,  *)
(* the increments it has finished, and whether it has failed.              *)
NoIncrement == [oldSerial |-> 0, newSerial |-> 0, deleted |-> {}, added |-> {}]
ParseStart  == [mode |-> "none", cur |-> NoIncrement, incs |-> << >>, ok |-> TRUE]

flush(p) ==
    CASE p.mode = "none" -> p
      [] p.mode = "add" /\ p.cur.oldSerial # p.cur.newSerial
                        /\ less(p.cur.oldSerial, p.cur.newSerial) ->
           [p EXCEPT !.incs = Append(p.incs, p.cur), !.cur = NoIncrement]
      [] OTHER -> [p EXCEPT !.ok = FALSE]

(* One record.  A SOA that does not carry the envelope's serial opens a    *)
(* delete section, whichever section it is met in; one that does opens the *)
(* add section.                                                            *)
ParseRR(envelope, p, rr) ==
    CASE ~p.ok -> p
      [] p.ok /\ ~isSOA(rr) ->
           CASE p.mode = "del" -> [p EXCEPT !.cur.deleted = @ \cup {rr}]
             [] p.mode = "add" -> [p EXCEPT !.cur.added = @ \cup {rr}]
             [] OTHER          -> [p EXCEPT !.ok = FALSE]
      [] p.ok /\ isSOA(rr) /\ rr.data # envelope ->
           LET q == IF p.mode = "add" THEN flush(p) ELSE p
           IN  [q EXCEPT !.mode = "del", !.cur.oldSerial = rr.data]
      [] OTHER ->
           IF p.mode = "del" THEN [p EXCEPT !.mode = "add", !.cur.newSerial = rr.data]
                             ELSE [p EXCEPT !.ok = FALSE]

parseIXFR(stream) ==
    LET envelope == Head(stream).data
        p == flush(FoldLeft(LAMBDA q, rr : ParseRR(envelope, q, rr), ParseStart, Inner(stream)))
    IN  [incs |-> p.incs,
         ok   |-> p.ok /\ p.incs # << >> /\ Last(p.incs).newSerial = envelope]

(* A slip: the delete section parsed and then ignored.                     *)
removeRRsNever(z, del) == z

(* dns.IsDuplicate, which decides what a delete matches, ignores TTLs.     *)
removeRRs(z, del) == {rr \in z : \A d \in del : ~sameRR(rr, d)}

applyIncrements(z, increments, soa) ==
    LET updated == FoldLeft(LAMBDA c, inc : removeRRs(c, inc.deleted) \cup inc.added,
                            z, increments)
    IN  (updated \ SOAs(updated)) \cup {soa}

(* What installing a transfer makes of the zone z.                         *)
Installed(z, stream) ==
    IF classifyXFR(stream) = "ixfr"
      THEN applyIncrements(z, parseIXFR(stream).incs, Head(stream))
      ELSE Range(stream)

(* Does the transfer install at all?                                       *)
Installs(stream) ==
    \/ classifyXFR(stream) = "axfr"
    \/ classifyXFR(stream) = "ixfr" /\ parseIXFR(stream).ok

=============================================================================
