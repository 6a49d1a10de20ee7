---------------------------- MODULE ZoneTransfer ----------------------------
(***************************************************************************)
(* A primary (UpdatePersist) and a secondary-persistent zone that follows  *)
(* it over the network (secondary-persistent/transfer.go, ixfr.go).        *)
(*                                                                         *)
(* A transfer is not one step: the serial is read when the request goes    *)
(* out, the answer is what the primary's journal holds when it arrives     *)
(* there, and the increments are applied to whatever the zone holds when   *)
(* they come back.  Nothing keeps two transfers of a zone apart: besides   *)
(* the update loop, every NOTIFY transfers in the goroutine of its query   *)
(* (TransferInFunc) and every admin request that forces a transfer in that *)
(* of its handler.                                                         *)
(***************************************************************************)
EXTENDS UpdatePersist, IxfrStream

CONSTANT Workers    \* goroutines that may transfer the zone; "loop" is the update loop

VARIABLES
    zone,    \* what the secondary serves; {} before the first transfer
    xfer,    \* per worker: where it is, the serial it gave, what it received
    clean    \* history: a whole zone was installed, and since then single
             \*   increments only, each on the serial it was asked for

secondary == <<zone, xfer, clean>>
allVars   == <<vars, secondary>>

(* deltas is history too: how many increments the answer was made of.      *)
Resting == [pc |-> "idle", serial |-> 0, stream |-> << >>, deltas |-> 0]

TransferInit ==
    /\ Init
    /\ zone = {}
    /\ xfer = [w \in Workers |-> Resting]
    /\ clean = FALSE

-----------------------------------------------------------------------------
(* transferIn: IXFR when the zone has a serial to start from, else AXFR.   *)
StartTransfer(w) ==
    xfer' = [xfer EXCEPT ![w] =
               [pc |-> IF hasSOA(zone) THEN "ixfr" ELSE "axfr",
                serial |-> serialOf(zone), stream |-> << >>, deltas |-> 0]]

(* The update loop asks for the primary's SOA first, which the primary     *)
(* answers from the view queries see.                                      *)
shouldTransfer == Serving /\ less(serialOf(zone), serialOf(mem))

(* transferAndUpdate.  A zone without data transfers at once, and again    *)
(* until it succeeds.                                                      *)
Refresh ==
    /\ "loop" \in Workers /\ xfer["loop"].pc = "idle"
    /\ \/ zone = {}
       \/ zone # {} /\ shouldTransfer
    /\ StartTransfer("loop")
    /\ UNCHANGED <<vars, zone, clean>>

(* ForceTransfer asks nothing; a transfer for a NOTIFY asks first, and is  *)
(* one of the cases here.  Bounded by the primary's commits.               *)
ForceTransfer(w) ==
    /\ w # "loop" /\ xfer[w].pc = "idle"
    /\ commits < MaxCommits
    /\ StartTransfer(w)
    /\ UNCHANGED <<vars, zone, clean>>

(* The primary answers from its journal.                                   *)
Fetch(w) ==
    /\ Serving
    /\ \/ /\ xfer[w].pc = "ixfr"
          /\ xfer' = [xfer EXCEPT ![w] =
                        [pc |-> "ixfrGot", serial |-> xfer[w].serial,
                         stream |-> AnswerStream(incs, current, xfer[w].serial),
                         deltas |-> Len(answer(incs, current, xfer[w].serial).incs)]]
       \/ /\ xfer[w].pc = "axfr"
          /\ xfer' = [xfer EXCEPT ![w] =
                        [pc |-> "axfrGot", serial |-> xfer[w].serial,
                         stream |-> axfrStream(current), deltas |-> 0]]
    /\ UNCHANGED <<vars, zone, clean>>

(* No answer, or one cut short: IXFR falls back to AXFR, AXFR gives up.    *)
FetchFails(w) ==
    /\ xfer[w].pc \in {"ixfr", "axfr"}
    /\ xfer' = [xfer EXCEPT ![w] = IF xfer[w].pc = "ixfr" THEN [@ EXCEPT !.pc = "axfr"]
                                                          ELSE Resting]
    /\ UNCHANGED <<vars, zone, clean>>

(* What the history makes of an IXFR's answer x that is installed.         *)
StaysClean(x) ==
    \/ x.deltas = 0
    \/ x.deltas = 1 /\ clean /\ x.serial = serialOf(zone)

(* installIXFR, installAXFR; an IXFR that does not parse, or that says     *)
(* there is nothing new, falls back to AXFR.                               *)
Install(w) ==
    /\ \/ /\ xfer[w].pc = "ixfrGot" /\ Installs(xfer[w].stream)
          /\ zone' = Installed(zone, xfer[w].stream)
          /\ clean' = StaysClean(xfer[w])
          /\ xfer' = [xfer EXCEPT ![w] = Resting]
       \/ /\ xfer[w].pc = "ixfrGot" /\ ~Installs(xfer[w].stream)
          /\ UNCHANGED <<zone, clean>>
          /\ xfer' = [xfer EXCEPT ![w] = [Resting EXCEPT !.pc = "axfr"]]
       \/ /\ xfer[w].pc = "axfrGot"
          /\ zone' = Range(xfer[w].stream)
          /\ clean' = TRUE
          /\ xfer' = [xfer EXCEPT ![w] = Resting]
    /\ UNCHANGED vars

-----------------------------------------------------------------------------
Handler == ApplyNext \/ NothingChanged \/ Persist \/ CommitJournal \/ Swap

PrimaryNext ==
    /\ \/ \E r \in WireRequests : ServeUpdate(r)
       \/ \E q \in HttpRequests : HttpApply(q)
       \/ Handler
       \/ PersistFails
       \/ CommitJournalFails
       \/ Crash
       \/ Restart
    /\ UNCHANGED secondary

TransferNext ==
    \/ PrimaryNext
    \/ Refresh
    \/ \E w \in Workers : ForceTransfer(w)
    \/ \E w \in Workers : Fetch(w) \/ FetchFails(w) \/ Install(w)

(* The handler runs to its end; the process manager restarts a dead        *)
(* primary; the update loop retries for ever, so a network that works      *)
(* again and again lets it through.  An answer that has arrived is         *)
(* installed: weak fairness of Install, written out, because only Install  *)
(* leaves the two places where it is enabled.                              *)
TransferSpec ==
    /\ TransferInit /\ [][TransferNext]_allVars
    /\ WF_allVars((Handler \/ Restart) /\ UNCHANGED secondary)
    /\ SF_allVars(Refresh)
    /\ \A w \in Workers : SF_allVars(Fetch(w))
    /\ \A w \in Workers : []<>(xfer[w].pc \notin {"ixfrGot", "axfrGot"})

-----------------------------------------------------------------------------
(* Properties.                                                             *)

(* A secondary whose serial says it is current holds what the primary      *)
(* holds ("atomic increment application").  The code does not keep this:   *)
(* parseIXFR misreads an answer of two increments or more.                 *)
SecondaryExact ==
    Serving /\ zone # {} /\ serialOf(zone) = serialOf(current) => zone = current

(* It does keep this, however many transfers of the zone overlap, overtake *)
(* each other, are lost or fall back, and whatever crashes: a zone that    *)
(* was built from whole transfers and from single increments that met the  *)
(* serial they were asked for is, under the primary's serial, the          *)
(* primary's zone (installAXFR, parseIXFR, applyIncrements).               *)
TransfersExact ==
    clean /\ Serving /\ serialOf(zone) = serialOf(current) => zone = current

(* However two transfers of the zone overtake each other, the secondary     *)
(* never serves a generation that a crash of the primary would undo.       *)
SecondaryNeverAhead ==
    zone # {} => ~serialNewer(serialOf(zone), serialOf(store))

(* If from some point on the primary stays up and no increment lands       *)
(* wrongly, then after the primary's last update the secondary ends up     *)
(* with the primary's zone: no lost answer, no crash, no fallback and no   *)
(* old answer of an overlapping transfer that winds the zone back leaves   *)
(* it behind for good (transferAndUpdate).                                 *)
Converges == <>[](Serving /\ clean) => (commits = MaxCommits ~> zone = store)

=============================================================================
