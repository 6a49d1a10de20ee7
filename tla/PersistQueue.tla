---------------------------- MODULE PersistQueue ----------------------------
(***************************************************************************)
(* How secondary-persistent gets one catalog member zone into SQLite       *)
(* (secondary-persistent/persist.go) while transfers install generations   *)
(* of it, the catalog gives the name to a new member (catalog.go) and the  *)
(* server stops or dies.                                                   *)
(*                                                                         *)
(* A transfer installs, takes a snapshot and queues it, three steps.  The  *)
(* queue has room for one snapshot beside the one being written; a writer  *)
(* is a goroutine that checks, saves, records what it saved and then looks *)
(* at the queue, every one of these under a lock it takes anew.            *)
(*                                                                         *)
(* Contents are their serial: the code looks at nothing else.              *)
(***************************************************************************)
EXTENDS SerialArithmetic

CONSTANTS
    Transfers,       \* goroutines inside transferIn
    Writers,         \* goroutines inside runPersist
    Offered,         \* serials the primaries offer
    MaxOwners,       \* bound: members that get the name, one after the other
    SavesMayFail,    \* may SQLite refuse a write or a removal?
    Clustered        \* may a cluster snapshot have the zone loaded anew?

ASSUME QueueAssumption ==
    /\ Offered \subseteq Serials
    /\ MaxOwners \in Nat \ {0}
    /\ SavesMayFail \in BOOLEAN /\ Clustered \in BOOLEAN

Owners   == 1 .. MaxOwners
Contents == [serial : Serials]
Nothing  == [serial |-> 2 * Half]

VARIABLES
    zoneOf,      \* per owner, the contents of its file.Zone
    live,        \* the owner whose zone is served
    catalog,     \* where applyCatalog is with giving the name to a new owner
    xfer,        \* per transfer: where it is, for which owner, its snapshot
    load,        \* per caller of loadIfPresent: where it is, into which zone, the rows
    writer,      \* per writer: where it is and what it writes
    writing,     \* s.writing
    pending,     \* s.pending
    written,     \* s.hasWritten and s.lastSerial, with whose contents they were
    stop,        \* "closing" once persistStop is closed, "closed" once closePersist is back
    disk         \* the zone's rows in SQLite

queue == <<writing, pending, written>>
vars  == <<zoneOf, live, catalog, xfer, load, writer, queue, stop, disk>>

Resting == [pc |-> "idle", owner |-> 1, snap |-> Nothing]
Free    == [pc |-> "free", snap |-> Nothing]

(* The catalog's goroutine and the one that applies cluster snapshots.     *)
Loaders == {"catalog", "cluster"}

Init ==
    /\ zoneOf = [o \in Owners |-> Nothing] /\ live = 1 /\ catalog = "steady"
    /\ xfer = [t \in Transfers |-> Resting] /\ load = [l \in Loaders |-> Resting]
    /\ writer = [w \in Writers |-> Free]
    /\ writing = FALSE /\ pending = Nothing /\ written = Nothing
    /\ stop = "running" /\ disk = Nothing

-----------------------------------------------------------------------------
(* Transfers: of the update loop, of a NOTIFY, of an admin who forces one. *)
(* Only the served zone starts one, but a stopped zone may still finish    *)
(* the one it is in.                                                       *)

StartTransfer(t) ==
    /\ xfer[t].pc = "idle" /\ stop = "running"
    /\ xfer' = [xfer EXCEPT ![t] = [Resting EXCEPT !.pc = "flight", !.owner = live]]
    /\ UNCHANGED <<zoneOf, live, catalog, load, writer, queue, stop, disk>>

TransferFails(t) ==
    /\ xfer[t].pc = "flight"
    /\ xfer' = [xfer EXCEPT ![t] = Resting]
    /\ UNCHANGED <<zoneOf, live, catalog, load, writer, queue, stop, disk>>

(* installZoneData.  The update loop has asked for the SOA first, a forced *)
(* transfer has not, and by now the zone may have moved on: what comes in  *)
(* need not be newer than what it replaces.                                *)
Install(t, s) ==
    LET o == xfer[t].owner
    IN  /\ xfer[t].pc = "flight"
        /\ zoneOf' = [zoneOf EXCEPT ![o] = [serial |-> s]]
        /\ xfer' = [xfer EXCEPT ![t].pc = "installed"]
        /\ UNCHANGED <<live, catalog, load, writer, queue, stop, disk>>

(* persistAsync: the snapshot ...                                          *)
snapshotZone(t) ==
    /\ xfer[t].pc = "installed"
    /\ xfer' = [xfer EXCEPT ![t] =
                   [Resting EXCEPT !.pc = "snapped", !.snap = zoneOf[xfer[t].owner]]]
    /\ UNCHANGED <<zoneOf, live, catalog, load, writer, queue, stop, disk>>

(* ... and its way into the queue, straight to a writer when none is busy. *)
enqueuePersist(t) ==
    LET snap == xfer[t].snap
    IN  /\ xfer[t].pc = "snapped"
        /\ xfer' = [xfer EXCEPT ![t] = Resting]
        /\ \/ /\ written # Nothing /\ written.serial = snap.serial
              /\ UNCHANGED <<writer, writing, pending>>
           \/ /\ written = Nothing \/ written.serial # snap.serial
              /\ writing
              /\ pending' = snap
              /\ UNCHANGED <<writer, writing>>
           \/ /\ written = Nothing \/ written.serial # snap.serial
              /\ ~writing
              /\ writing' = TRUE
              /\ \E w \in Writers :
                   /\ writer[w].pc = "free"
                   /\ writer' = [writer EXCEPT ![w] = [pc |-> "begin", snap |-> snap]]
              /\ UNCHANGED pending
        /\ UNCHANGED <<zoneOf, live, catalog, load, written, stop, disk>>

-----------------------------------------------------------------------------
(* runPersist, step by step.                                               *)

Busy(w) == writer[w].pc # "free"

Goto(w, pc) == writer' = [writer EXCEPT ![w].pc = pc]

(* The snapshot is no longer needed.                                       *)
Forget(w, pc) == writer' = [writer EXCEPT ![w] = [pc |-> pc, snap |-> Nothing]]

(* A slip: a writer that does not look at persistStop.                     *)
CheckStopNever(w) ==
    /\ writer[w].pc = "begin"
    /\ Goto(w, "check")
    /\ UNCHANGED <<zoneOf, live, catalog, xfer, load, queue, stop, disk>>

CheckStop(w) ==
    /\ writer[w].pc = "begin"
    /\ \/ /\ stop # "running"
          /\ writing' = FALSE /\ pending' = Nothing
          /\ writer' = [writer EXCEPT ![w] = Free]
       \/ /\ stop = "running"
          /\ Goto(w, "check")
          /\ UNCHANGED <<writing, pending>>
    /\ UNCHANGED <<zoneOf, live, catalog, xfer, load, written, stop, disk>>

CheckStale(w) ==
    LET stale == written # Nothing /\ ~less(written.serial, writer[w].snap.serial)
    IN  /\ writer[w].pc = "check"
        /\ IF stale THEN Forget(w, "finish") ELSE Goto(w, "save")
        /\ UNCHANGED <<zoneOf, live, catalog, xfer, load, queue, stop, disk>>

Save(w) ==
    /\ writer[w].pc = "save"
    /\ disk' = writer[w].snap
    /\ Goto(w, "saved")
    /\ UNCHANGED <<zoneOf, live, catalog, xfer, load, queue, stop>>

Record(w) ==
    /\ writer[w].pc = "saved"
    /\ writing' = FALSE /\ written' = writer[w].snap
    /\ Forget(w, "finish")
    /\ UNCHANGED <<zoneOf, live, catalog, xfer, load, pending, stop, disk>>

(* A save that failed has left no trace.                                   *)
RecordFailure(w) ==
    /\ writer[w].pc = "save" /\ SavesMayFail
    /\ writing' = FALSE
    /\ Forget(w, "finish")
    /\ UNCHANGED <<zoneOf, live, catalog, xfer, load, pending, written, stop, disk>>

(* A slip: a writer that ends without a look at the queue.                 *)
finishPersistBlindly(w) ==
    /\ writer[w].pc = "finish"
    /\ writing' = FALSE
    /\ writer' = [writer EXCEPT ![w] = Free]
    /\ UNCHANGED <<zoneOf, live, catalog, xfer, load, pending, written, stop, disk>>

(* A slip: a writer that takes the next snapshot whether there is one or   *)
(* not.                                                                    *)
finishPersistAnyway(w) ==
    /\ writer[w].pc = "finish"
    /\ writing' = TRUE
    /\ pending' = Nothing
    /\ writer' = [writer EXCEPT ![w] = [pc |-> "begin", snap |-> pending]]
    /\ UNCHANGED <<zoneOf, live, catalog, xfer, load, written, stop, disk>>

(* finishPersist: the queued snapshot gets a goroutine of its own, which   *)
(* takes the place of the one that ends.                                   *)
finishPersist(w) ==
    LET wanted == /\ pending # Nothing
                  /\ written = Nothing \/ less(written.serial, pending.serial)
    IN  /\ writer[w].pc = "finish"
        /\ writing' = wanted
        /\ pending' = Nothing
        /\ writer' = [writer EXCEPT ![w] =
                        IF wanted THEN [pc |-> "begin", snap |-> pending] ELSE Free]
        /\ UNCHANGED <<zoneOf, live, catalog, xfer, load, written, stop, disk>>

-----------------------------------------------------------------------------
(* The name goes to a member with another ID: applyCatalog removes the     *)
(* rows, forgets what was written and swaps in an empty zone, which then   *)
(* loads whatever rows there are.  A removal that fails is only logged.    *)

removePersistFile ==
    /\ catalog = "steady" /\ load["catalog"].pc = "idle" /\ live < MaxOwners
    /\ disk' = Nothing \/ (SavesMayFail /\ UNCHANGED disk)
    /\ catalog' = "removed"
    /\ UNCHANGED <<zoneOf, live, xfer, load, writer, queue, stop>>

(* The rest of removePersistFile, and the swap, which no step of the queue *)
(* looks at.                                                               *)
replaceDynamicZone ==
    /\ catalog = "removed"
    /\ written' = Nothing /\ pending' = Nothing
    /\ live' = live + 1
    /\ catalog' = "replaced"
    /\ UNCHANGED <<zoneOf, xfer, load, writer, writing, stop, disk>>

(* loadIfPresent, up to installZoneData: Load finds rows, finds none or    *)
(* fails.                                                                  *)
Load(l) ==
    \/ /\ disk # Nothing
       /\ load' = [load EXCEPT ![l] = [pc |-> "install", owner |-> live, snap |-> disk]]
    \/ UNCHANGED load

(* The rest of it.                                                         *)
installZoneData(l) ==
    /\ load[l].pc = "install"
    /\ zoneOf' = [zoneOf EXCEPT ![load[l].owner] = load[l].snap]
    /\ load' = [load EXCEPT ![l] = [Resting EXCEPT !.pc = "mark", !.snap = load[l].snap]]
    /\ UNCHANGED <<live, catalog, xfer, writer, queue, stop, disk>>

markWritten(l) ==
    /\ load[l].pc = "mark"
    /\ written' = load[l].snap
    /\ load' = [load EXCEPT ![l] = Resting]
    /\ UNCHANGED <<zoneOf, live, catalog, xfer, writer, writing, pending, stop, disk>>

(* startCatalogMembers, once zoneMu is given up.                           *)
startCatalogMembers ==
    /\ catalog = "replaced"
    /\ Load("catalog")
    /\ catalog' = "steady"
    /\ UNCHANGED <<zoneOf, live, xfer, writer, queue, stop, disk>>

(* ReloadFromStore, after a cluster snapshot was applied: the zone is      *)
(* looked up under zoneMu, which applyCatalog holds up to the swap.        *)
ReloadFromStore ==
    /\ Clustered /\ catalog \in {"steady", "replaced"} /\ load["cluster"].pc = "idle"
    /\ Load("cluster")
    /\ UNCHANGED <<zoneOf, live, catalog, xfer, writer, queue, stop, disk>>

-----------------------------------------------------------------------------
(* The server stops: persistStop is closed, then the writers are waited    *)
(* for.  It dies, and it starts again.                                     *)

closePersist ==
    /\ \/ stop = "running" /\ stop' = "closing"
       \/ stop = "closing" /\ (\A w \in Writers : ~Busy(w)) /\ stop' = "closed"
    /\ UNCHANGED <<zoneOf, live, catalog, xfer, load, writer, queue, disk>>

(* After a restart the catalog is transferred anew, so the name comes up   *)
(* with its new owner.                                                     *)
Restart ==
    /\ live' = IF catalog = "removed" THEN live + 1 ELSE live
    /\ catalog' = "steady"
    /\ zoneOf' = [o \in Owners |-> IF o = live' THEN disk ELSE Nothing]
    /\ written' = disk
    /\ xfer' = [t \in Transfers |-> Resting] /\ load' = [l \in Loaders |-> Resting]
    /\ writer' = [w \in Writers |-> Free]
    /\ writing' = FALSE /\ pending' = Nothing
    /\ stop' = "running"
    /\ UNCHANGED disk

-----------------------------------------------------------------------------
WriterStep(w) ==
    \/ CheckStop(w)
    \/ CheckStale(w)
    \/ Save(w)
    \/ Record(w)
    \/ RecordFailure(w)
    \/ finishPersist(w)

Next ==
    \/ \E t \in Transfers :
         \/ StartTransfer(t)
         \/ TransferFails(t)
         \/ \E s \in Offered : Install(t, s)
         \/ snapshotZone(t)
         \/ enqueuePersist(t)
    \/ \E w \in Writers : WriterStep(w)
    \/ removePersistFile
    \/ replaceDynamicZone
    \/ startCatalogMembers
    \/ ReloadFromStore
    \/ \E l \in Loaders : installZoneData(l) \/ markWritten(l)
    \/ closePersist
    \/ Restart

Spec == Init /\ [][Next]_vars

-----------------------------------------------------------------------------
(* Properties.                                                             *)

(* A writer always has something to write.                                 *)
QueueTypeOK ==
    /\ zoneOf \in [Owners -> Contents \cup {Nothing}]
    /\ live \in Owners
    /\ catalog \in {"steady", "removed", "replaced"}
    /\ load \in [Loaders ->
                  [pc : {"idle"}, owner : Owners, snap : {Nothing}]
                    \cup [pc : {"install", "mark"}, owner : Owners, snap : Contents]]
    /\ xfer \in [Transfers ->
                  [pc : {"idle", "flight", "installed"}, owner : Owners, snap : {Nothing}]
                    \cup [pc : {"snapped"}, owner : Owners, snap : Contents]]
    /\ writer \in [Writers ->
                    [pc : {"free", "finish"}, snap : {Nothing}]
                      \cup [pc : {"begin", "check", "save", "saved"}, snap : Contents]]
    /\ writing \in BOOLEAN /\ stop \in {"running", "closing", "closed"}
    /\ {pending, written, disk} \subseteq Contents \cup {Nothing}

(* A queued snapshot always has a writer that will still look at the       *)
(* queue: however enqueuePersist falls between the two places where a      *)
(* writer clears s.writing, nothing is left in the queue for good.         *)
PendingHasWriter == pending # Nothing => \E w \in Writers : Busy(w)

(* Once closePersist is back, no contents reach the store any more,        *)
(* although transfers may still finish and queue theirs.                   *)
ClosedIsQuiet ==
    [][stop = "closed" /\ stop' = "closed" => disk' \in {disk, Nothing}]_vars
=============================================================================
