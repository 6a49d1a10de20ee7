------------------------- MODULE PersistQueueProofs -------------------------
(***************************************************************************)
(* Theorems about PersistQueue, for any number of transfers and writers,   *)
(* any serials and any number of owners of the name.                       *)
(***************************************************************************)
EXTENDS PersistQueue, TLAPS

-----------------------------------------------------------------------------
(* Types.  A snapshot is of something because an installed zone stays one, *)
(* and an owner is only removed when there is another to come.             *)

TypeInv ==
    /\ QueueTypeOK
    /\ \A t \in Transfers : xfer[t].pc = "installed" => zoneOf[xfer[t].owner] # Nothing
    /\ catalog = "removed" => live < MaxOwners

LEMMA TypeInit == Init => TypeInv
PROOF
<1> SUFFICES ASSUME Init PROVE TypeInv
  OBVIOUS
<1>1. 1 \in Owners
  BY QueueAssumption DEF Owners
<1>2. \A t \in Transfers : xfer[t] = Resting /\ xfer[t].pc = "idle"
  BY DEF Init, Resting
<1>3. xfer \in [Transfers -> [pc : {"idle", "flight", "installed"}, owner : Owners,
                             snap : {Nothing}]]
  BY <1>1 DEF Init, Resting
<1>4. writer \in [Writers -> [pc : {"free", "finish"}, snap : {Nothing}]]
  BY DEF Init, Free
<1>5. load \in [Loaders -> [pc : {"idle"}, owner : Owners, snap : {Nothing}]]
  BY <1>1 DEF Init, Resting
<1> QED
  BY <1>1, <1>2, <1>3, <1>4, <1>5 DEF Init, TypeInv, QueueTypeOK

LEMMA NothingIsNoContents == Nothing \notin Contents
PROOF
  BY HalfAssumption DEF Nothing, Contents, Serials

(* The states of a transfer, of a load and of a writer.                    *)
Xfer == [pc : {"idle", "flight", "installed"}, owner : Owners, snap : {Nothing}]
          \cup [pc : {"snapped"}, owner : Owners, snap : Contents]
LoadState == [pc : {"idle"}, owner : Owners, snap : {Nothing}]
               \cup [pc : {"install", "mark"}, owner : Owners, snap : Contents]
Writer == [pc : {"free", "finish"}, snap : {Nothing}]
            \cup [pc : {"begin", "check", "save", "saved"}, snap : Contents]

LEMMA TypeFacts ==
    ASSUME TypeInv
    PROVE  /\ zoneOf \in [Owners -> Contents \cup {Nothing}]
           /\ live \in Owners
           /\ catalog \in {"steady", "removed", "replaced"}
           /\ xfer \in [Transfers -> Xfer]
           /\ load \in [Loaders -> LoadState]
           /\ writer \in [Writers -> Writer]
           /\ writing \in BOOLEAN
           /\ pending \in Contents \cup {Nothing}
           /\ written \in Contents \cup {Nothing}
           /\ disk \in Contents \cup {Nothing}
PROOF
  BY DEF TypeInv, QueueTypeOK, Xfer, LoadState, Writer

LEMMA TypeStep == TypeInv /\ [Next]_vars => TypeInv'
PROOF
<1> SUFFICES ASSUME TypeInv, [Next]_vars PROVE TypeInv'
  OBVIOUS
<1> USE TypeFacts DEF queue
<1>0. Resting \in Xfer /\ Resting \in LoadState /\ Free \in Writer
  BY QueueAssumption DEF Resting, Free, Xfer, LoadState, Writer, Owners
<1>1. ASSUME NEW t \in Transfers, StartTransfer(t) PROVE TypeInv'
  <2> DEFINE new == [Resting EXCEPT !.pc = "flight", !.owner = live]
  <2>1. new \in Xfer /\ new.pc # "installed"
    BY DEF Resting, Xfer
  <2>2. xfer' = [xfer EXCEPT ![t] = new]
    BY <1>1 DEF StartTransfer
  <2> HIDE DEF new
  <2>3. /\ xfer' \in [Transfers -> Xfer]
        /\ \A u \in Transfers : xfer'[u].pc = "installed" => xfer'[u] = xfer[u]
    BY <2>1, <2>2
  <2> QED
    BY <1>1, <2>3 DEF StartTransfer, TypeInv, QueueTypeOK, Xfer
<1>2. ASSUME NEW t \in Transfers, TransferFails(t) PROVE TypeInv'
  <2>1. /\ xfer' \in [Transfers -> Xfer]
        /\ \A u \in Transfers : xfer'[u].pc = "installed" => xfer'[u] = xfer[u]
    BY <1>0, <1>2 DEF TransferFails, Resting
  <2> QED
    BY <1>2, <2>1 DEF TransferFails, TypeInv, QueueTypeOK, Xfer
<1>3. ASSUME NEW t \in Transfers, NEW s \in Offered, Install(t, s) PROVE TypeInv'
  <2> DEFINE o == xfer[t].owner
  <2>1. xfer[t] \in Xfer /\ xfer[t].pc = "flight"
    BY <1>3 DEF Install
  <2>2. o \in Owners /\ [serial |-> s] \in Contents
    BY <2>1, QueueAssumption DEF Xfer, Contents
  <2>3. [xfer[t] EXCEPT !.pc = "installed"] \in Xfer
        /\ [xfer[t] EXCEPT !.pc = "installed"].owner = o
    BY <2>1 DEF Xfer
  <2>4. /\ xfer' \in [Transfers -> Xfer]
        /\ \A u \in Transfers : xfer'[u].owner = xfer[u].owner
        /\ \A u \in Transfers : u # t => xfer'[u] = xfer[u]
    BY <1>3, <2>3 DEF Install
  <2>5. /\ zoneOf' \in [Owners -> Contents \cup {Nothing}]
        /\ zoneOf'[o] # Nothing
        /\ \A p \in Owners : p # o => zoneOf'[p] = zoneOf[p]
    BY <1>3, <2>2, NothingIsNoContents DEF Install
  <2>6. ASSUME NEW u \in Transfers, xfer'[u].pc = "installed"
        PROVE  zoneOf'[xfer'[u].owner] # Nothing
    <3>1. xfer[u].owner \in Owners
      BY DEF Xfer
    <3> QED
      BY <2>4, <2>5, <2>6, <3>1 DEF TypeInv
  <2> QED
    BY <1>3, <2>4, <2>5, <2>6 DEF Install, TypeInv, QueueTypeOK, Xfer
<1>4. ASSUME NEW t \in Transfers, snapshotZone(t) PROVE TypeInv'
  <2> DEFINE new == [Resting EXCEPT !.pc = "snapped", !.snap = zoneOf[xfer[t].owner]]
  <2>1. xfer[t] \in Xfer /\ xfer[t].pc = "installed" /\ zoneOf[xfer[t].owner] # Nothing
    BY <1>4 DEF snapshotZone, TypeInv
  <2>2. xfer[t].owner \in Owners
    BY <2>1 DEF Xfer
  <2>3. zoneOf[xfer[t].owner] \in Contents
    BY <2>1, <2>2
  <2>4. new \in Xfer /\ new.pc # "installed"
    BY <1>0, <2>3 DEF Xfer, Resting
  <2>5. xfer' = [xfer EXCEPT ![t] = new]
    BY <1>4 DEF snapshotZone
  <2> HIDE DEF new
  <2>6. /\ xfer' \in [Transfers -> Xfer]
        /\ \A u \in Transfers : xfer'[u].pc = "installed" => xfer'[u] = xfer[u]
    BY <2>4, <2>5
  <2> QED
    BY <1>4, <2>6 DEF snapshotZone, TypeInv, QueueTypeOK, Xfer
<1>5. ASSUME NEW t \in Transfers, enqueuePersist(t) PROVE TypeInv'
  <2>1. xfer[t] \in Xfer /\ xfer[t].pc = "snapped"
    BY <1>5 DEF enqueuePersist
  <2>2. xfer[t].snap \in Contents
    BY <2>1 DEF Xfer
  <2>3. [pc |-> "begin", snap |-> xfer[t].snap] \in Writer
    BY <2>2 DEF Writer
  <2>4. /\ xfer' \in [Transfers -> Xfer]
        /\ \A u \in Transfers : xfer'[u].pc = "installed" => xfer'[u] = xfer[u]
    BY <1>0, <1>5 DEF enqueuePersist, Resting
  <2>5. writer' \in [Writers -> Writer] /\ writing' \in BOOLEAN
        /\ pending' \in Contents \cup {Nothing}
    BY <1>5, <2>2, <2>3 DEF enqueuePersist
  <2> QED
    BY <1>5, <2>4, <2>5 DEF enqueuePersist, TypeInv, QueueTypeOK, Xfer, Writer
<1>6. ASSUME NEW w \in Writers, WriterStep(w) PROVE TypeInv'
  <2>0. writer[w] \in Writer
    OBVIOUS
  <2>1. ASSUME NEW pc \in {"check", "save", "saved"},
               writer[w].pc \in {"begin", "check", "save"}, Goto(w, pc)
        PROVE  writer' \in [Writers -> Writer]
    <3>1. [writer[w] EXCEPT !.pc = pc] \in Writer
      BY <2>0, <2>1 DEF Writer
    <3> QED
      BY <2>1, <3>1 DEF Goto
  <2>f. ASSUME Forget(w, "finish") PROVE writer' \in [Writers -> Writer]
    BY <2>f DEF Forget, Writer
  <2>2. CASE CheckStop(w)
    <3>1. writer' \in [Writers -> Writer] /\ writing' \in BOOLEAN
          /\ pending' \in Contents \cup {Nothing}
      BY <1>0, <2>1, <2>2 DEF CheckStop
    <3> QED
      BY <2>2, <3>1 DEF CheckStop, TypeInv, QueueTypeOK, Writer
  <2>3. CASE CheckStale(w)
    <3>1. writer' \in [Writers -> Writer]
      BY <2>1, <2>3, <2>f DEF CheckStale
    <3> QED
      BY <2>3, <3>1 DEF CheckStale, TypeInv, QueueTypeOK, Writer
  <2>4. CASE Save(w)
    <3>1. writer' \in [Writers -> Writer]
      BY <2>1, <2>4 DEF Save
    <3>2. disk' \in Contents
      BY <2>0, <2>4 DEF Save, Writer
    <3> QED
      BY <2>4, <3>1, <3>2 DEF Save, TypeInv, QueueTypeOK, Writer
  <2>5. CASE RecordFailure(w)
    <3>1. writer' \in [Writers -> Writer]
      BY <2>5, <2>f DEF RecordFailure
    <3> QED
      BY <2>5, <3>1 DEF RecordFailure, TypeInv, QueueTypeOK, Writer
  <2>6. CASE Record(w)
    <3>1. writer' \in [Writers -> Writer]
      BY <2>6, <2>f DEF Record
    <3>2. written' \in Contents
      BY <2>0, <2>6 DEF Record, Writer
    <3> QED
      BY <2>6, <3>1, <3>2 DEF Record, TypeInv, QueueTypeOK, Writer
  <2>7. CASE finishPersist(w)
    <3>1. pending # Nothing => [pc |-> "begin", snap |-> pending] \in Writer
      BY DEF Writer
    <3>2. writer' \in [Writers -> Writer] /\ writing' \in BOOLEAN
      BY <1>0, <2>7, <3>1 DEF finishPersist
    <3> QED
      BY <2>7, <3>2 DEF finishPersist, TypeInv, QueueTypeOK, Writer
  <2> QED
    BY <1>6, <2>2, <2>3, <2>4, <2>5, <2>6, <2>7 DEF WriterStep
<1>7. ASSUME removePersistFile \/ replaceDynamicZone \/ closePersist PROVE TypeInv'
  <2>1. live + 1 \in Owners \/ ~(live < MaxOwners)
    BY QueueAssumption DEF Owners
  <2> QED
    BY <1>7, <2>1 DEF removePersistFile, replaceDynamicZone, closePersist, TypeInv, QueueTypeOK
<1>8. ASSUME NEW l \in Loaders,
             \/ startCatalogMembers \/ ReloadFromStore
             \/ installZoneData(l) \/ markWritten(l)
      PROVE  TypeInv'
  <2>1. load[l] \in LoadState /\ \A t \in Transfers : xfer[t].owner \in Owners
    BY DEF Xfer
  <2>2. CASE startCatalogMembers \/ ReloadFromStore
    <3>1. disk # Nothing => [pc |-> "install", owner |-> live, snap |-> disk] \in LoadState
      BY DEF LoadState
    <3>2. load' \in [Loaders -> LoadState]
      BY <2>2, <3>1 DEF startCatalogMembers, ReloadFromStore, Load, Loaders
    <3> QED
      BY <2>2, <3>2 DEF startCatalogMembers, ReloadFromStore, TypeInv, QueueTypeOK, LoadState
  <2>3. CASE installZoneData(l)
    <3>1. load[l].owner \in Owners /\ load[l].snap \in Contents
      BY <2>1, <2>3 DEF installZoneData, LoadState
    <3>2. [Resting EXCEPT !.pc = "mark", !.snap = load[l].snap] \in LoadState
      BY <1>0, <3>1 DEF LoadState, Resting
    <3>3. load' \in [Loaders -> LoadState]
      BY <2>3, <3>2 DEF installZoneData
    <3>4. /\ zoneOf' \in [Owners -> Contents \cup {Nothing}]
          /\ \A o \in Owners : zoneOf[o] # Nothing => zoneOf'[o] # Nothing
      BY <2>3, <3>1, NothingIsNoContents DEF installZoneData
    <3> QED
      BY <2>1, <2>3, <3>3, <3>4 DEF installZoneData, TypeInv, QueueTypeOK, LoadState
  <2>4. CASE markWritten(l)
    <3>1. written' \in Contents
      BY <2>1, <2>4 DEF markWritten, LoadState
    <3>2. load' \in [Loaders -> LoadState]
      BY <1>0, <2>4 DEF markWritten
    <3> QED
      BY <2>4, <3>1, <3>2 DEF markWritten, TypeInv, QueueTypeOK, LoadState
  <2> QED
    BY <1>8, <2>2, <2>3, <2>4
<1>9. ASSUME Restart PROVE TypeInv'
  <2>1. live' \in Owners
    BY <1>9, QueueAssumption DEF Restart, Owners, TypeInv
  <2>2. zoneOf' \in [Owners -> Contents \cup {Nothing}]
    BY <1>9, <2>1 DEF Restart
  <2>3. xfer' \in [Transfers -> Xfer] /\ writer' \in [Writers -> Writer]
        /\ load' \in [Loaders -> LoadState]
        /\ \A t \in Transfers : xfer'[t].pc # "installed"
    BY <1>0, <1>9 DEF Restart, Resting
  <2> QED
    BY <1>9, <2>1, <2>2, <2>3 DEF Restart, TypeInv, QueueTypeOK, Xfer, LoadState, Writer
<1>10. ASSUME UNCHANGED vars PROVE TypeInv'
  BY <1>10 DEF vars, TypeInv, QueueTypeOK
<1> QED
  BY <1>1, <1>2, <1>3, <1>4, <1>5, <1>6, <1>7, <1>8, <1>9, <1>10 DEF Next, Loaders

(* Every variable keeps its type; in particular a transfer never queues,   *)
(* and a writer never writes, a snapshot of a zone that has no contents.   *)
THEOREM QueueTypeCorrect == Spec => []QueueTypeOK
PROOF
<1>1. TypeInv => QueueTypeOK
  BY DEF TypeInv
<1> QED
  BY <1>1, TypeInit, TypeStep, PTL DEF Spec

-----------------------------------------------------------------------------
(* The queue.  A writer gives up s.writing in two places, so there may be  *)
(* two writers for a while and none of them owns the flag; what holds is   *)
(* that a flag that is up, or a snapshot that waits, has some writer that  *)
(* still comes to finishPersist or to the check of persistStop.            *)

QueueInv ==
    /\ TypeInv
    /\ writing \/ pending # Nothing => \E w \in Writers : Busy(w)

LEMMA QueueStep == QueueInv /\ [Next]_vars => QueueInv'
PROOF
<1> SUFFICES ASSUME QueueInv, [Next]_vars PROVE QueueInv'
  OBVIOUS
<1> DEFINE Looked == writing \/ pending # Nothing => \E w \in Writers : Busy(w)
<1>0. TypeInv /\ Looked
  BY DEF QueueInv
<1>1. TypeInv'
  BY <1>0, TypeStep
<1>2. Looked'
  <2> USE <1>0, TypeFacts DEF queue, Busy
  <2>1. ASSUME NEW t \in Transfers, NEW s \in Offered, Install(t, s) PROVE Looked'
    BY <2>1 DEF Install
  <2>2. ASSUME NEW t \in Transfers, StartTransfer(t) \/ TransferFails(t) \/ snapshotZone(t)
        PROVE  Looked'
    BY <2>2 DEF StartTransfer, TransferFails, snapshotZone
  <2>3. ASSUME NEW t \in Transfers, enqueuePersist(t) PROVE Looked'
    BY <2>3 DEF enqueuePersist
  <2>4. ASSUME NEW w \in Writers, WriterStep(w) PROVE Looked'
    <3>0. writer[w].pc # "free" /\ writer \in [Writers -> Writer]
      BY <2>4 DEF WriterStep, CheckStop, CheckStale, Save, Record, RecordFailure,
                       finishPersist
    <3>1. ASSUME NEW pc \in {"check", "save", "saved", "finish"}, Goto(w, pc) \/ Forget(w, pc)
          PROVE  Busy(w)'
      <4>1. writer[w] \in [pc : {"free", "begin", "check", "save", "saved", "finish"},
                           snap : Contents \cup {Nothing}]
        BY <3>0 DEF Writer
      <4> QED
        BY <3>0, <3>1, <4>1 DEF Goto, Forget
    <3>2. CASE CheckStop(w)
      BY <3>1, <3>2 DEF CheckStop
    <3>3. CASE CheckStale(w) \/ Save(w) \/ Record(w) \/ RecordFailure(w)
      BY <3>1, <3>3 DEF CheckStale, Save, Record, RecordFailure
    <3>4. CASE finishPersist(w)
      BY <3>0, <3>4 DEF finishPersist
    <3> QED
      BY <2>4, <3>2, <3>3, <3>4 DEF WriterStep
  <2>5. ASSUME \/ removePersistFile \/ replaceDynamicZone \/ startCatalogMembers
               \/ ReloadFromStore \/ \E l \in Loaders : installZoneData(l) \/ markWritten(l)
               \/ closePersist \/ Restart \/ UNCHANGED vars
        PROVE  Looked'
    BY <2>5 DEF removePersistFile, replaceDynamicZone, startCatalogMembers, ReloadFromStore,
                installZoneData, markWritten, closePersist, Restart, vars
  <2> QED
    BY <2>1, <2>2, <2>3, <2>4, <2>5 DEF Next
<1> QED
  BY <1>1, <1>2 DEF QueueInv

(* However many transfers queue snapshots and however their steps fall     *)
(* between those of the writers, a queued snapshot has a writer that will  *)
(* still look at the queue (enqueuePersist, runPersist, finishPersist).    *)
THEOREM PendingAlwaysHasWriter == Spec => []PendingHasWriter
PROOF
<1>1. Init => QueueInv
  BY TypeInit DEF Init, QueueInv
<1>2. QueueInv => PendingHasWriter
  BY DEF QueueInv, PendingHasWriter
<1> QED
  BY <1>1, <1>2, QueueStep, PTL DEF Spec

-----------------------------------------------------------------------------
(* After closePersist there may be writers again, but none that has passed *)
(* the check of persistStop.                                               *)

QuietInv ==
    /\ TypeInv
    /\ stop = "closed" => \A w \in Writers : writer[w].pc \in {"free", "begin"}

LEMMA QuietStep ==
    ASSUME QuietInv, [Next]_vars
    PROVE  /\ QuietInv'
           /\ stop = "closed" /\ stop' = "closed" => disk' \in {disk, Nothing}
PROOF
<1> DEFINE Unpassed == stop = "closed" => \A w \in Writers : writer[w].pc \in {"free", "begin"}
           Quiet    == stop = "closed" /\ stop' = "closed" => disk' \in {disk, Nothing}
<1>0. TypeInv /\ Unpassed
  BY DEF QuietInv
<1>1. TypeInv'
  BY <1>0, TypeStep
<1>2. Unpassed' /\ Quiet
  <2> USE <1>0, TypeFacts DEF queue
  <2>1. ASSUME NEW t \in Transfers, NEW s \in Offered, Install(t, s)
        PROVE  Unpassed' /\ Quiet
    BY <2>1 DEF Install
  <2>2. ASSUME NEW t \in Transfers, StartTransfer(t) \/ TransferFails(t) \/ snapshotZone(t)
        PROVE  Unpassed' /\ Quiet
    BY <2>2 DEF StartTransfer, TransferFails, snapshotZone
  <2>3. ASSUME NEW t \in Transfers, enqueuePersist(t) PROVE Unpassed' /\ Quiet
    BY <2>3 DEF enqueuePersist
  <2>4. ASSUME NEW w \in Writers, WriterStep(w) PROVE Unpassed' /\ Quiet
    <3>1. CASE CheckStop(w)
      BY <3>1 DEF CheckStop, Free, Goto
    <3>2. CASE \/ CheckStale(w) \/ Save(w) \/ Record(w) \/ RecordFailure(w)
              \/ finishPersist(w)
      <4>1. stop # "closed" /\ stop' = stop
        BY <3>2 DEF CheckStale, Save, Record, RecordFailure, finishPersist
      <4> QED
        BY <4>1
    <3> QED
      BY <2>4, <3>1, <3>2 DEF WriterStep
  <2>5. ASSUME \/ removePersistFile \/ replaceDynamicZone \/ startCatalogMembers
               \/ ReloadFromStore \/ \E l \in Loaders : installZoneData(l) \/ markWritten(l)
               \/ closePersist \/ Restart \/ UNCHANGED vars
        PROVE  Unpassed' /\ Quiet
    BY <2>5 DEF removePersistFile, replaceDynamicZone, startCatalogMembers, ReloadFromStore,
                installZoneData, markWritten, closePersist, Restart, vars, Busy
  <2> QED
    BY <2>1, <2>2, <2>3, <2>4, <2>5 DEF Next
<1> QED
  BY <1>1, <1>2 DEF QuietInv

(* From the moment closePersist is back until the process is gone, no      *)
(* contents reach the store, although transfers that were in flight still  *)
(* install, queue and start writers (runPersist checks persistStop first). *)
THEOREM ClosedStaysQuiet == Spec => ClosedIsQuiet
PROOF
<1>1. Init => QuietInv
  BY TypeInit DEF Init, QuietInv
<1>2. QuietInv /\ [Next]_vars => QuietInv'
  BY QuietStep
<1>3. QuietInv /\ [Next]_vars =>
          [stop = "closed" /\ stop' = "closed" => disk' \in {disk, Nothing}]_vars
  BY QuietStep
<1> QED
  BY <1>1, <1>2, <1>3, PTL DEF Spec, ClosedIsQuiet

=============================================================================
