---------------------------- MODULE UpdatePersist ----------------------------
(***************************************************************************)
(* One primary zone of dns-update-persistent: the handler of UPDATE        *)
(* messages and of admin HTTP edits, SQLite, the zone's IXFR journal, the  *)
(* secondaries that transfer from it, crashes and restarts.                *)
(*                                                                         *)
(* The handler holds the zone's lock from its first check to its reply, so *)
(* there is one handler at a time; it is still cut into steps, because a   *)
(* crash may fall between any two of them and a transfer, which only takes *)
(* the journal's lock, may run between any two of them:                    *)
(*                                                                         *)
(*   idle -> apply (once per update record) -> journal -> swap -> idle     *)
(*                                                                         *)
(* A write to SQLite happens whole or not at all (one transaction).        *)
(***************************************************************************)
EXTENDS IxfrJournal

CONSTANTS
    Seed,             \* the zone as it was created or imported
    WireRequests,     \* UPDATE messages clients may send
    HttpRequests,     \* edits the admin API may ask for
    History,          \* increments a journal retains
    WithJournal,      \* is an ixfr journal attached to the zone?
    JournalMayFail,   \* may a write of the journal row fail?
    MaxCommits        \* bound: generations persisted per behaviour

DefaultTTL == 3600    \* what dns.NewRR gives a record written without a TTL

Rcodes == {"none", "NOERROR", "FORMERR", "SERVFAIL", "NXDOMAIN", "REFUSED",
           "YXDOMAIN", "YXRRSET", "NXRRSET", "NOTAUTH", "NOTZONE"}

WireRequest == [formed : BOOLEAN, ours : BOOLEAN, signed : BOOLEAN,
                prereqs : Seq(UpdateRR), updates : Seq(UpdateRR)]

ASSUME PrimaryAssumption ==
    /\ DefaultTTL \in TTLs
    /\ Seed \subseteq RR /\ IsFiniteSet(Seed)
    /\ WireRequests \subseteq WireRequest
    /\ HttpRequests \subseteq HttpRequest
    /\ History \in Nat \ {0}
    /\ WithJournal \in BOOLEAN /\ JournalMayFail \in BOOLEAN
    /\ MaxCommits \in Nat

VARIABLES
    pc,        \* where the handler is; "down" and "skipped": nothing is served
    rcode,     \* the reply to the last request
    mem,       \* d.rrs and d.view, what queries see; stale while not served
    store,     \* the zone's rows in SQLite
    work,      \* the handler's copy of the zone
    todo,      \* update records the handler has not applied yet
    changed,   \* has the copy changed?
    current,   \* the journal's snapshot, what transfers see
    incs,      \* the journal's increments
    jstore,    \* the journal's row in SQLite
    replica,   \* the copy of a secondary that follows RFC 1995; {} before its first transfer
    commits    \* generations persisted so far

handler == <<work, todo, changed>>
journal == <<current, incs, jstore>>
vars    == <<pc, rcode, mem, store, handler, journal, replica, commits>>

Init ==
    /\ pc = "idle" /\ rcode = "none"
    /\ mem = Seed /\ store = Seed
    /\ work = {} /\ todo = << >> /\ changed = FALSE
    /\ current = Seed /\ incs = << >> /\ jstore = << >>
    /\ replica = {}
    /\ commits = 0

-----------------------------------------------------------------------------
(* The handler.                                                            *)

Reply(rc) ==
    /\ pc' = "idle"
    /\ rcode' = rc
    /\ work' = {} /\ todo' = << >> /\ changed' = FALSE

(* A slip: the copy taken from the store, where a failed commit left it.   *)
BeginFromStore(updates) ==
    /\ pc' = "apply"
    /\ work' = store /\ todo' = updates /\ changed' = FALSE
    /\ UNCHANGED rcode

Begin(updates) ==
    /\ pc' = "apply"
    /\ work' = mem /\ todo' = updates /\ changed' = FALSE
    /\ UNCHANGED rcode

(* Zone section, zone name, TSIG, prerequisites, prescan, in this order.   *)
Admission(r) ==
    CASE ~r.formed                         -> "FORMERR"
      [] r.formed /\ ~r.ours               -> "NOTAUTH"
      [] r.formed /\ r.ours /\ ~r.signed   -> "REFUSED"
      [] OTHER -> LET rc == checkPrereqs(mem, r.prereqs)
                  IN  IF rc # "NOERROR" THEN rc ELSE prescan(r.updates, TRUE)

(* serveUpdate, up to the commit.                                          *)
ServeUpdate(r) ==
    /\ pc = "idle" /\ commits < MaxCommits
    /\ \/ /\ Admission(r) # "NOERROR"
          /\ Reply(Admission(r))
       \/ /\ Admission(r) = "NOERROR"
          /\ Begin(r.updates)
    /\ UNCHANGED <<mem, store, journal, replica, commits>>

(* Apply, the admin API's way in: no TSIG, no type policy.  A request that *)
(* is refused before the prescan has no rcode; it is shown as REFUSED.     *)
HttpApply(q) ==
    /\ pc = "idle" /\ commits < MaxCommits
    /\ \/ /\ httpRefused(mem, q)
          /\ Reply("REFUSED")
       \/ /\ ~httpRefused(mem, q)
          /\ \E updates \in httpUpdates(mem, q) :
               LET rc == prescan(updates, FALSE)
               IN  \/ rc # "NOERROR" /\ Reply(rc)
                   \/ rc = "NOERROR" /\ Begin(updates)
    /\ UNCHANGED <<mem, store, journal, replica, commits>>

(* One round of the loop in apply.                                         *)
ApplyNext ==
    /\ pc = "apply" /\ todo # << >>
    /\ work' = ApplyRR(work, Head(todo))
    /\ changed' = (changed \/ work' # work)
    /\ todo' = Tail(todo)
    /\ UNCHANGED <<pc, rcode, mem, store, journal, replica, commits>>

(* commitLocked: an update that changed nothing is a success.              *)
NothingChanged ==
    /\ pc = "apply" /\ todo = << >> /\ ~changed
    /\ Reply("NOERROR")
    /\ UNCHANGED <<mem, store, journal, replica, commits>>

(* A slip: the write left to the background, the handler going on.         *)
PersistInBackground ==
    /\ pc = "apply" /\ todo = << >> /\ changed
    /\ commits' = commits + 1
    /\ pc' = IF WithJournal THEN "journal" ELSE "swap"
    /\ work' = bumpSerial(work)
    /\ UNCHANGED <<rcode, todo, changed, mem, store, journal, replica>>

(* bumpSerial and persistUpdated.  With no SOA left, the log line after a   *)
(* successful write dereferences nil; the server recovers the panic and    *)
(* answers SERVFAIL.                                                       *)
Persist ==
    /\ pc = "apply" /\ todo = << >> /\ changed
    /\ store' = bumpSerial(work)
    /\ commits' = commits + 1
    /\ \/ /\ hasSOA(work)
          /\ pc' = IF WithJournal THEN "journal" ELSE "swap"
          /\ work' = bumpSerial(work)
          /\ UNCHANGED <<rcode, todo, changed>>
       \/ /\ ~hasSOA(work)
          /\ Reply("SERVFAIL")
    /\ UNCHANGED <<mem, journal, replica>>

(* A failed write changes nothing.                                         *)
PersistFails ==
    /\ pc = "apply" /\ todo = << >> /\ changed
    /\ Reply("SERVFAIL")
    /\ UNCHANGED <<mem, store, journal, replica, commits>>

(* ixfr.Commit: the increment from what is served to the new generation.   *)
CommitJournal ==
    LET next == Extend(incs, NewIncrement(mem, work), History)
    IN  /\ pc = "journal"
        /\ pc' = "swap"
        /\ jstore' = next /\ incs' = next /\ current' = work
        /\ UNCHANGED <<rcode, mem, store, handler, replica, commits>>

CommitJournalFails ==
    /\ pc = "journal" /\ JournalMayFail
    /\ Reply("SERVFAIL")
    /\ UNCHANGED <<mem, store, journal, replica, commits>>

(* build: file.Zone refuses a zone with NSEC3 parameters.                  *)
Builds(z) == \A rr \in z : rr.type # "NSEC3PARAM"

(* swap, and the reply.                                                    *)
Swap ==
    /\ pc = "swap"
    /\ \/ Builds(work) /\ mem' = work /\ Reply("NOERROR")
       \/ ~Builds(work) /\ UNCHANGED mem /\ Reply("SERVFAIL")
    /\ UNCHANGED <<store, journal, replica, commits>>

-----------------------------------------------------------------------------
(* Transfers.  A secondary gives the serial it has (0: none) and ends up   *)
(* with what RFC 1995 makes of the answer.  Without a journal the file     *)
(* view answers, under the zone's lock.                                    *)

Transferred(a) ==
    CASE a.kind = "axfr"     -> current
      [] a.kind = "uptodate" -> replica
      [] a.kind = "ixfr"     -> Replay(replica, a.incs) \cup SOAs(current)

Transfer ==
    /\ pc \notin {"down", "skipped"}
    /\ \/ WithJournal /\ replica' = Transferred(answer(incs, current, serialOf(replica)))
       \/ ~WithJournal /\ pc = "idle" /\ replica' = mem
    /\ UNCHANGED <<pc, rcode, mem, store, handler, journal, commits>>

-----------------------------------------------------------------------------
(* Crash and restart.                                                      *)

Crash ==
    /\ pc # "down"
    /\ pc' = "down" /\ rcode' = "none"
    /\ work' = {} /\ todo' = << >> /\ changed' = FALSE
    /\ UNCHANGED <<mem, store, journal, replica, commits>>

(* Reading the rows back: one record whose type has no mnemonic fails the  *)
(* whole zone, and a TTL of 0 is left out of the line that is parsed.      *)
Readable(z) == \A rr \in z : rr.type # "TYPE65280"
ReadBack(z) == {IF rr.ttl = 0 THEN [rr EXCEPT !.ttl = DefaultTTL] ELSE rr : rr \in z}

(* A zone that does not load is logged and skipped.                        *)
Restorable(z) == Readable(z) /\ hasSOA(z) /\ Builds(z)

(* loadPersistedZones, NewFromRecords, AttachIXFR.  A journal row that     *)
(* cannot be read only costs the history.                                  *)
Restart ==
    /\ pc = "down"
    /\ \/ /\ ~Restorable(store)
          /\ pc' = "skipped"
          /\ UNCHANGED <<mem, journal>>
       \/ /\ Restorable(store)
          /\ pc' = "idle"
          /\ mem' = ReadBack(store) /\ current' = ReadBack(store)
          /\ incs' \in {reconcile(jstore, serialOf(store)), << >>}
          /\ UNCHANGED jstore
    /\ UNCHANGED <<rcode, store, handler, replica, commits>>

-----------------------------------------------------------------------------
Next ==
    \/ \E r \in WireRequests : ServeUpdate(r)
    \/ \E q \in HttpRequests : HttpApply(q)
    \/ ApplyNext
    \/ NothingChanged
    \/ Persist
    \/ PersistFails
    \/ CommitJournal
    \/ CommitJournalFails
    \/ Swap
    \/ Transfer
    \/ Crash
    \/ Restart

Spec == Init /\ [][Next]_vars

-----------------------------------------------------------------------------
(* Properties.                                                             *)

Serving == pc \notin {"down", "skipped"}

(* Every variable stays in its type; serials wrap where a uint32 does.     *)
TypeOK ==
    /\ pc \in {"down", "skipped", "idle", "apply", "journal", "swap"}
    /\ rcode \in Rcodes
    /\ \A z \in {mem, store, work, current, replica} : z \subseteq RR
    /\ todo \in Seq(UpdateRR)
    /\ changed \in BOOLEAN
    /\ incs \in Seq(Increment) /\ jstore \in Seq(Increment)
    /\ commits \in 0 .. MaxCommits

(* Every copy of the zone a client, a secondary or a restart can come      *)
(* across, and the one being worked on.                                    *)
Copies == {mem, store, current} \cup (IF pc \in {"apply", "journal", "swap"} THEN {work} ELSE {})

(* The zone keeps exactly one SOA, at its apex, and at least one apex NS,  *)
(* whatever mix of adds and deletes arrives (apply: "a zone without them   *)
(* is not a zone").                                                        *)
ApexSurvives == \A z \in Copies : KeepsApex(z)

(* No name ever holds a CNAME beside another type, in whichever order the  *)
(* records were added (CNAME exclusivity of apply, both ways).             *)
CNAMEExclusive == \A z \in Copies : CNAMEAlone(z)

(* A record is in a zone once: adding it again only moves its TTL          *)
(* (indexOfRR).                                                            *)
RecordsUnique == \A z \in Copies : NoTwins(z)

(* While the zone is served, its journal chains, ends at the generation    *)
(* transfers are served from and keeps to its history, across failed       *)
(* writes, crashes and reloads (commit, reconcile).                        *)
JournalFits ==
    Serving => /\ chained(incs)
               /\ incs # << >> => incs[Len(incs)].newSerial = serialOf(current)
               /\ Len(incs) <= History

(* A secondary whose serial says it is current holds what the primary      *)
(* would send it whole: increments never leave it with other contents.     *)
ReplicaExact ==
    Serving /\ replica # {} /\ serialOf(replica) = serialOf(current) => replica = current

(* No secondary ever holds a generation a crash of the primary would undo: *)
(* what transfers can see is in SQLite already (persist, then journal).    *)
ReplicaNeverAhead ==
    replica # {} =>
        /\ ~serialNewer(serialOf(replica), serialOf(store))
        /\ serialOf(replica) = serialOf(store) => replica = ReadBack(store)

(* The serial queries see moves forward with every change of contents,     *)
(* across crashes and restarts too ("a stale updater cannot wind the zone  *)
(* backwards").                                                            *)
SerialMovesForward ==
    [][mem' # mem => serialGreater(serialOf(mem'), serialOf(mem))]_vars

(* After a NOERROR, a restart would serve exactly what is served now       *)
(* ("NOERROR therefore means the new zone is in SQLite").                  *)
AcknowledgedIsDurable ==
    pc = "idle" /\ rcode = "NOERROR" => Restorable(store) /\ ReadBack(store) = mem

(* However many writes fail, of the zone's rows or of the journal's, and  *)
(* whatever is tried again: the journal is level with memory between       *)
(* requests, and the store is level with it or exactly one generation      *)
(* ahead, the one a restart would bring back (commitLocked goes back to    *)
(* memory, never to the store, when it starts again).                      *)
StoreOneAhead ==
    pc = "idle" =>
        /\ WithJournal => current = mem
        /\ store = mem \/ serialOf(store) = NextSerial(serialOf(mem))

(* Applying a whole update section, record by record.                      *)
Apply(z, updates) ==
    LET after[i \in 0 .. Len(updates)] ==
          IF i = 0 THEN z ELSE ApplyRR(after[i-1], updates[i])
    IN  after[Len(updates)]

(* An HTTP replacement of the apex NS set leaves exactly the new set, in   *)
(* whatever order the rewritten records are applied and although the last  *)
(* NS cannot be deleted (httpUpdatesLocked).                               *)
HttpReplacesNS ==
    \A q \in HttpRequests :
        Serving /\ q.wipeNS /\ ~httpRefused(mem, q) =>
            \A updates \in httpUpdates(mem, q) :
                {ns.data : ns \in rrsetOf(Apply(mem, updates), Apex, "NS")}
                    = {q.nss[i].data : i \in DOMAIN q.nss}

=============================================================================
