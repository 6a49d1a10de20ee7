# Verification of coredns-ez

TLA+ models of the parts of coredns-ez that keep state: how a primary zone is updated
and made durable, how its changes reach secondaries, how a secondary stores what it
received, how zones and their ACL views are created and loaded, how a cluster copies its
configuration, what the cache may answer and to whom, and how block lists are kept up to
date. TLC checks the models on small instances; TLAPS proves some of the results for all
instances.

    tlc -workers 2 -config UpdatePersist_edits.cfg MCUpdatePersist     # one run
    tlapm UpdatePersistProofs.tla                                      # one proof module

`PROJECT.json` lists the runs, the source lines every definition stands for, the
hazards the properties are aimed at, the mutants that show each property can fail,
and the theorems.

## The system

coredns-ez is a CoreDNS build with five plugins and an admin server in one process,
over one SQLite database.

| Component | State | Operations | Interacts with |
|---|---|---|---|
| *dns-update-persistent* (primary zone) | `d.rrs`, `d.view` under `d.mu` | RFC 2136 UPDATE, `Apply` (HTTP edits), queries | writes SQLite, then the journal, then swaps the view; sends NOTIFY |
| *ixfr* (journal) | increments and the current snapshot under `x.mu`; one row in SQLite | `Commit`, `Register` (load, reconcile), `Transfer` | called by the primary with its lock held; read by transfers with its own lock only |
| *secondary-persistent* (inbound transfer) | a `file.Zone` per origin | update loop, `ForceTransfer`, IXFR parsing and installation | SOA query and transfer over TCP to the primary |
| *secondary-persistent* (write queue) | `writing`, `pending`, `hasWritten`, `lastSerial` | `enqueuePersist`, `runPersist`, `finishPersist`, `closePersist` | one goroutine per write to SQLite |
| *secondary-persistent* (catalog zones) | members, their IDs and owners | `applyCatalog`: add, reset, migrate, remove members | starts and stops member zones, removes their rows |
| admin: zone manager | `a.primaries`, registry `zonereg`, table `zones` | create, delete, load at start | builds primaries from rows, starts secondaries |
| admin: views and ACLs | a zone per ACL (`a.views`, `zone_views`), the ACLs | record edits with an ACL, create, rename, delete an ACL; pick the zone that answers a client | primaries without a journal; bump the cluster generation and the cache epoch |
| admin: Corefile import | the Corefile's server blocks | import zone files, views and ACLs, strip the blocks | runs at start, before the zones are loaded |
| admin: cluster | generation, members, join tokens, role | join, snapshot, pull, apply | HTTP between servers; rewrites SQLite and zones |
| *split-horizon-cache*, cachegen | a positive and a negative cache keyed by scope and epoch; the epoch | lookup, store, prefetch, serve stale, `Bump` | in front of every zone; bumped by swaps, transfers and ACL changes, not by deletions |
| admin: filter | `filter_rules`, `filter_feeds`, the engine, `filterSyncing` | rules and feeds by HTTP, the sync loop, publishing | downloads lists; consulted by every query |
| admin: DNSSEC, users, OIDC, TSIG, statistics, backup, self-update, UI; webhook | tables of their own | CRUD, lookups, I/O | the HTTP API |

What is hard here:

* **Several copies of one zone.** Memory, SQLite, the journal's snapshot, the journal's
  row and every secondary hold a generation each, and they advance one after the other.
  A crash or a failing write may fall between any two of these steps.
* **Locks that do not nest.** The handler holds the zone's lock; a transfer only takes
  the journal's; a secondary's writer takes `persistMu` five times per write.
* **Requests that are several statements.** Creating, renaming or deleting a zone or an
  ACL, joining a cluster and applying a snapshot are sequences of writes without a
  transaction around them, next to maps in memory that change at other moments.
* **A number that stands for contents.** Serials, the cluster generation, the cache epoch
  and ETags are compared instead of contents, and are written and read apart from them.
* **Serials.** They wrap, and three packages compare them with three expressions.
* **Streams.** What the primary's journal writes, the secondary's parser has to read.
* **Goroutines that outlive their reason.** A stopped generation may finish its transfer,
  a queued write may outlive the rows it belongs to, a background refresh the client it
  was started for, a join the node that asked for it.

What makes the parts correct: a zone stays a zone whatever updates arrive; a reply
means what the documentation says it means; the journal never describes a history
that did not happen; a secondary with the primary's serial has the primary's zone;
it gets there eventually; a client is answered from what was acknowledged and is in its
scope, and from nothing else; a cluster member's copy only gains the primary's changes and
reaches its generation; a list that is blocked is the list the URL serves.

## Modules

| Module | Models | EXTENDS |
|---|---|---|
| `SerialArithmetic` | `bumpSerial`'s increment, `serialGreater`, `serialNewer`, `less` over serials modulo `2 * Half` | |
| `ZoneUpdate` | prerequisites, prescan, application of one update record, serial bump, rewriting of HTTP edits | `SerialArithmetic` |
| `IxfrJournal` | diff, commit with retention, reconciliation, answers | `ZoneUpdate` |
| `UpdatePersist` | the primary zone as a state machine | `IxfrJournal` |
| `IxfrStream` | transfers as record streams: written by the journal, parsed by the secondary | `IxfrJournal` |
| `ZoneTransfer` | a primary and a secondary-persistent zone over a network | `UpdatePersist`, `IxfrStream` |
| `PersistQueue` | the write queue of one secondary zone, with catalog resets and restarts | `SerialArithmetic` |
| `ZoneManager` | one origin and its views: import, start, HTTP requests, crashes; which zone answers | |
| `ConfigReplica` | abstract: a copy that only gains what its source has | |
| `ClusterSync` | joining, pulling and applying, the generation, faults | |
| `ClusterReplica` | a cluster seen from one node that joins another; the refinement of `ConfigReplica` | `ClusterSync` |
| `CacheAnswers` | classification of a response: CNAME chains, NODATA, what may be cached | |
| `SplitHorizonCache` | lookups, stores and refreshes by several goroutines, the epoch | |
| `CacheComposed` | the cache with the messages it classifies | `SplitHorizonCache`, `CacheAnswers` |
| `FilterEngine` | parsing of lists, rules, what is blocked | |
| `FilterSync` | feeds, rules, the sync loop and the engine's copy | `FilterEngine` |
| `ZoneLemmas` | lemmas about the operators of the first three modules | `IxfrJournal` |
| `UpdatePersistProofs` | theorems about `UpdatePersist` | `UpdatePersist`, `ZoneLemmas` |
| `ZoneTransferProofs` | the secondary's safety properties | `ZoneTransfer`, `UpdatePersistProofs` |
| `PersistQueueProofs`, `ZoneManagerProofs`, `FilterSyncProofs` | theorems about the module of that name | that module |
| `SplitHorizonCacheProofs` | theorems about the cache and its classification | `CacheComposed` |
| `ClusterSyncProofs` | theorems about `ClusterSync`, and the refinement | `ClusterReplica` |
| `MC*` | instances for TLC | |

`ZoneTransfer` composes primary, journal, network and secondary. `FilterSync` composes
the store, the loop and the engine. The admin server's other parts meet in two numbers:
`ZoneManager`'s requests end with the generation bump that `ClusterSync` takes as a
separate step (`Write`, `Bump`) and with the cache bump that `SplitHorizonCache` takes as
one (`Mutate`, `Bump`); where the code ends a request without one, there is
`MutateSilently`.

### How the models correspond to the code

**Data.** A zone is a set of records; a record is owner, type, rdata and TTL. Rdata is a
model value, except for a SOA, whose rdata is its serial (the other SOA fields never
decide anything). The order of the code's slice is dropped: only `soaOf` depends on it,
and only if a zone held two SOAs, which `RecordsUnique` and the lemma `ApplyOneSOA`
exclude. Owners are canonical names. Types are the ones the code treats differently;
`"A"` stands for all the others.

**`UpdatePersist`.** `mem` is `d.rrs`/`d.view`, `store` the zone's rows, `work` the copy
`apply` works on, `current`/`incs` the journal in memory and `jstore` its row. One
handler runs at a time because `serveUpdate` and `Apply` hold `d.mu` to the end; its
steps are separate actions:

| Action | Code |
|---|---|
| `ServeUpdate`, `HttpApply` | `serveUpdate` and `Apply` up to `commitLocked` |
| `ApplyNext` | one round of the loop of `apply` |
| `NothingChanged` | the early return of `commitLocked` |
| `Persist`, `PersistFails` | `bumpSerial`, `persistUpdated` (one transaction) |
| `CommitJournal`, `CommitJournalFails` | `ixfr.Commit` |
| `Swap` | `swap` and the reply; `build` may refuse the zone |
| `Transfer` | `IXFR.Transfer`, or the file view's when there is no journal |
| `Crash`, `Restart` | process death; `loadPersistedZones`, `NewFromRecords`, `AttachIXFR` |

`replica` is a secondary that follows RFC 1995 to the letter. It is not code of this
repository; it is the observer that tells whether the journal's answers are right.

**`ZoneTransfer`** replaces that observer by the secondary of this repository: `zone` is
its `file.Zone`, and every transfer is three steps (request with the serial of that
moment, answer, installation) that interleave with the primary's and with each other.
Besides the update loop's, a transfer is run by every NOTIFY, in the goroutine of its query
(`TransferInFunc`, `secondary-persistent/setup.go:146`), and by every request that forces
one; `ForceTransfer` stands for both. `clean` is history: only whole zones, and single
increments on the serial they were asked for, have been installed.

**`PersistQueue`.** `zoneOf[o]` is the `file.Zone` of the o-th member that owned the name,
`live` the one that is served; `writing`, `pending`, `written` are the maps of the same
names for this origin (`written` is `hasWritten` and `lastSerial`); a writer's steps are
the critical sections of `runPersist` and `finishPersist`. `stop` is "closing" once
`persistStop` is closed and "closed" once `closePersist` has waited for the writers. `load`
is the same for the two callers of `loadIfPresent` (`startCatalogMembers`,
`ReloadFromStore`): read the rows, install them, mark them as written.

**`ZoneManager`.** `rows`, `zone`, `zviews`, `acls` are the tables; `obj` the zones in
memory with the view they persist to; `reg`, `primary`, `views` the registry entry and
the two maps. Every statement and every critical section is a step.

| Actions | Code |
|---|---|
| `RegisterCorefile`, `ImportRecords` ... `StripCorefile` | the plugins' setup; `importCorefileZones`, one block at a time; `importCorefileACLs`; `stripZonefileBlocks` |
| `EnsureOrigin`, `EnsureApex`, `LoadZones`, `loadViews` | the rest of the start-up |
| `CreateRows` ... `UpsertZone` | `createPrimary` |
| `DeletePrimary`, `Unregister`, `dropViews`, `DeleteZone` | `handleDeleteZone` |
| `recordZone`, `SeedView`, `UpsertZoneView`, `putView`, `Apply` | an edit, and the view that is made for it; a move is two of them |
| `CreateACL`, `RenameACL`, `DeleteACL` | the ACL handlers |
| `pickServe`, `Answer` | `serveWithNext`, `pickServe` and what follows |

`want` is history: what the acknowledged requests and the imported files add up to,
unknown for a view whose request was cut short by a crash or refused half way. The first
half of a move moves `want` too, and if the second half is refused or never comes, the view
that has lost the record is unknown from then on.

**`ClusterSync`.** Every node runs the same program, so every variable is a function of
the node. Changes are numbered and a table is the set of changes it holds; `users` stands
for the tables that are read before the generation, `views` for those read after it. A
conversation is one join or one pull, first on the answering node (`JoinConsume`,
`EnsureSelfMember`, `InsertMember`, `JoinBump`, `MemberAuth`, `ReadTables`,
`ReadGeneration`, `AttachViews`), then back (`AcceptJoin`, `Compare`, `ApplySnapshot` or `ApplyFails`,
`ApplyViews`); the first part goes on when the asking node is gone (`Lose`, `Crash`).
In `ClusterReplica`, `Replica` instantiates `ConfigReplica` with the primary's changes in
the primary's tables as the source and the same changes in the member's tables as the
replica.

**`SplitHorizonCache`.** One question is asked by clients of several scopes. `items` are
the items ever made, `pcache` and `ncache` map a key (scope and epoch) to one of them,
`refreshing` are the set flags. `Arrive` takes the scope (`handler.go:39`); `Hit`,
`HitStale` and `Miss` are the lookup, under the epoch of that later moment, and what follows
up to the backend; `Backend` is the next plugin (external). `Peek`, `Store` and `Drop` are
the steps of `set`: the look at the item that is there, `pcache.Add` or `ncache.Add`, and
`ncache.Remove`. `Return` is `endRefresh`, which each of the three ways to refresh calls
once, after everything else. `Mutate` is a change that `cachegen.Bump` follows (a swap, a
transfer, an ACL saved, renamed or deleted), `MutateSilently` one that it does not
(`deleteZone`, `dropViews`, the 404 of `handleDeleteACL`, and `loadViews`, `ensureView` and
`createPrimary`, where it comes before the zone can be asked). `keySrc` is the matcher that
`admin` registers: a query whose address does not parse never reaches the cache, and the
fallback to networks is there without a matcher only, in tests.

**`FilterSync`.** One URL serves one version of a list after the other. A feed's row is
read whole at the start of a sync and written whole at its end, as in `syncFilterFeed`;
requests do the same. `LoadRules` and `Publish` are the two halves of `publishFilter`;
`LoadFails` is its error path, which leaves the engine as it was.

## Runs

In the runs about zones Half is 8, so serials are modulo 16 and every seed is two steps
before the wrap.

| Run | Shows | States |
|---|---|---|
| `update_edits` | `CNAMEExclusive`, `JournalFits`, `ReplicaExact`, `ReplicaNeverAhead`, `StoreOneAhead`, `SerialMovesForward`, with failing journal writes and crashes | 55k |
| `update_apex` | `ApexSurvives`, `HttpReplacesNS`, `AcknowledgedIsDurable` | 220k |
| `update_odd` | `RecordsUnique` when every later stage may fail; no journal | 8k |
| `transfer_overlap` | `TransfersExact`, `SecondaryNeverAhead`, `Converges`, with two transfers at once and two increments in the journal | 352k |
| `persist_queue` | `PendingHasWriter`, `ClosedIsQuiet` | 3.4M |
| `zone_zones` | `AnswersAsAcked`, `ViewHasZone`, `EditsPersist` from six starting points | 1.9M |
| `cluster_sync` | `TokenOnce`, `ViewsPromise`, `CatchesUp`, `ReplicaSpec` (the refinement) | 709k |
| `cache_serve` | `ScopeKept`, `NothingOutlives`, `OneRefresh`, `FlagHeld`, `GoodAnswerKept`; `ChainFollowed`, `KindsHonest` over all answers of three names | 4.6M |
| `filter_feeds` | `OneSyncPerFeed`, `EtagBehind`, `AllowWins`, `FeedCatchesUp` | 675k |
| `transfer_deltas` | a counterexample to `SecondaryExact` | |
| `cache_epoch` | a counterexample to `EpochOutdates` | |
| `zone_import` | a counterexample to `AnswersAsAcked` | |

Every module's type invariant is checked by one of these runs too.

**Bounds.** `MaxCommits` 3 or 4 with `History` 2 is one generation more than the journal
keeps, so it is cut, reloaded and reconciled, and the serial wraps on the way. Two names
(the apex and one below), two name servers and one datum give every request another one
that undoes it. In `PersistQueue` two writers are the smallest number that can race; the
bound is the size of `Writers`, and a third writer would wait for a slot in the model.
Two owners are one hand-over, and two serials are an old and a new one for either. TLC
merges states that differ only in the contents of a zone that no transfer is about to take a
snapshot of (`Relevant`): nothing reads them before they are installed anew. In
`transfer_overlap` three commits and a `History` of 2 give the second transfer an old
increment to bring, and answers of one and of two increments.
`zone_zones` has four requests and one crash, enough to create, edit, rename and delete
with a crash anywhere; two requests run at once where the start allows it. `cluster_sync`
has two nodes, one token and three changes, sign-ins, crashes or lost answers in any
mixture: a crash on each side of a change, or a change on each side of a crash.
`cache_serve` has two clients that swap scopes once, three queries on two goroutines and
two of ticks, evictions and changes of either sort, under two configurations that between them reach all
three ways to refresh; each of them leaves one kind of answer to the other one (denials,
empty answers). `filter_feeds` has two versions, two feeds, two requests beside the
loop and one fault.

**Fairness.** *ZoneTransfer:* the handler runs to its reply and a dead primary is
restarted (weak fairness: nothing in the code waits for anything else, and the process
manager restarts it). The update loop retries for ever, so a network that works again and
again lets a transfer through (strong fairness of `Refresh` and of each worker's fetch). An
answer that has arrived is installed, stated as `[]<>` of the worker not holding one, which
is weak fairness of `Install` because only `Install` leaves those two places. `Converges`
also assumes that the primary crashes finitely often and that from some point on the zone
stays `clean`.
*ClusterSync:* handlers end, the pull loop's ticker fires, a node that went down is
started again; weak fairness of `Bump`, `Pull`, `Restart` and of the steps of each side of
a conversation. Faults are finite by their bound. *FilterSync:* goroutines run on, and the
ticker and the clock do not stop (weak fairness of every goroutine's step, `Tick`,
`TimePasses`). Nothing else assumes fairness.

**Deadlock** is checked in the runs of `UpdatePersist`, `ZoneTransfer` and `PersistQueue`:
there a server can always crash and restart. The other models stop when the bounded
requests and faults are used up and every goroutine has come to its end, which is the
bound's doing and no deadlock; `CatchesUp` and `FeedCatchesUp` would fail if a goroutine
stopped on its way.

## What the counterexamples say

* `transfer_deltas`: every inner SOA that does not carry the envelope's serial opens a
  delete section, so the adds of all increments but the last are taken for deletes.
* `cache_epoch`: a zone is deleted, a view dropped or a zone registered, and no Bump comes
  after it; or a Bump overtakes a call, which then files the old answer under the new epoch.
  In both cases the cache goes on giving the old answer until its TTL is over.
* `zone_import`: importing a view seeds the rows of the public zone with an apex. If the
  public block comes later in the Corefile, its file is taken for imported already, is not
  read, and the block is stripped.

## Known exceptions

What the models showed on the way and the properties leave out; each one is excluded by a
hypothesis of a theorem, by a history variable or by the choice of a run's inputs.

*Primary zone.*
A failing journal write answers SERVFAIL after the zone was committed to SQLite, so a
restart serves what was refused, where `dns-update-persistent/README.md:23` says that a
write failure "leaves both memory and the store on the previous generation"; the next
update starts from the old one. `StoreOneAhead` is what is left of the promise: however many
such failures follow each other, the store is one generation ahead at most. A record whose type has no mnemonic is stored with
an empty type, which the loader refuses; the zone is skipped at the next start. An added
SOA replaces the zone's SOA whatever its owner is. A TTL of 0 comes back as 3600
(`ReadBack`). An NSEC3PARAM record is persisted before the view refuses it (`Builds`). A
SOA that is 2^31 - 1 ahead is accepted and then bumped to a serial that is no longer ahead.

*Secondary zone.*
Of two transfers the older one may install last, because neither installation looks at the
serial that is served by then (`Install`). It can do worse: while a forced transfer's old
increment waits, the update loop brings the zone to a newer serial and asks for the next
increment; then the old one is installed and winds the zone back, and the next one is
applied to what it was not made for, since `installIXFR` compares the increment's old
serial with nothing. The zone then has the primary's serial and not its contents: with
`SecondaryExact` among its invariants, `transfer_overlap` fails even with a history of one
increment. This, and an answer of several increments (`transfer_deltas`), ends `clean`;
`TransfersExact` is about all other ways in which transfers overlap. `writing` is cleared before the queue is looked
at (`persist.go:198`), so the pending snapshot and a newer one get a writer each and the
older one may be saved last. Rows written by the previous owner's last transfer appear
after they were removed and are loaded for the new member (`catalog.go:118`).

*Zones and views.*
A Corefile that cannot be written is imported again at every start, so a deleted zone comes
back; the block of a file that cannot be read is stripped all the same. Of two requests
that create the same origin the second may write its rows over an edit made in between.
The views of an ACL whose renaming was cut short by a crash persist under the old name.
Moving a record to another ACL is two commits (`records.go:205-217`): when the second one is
refused, the client is answered 400 and the record is in neither zone, and so it is after a
crash in between.

*Cluster.*
The users, tokens, ACLs and records of a snapshot are read before the generation, so a
member can carry a generation without the change it was bumped for, until the next bump
(`admin/README.md:27`: "the same credentials work on both nodes"). Views are only ever added on a
member. Imports without ACLs do not bump the generation. Two primaries can join each other
at the same time, since neither looks again after the request. A node that dies between
`acceptJoin` and applying compares pulls with its own old generation, and one on which
somebody signed in for the first time (`oidc.go:191`) with a generation it bumped itself;
one that dies between the transaction of a snapshot and its views, or whose snapshot is
followed by such a bump, takes itself for up to date. In all three cases `pullSnapshot`
(`cluster.go:649`) passes over the primary's change until the primary's number has grown
past the node's, against "Secondaries replicate password/token hashes"
(`admin/README.md:27`). `CatchesUp` claims only the number of such a node, and
`ViewsPromise` nothing of it.
`handleClusterSnapshotApply` has no caller and compares no generation.

*Cache.*
A call under way while `Bump` is called files an answer from before the change under the
epoch after it (`cachegen.go:8`), and under a scope its client may no longer have; it stays
until its TTL is over. Changes without a Bump leave the answers from before them in place
until the next Bump (`cache_epoch` has both). A store that looked before a good answer came and writes after it
replaces the good one: `set` holds no lock over the two (`cache.go:525-529`). A panic in the
backend would leave a flag set; it is not modelled.

*Filters.*
A download that breaks off is parsed as a shorter list and keeps its ETag
(`filterparse.go:74`), so the list stays short until it changes. The limits of 32 MB for a
body and 1 MB for a line cut a list in the same way at every download; the model has the
cut as a fault, at the end of a line. A manual rule may be taken out of the engine by a
publisher with older rules, and stays out until the next publication. A sync that ends after its
feed was deleted leaves rules without a feed.

*DNSSEC.* Enabling checks for keys and inserts them later (`dnssec.go:417`); two requests
can insert two pairs. This part is not modelled.

## Proofs

`tlapm` checks every theorem for all values of the constants that meet the named
assumptions: `HalfAssumption` (serials are modulo an even number greater than 2),
`ZoneAssumption` (the apex is a name of the zone, rdata and serials differ),
`PrimaryAssumption`, `QueueAssumption`, `ManagerAssumption`, `CacheAssumption`,
`QuestionAssumption`, `FilterAssumption` and `ClusterAssumption` (the constants have their types; ACLs, workers,
names asked for and so on are finite; a dynamic block names a file that was read; names are sequences of labels),
and `JoinAssumption` (a node, the
primary, that joins nobody, and another one, installed as a standalone primary, that joins
only it; the rest of the cluster is free). Zones, requests, histories and the number of
commits are arbitrary, and so are the numbers of transfers, writers and owners,
of ACLs, Corefile blocks, clients, scopes, settings, goroutines, feeds, nodes, tokens and
faults.

| Module | Theorem | States | Beyond the assumptions |
|---|---|---|---|
| `UpdatePersistProofs` | `TypeCorrect` | `TypeOK` | |
| | `RecordsStayUnique` | `RecordsUnique` | the seed has one SOA and no record twice |
| | `ApexStays` | `ApexSurvives` | the seed has its SOA at the apex; SOAs are added there only |
| | `CNAMEStaysAlone` | `CNAMEExclusive` | the same, and no CNAME beside another type in the seed |
| | `NoerrorMeansDurable` | `AcknowledgedIsDurable` | as `ApexStays`; plain records; journal writes succeed |
| | `JournalStaysFit` | `JournalFits` | the seed has one SOA; no NSEC3PARAM is added |
| | `SerialOnlyMovesForward` | `SerialMovesForward` | as `ApexStays`; clients add no SOA and no TTL of 0 |
| | `StoreLeadsByOne` | `StoreOneAhead` | the same; the seed builds; no NSEC3PARAM is added |
| | `SecondariesExact` | `ReplicaExact` | the same; `MaxCommits < Half` |
| | `SecondariesNeverAhead` | `ReplicaNeverAhead` | the same |
| | `ReplacementComplete` | `HttpReplacesNS` | the seed has one SOA, no record twice, an apex NS and no CNAME at the apex |
| `ZoneTransferProofs` | `SecondaryStaysBehind` | `SecondaryNeverAhead` | as `SecondariesExact` |
| | `TransfersStayExact` | `TransfersExact` | the same |
| `PersistQueueProofs` | `QueueTypeCorrect` | `QueueTypeOK` | |
| | `PendingAlwaysHasWriter` | `PendingHasWriter` | |
| | `ClosedStaysQuiet` | `ClosedIsQuiet` | |
| `ZoneManagerProofs` | `TypeCorrect` | `TypeOK` | |
| | `ViewsServed` | `ViewHasZone` | `Orderly`: dynamic blocks are of the public zone; requests one at a time, or edits only and readable files |
| | `EditsKept` | `EditsPersist` | the same |
| | `Acknowledged` | `AnswersAsAcked` | `Faithful`: the same, one block per view, the public one first, read-only only with edits |
| `SplitHorizonCacheProofs` | `TypeCorrect` | `TypeOK` | |
| | `OneRefreshAtATime` | `OneRefresh` | |
| | `FlagIsHeld` | `FlagHeld` | |
| | `ScopesStayApart` | `ScopeKept` | |
| | `BumpOutdates` | `NothingOutlives` | |
| | `AnswerSurvives` | `GoodAnswerKept` | |
| | `AnswerServed` | `GoodAnswerFound`: a lookup returns that answer while it is in time | |
| | `KindsStayHonest` | `KindsHonest` | |
| | `ChainsFollowed` | `ChainFollowed` | the type asked for follows CNAMEs (neither ANY nor CNAME) |
| `FilterSyncProofs` | `TypeCorrect` | `TypeOK` | |
| | `OneSyncAtATime` | `OneSyncPerFeed` | |
| | `EtagNeverAhead` | `EtagBehind` | |
| | `AllowDecides` | `AllowWins` | |
| `ClusterSyncProofs` | `TypeCorrect` | `TypeOK` | |
| | `TokenAdmitsOne` | `TokenOnce` | |
| | `CopyFollows` | `ReplicaSpec` (the refinement) | `JoinAssumption` |
| | `ViewsKept` | `ViewsPromise` | `TwoLevels`: nobody joins a node that may itself be told to join |

The hypotheses in the last column exclude behaviours that the code really has and that
break the property (the exceptions above). `MaxCommits < Half` is a bound on the length of
a history: comparing serials says nothing about generations half a circle apart, and after
a whole circle a serial names two of them. `TwoLevels` is how a cluster is set up: a node that is
told to join gives up its own generation for its new primary's, so the numbers it gave
before no longer say what they said. `Orderly` and `Faithful` are about what the zone
manager starts from: a registration goes by origin, so a dynamic block of a view would
register the view as the public zone; creating, renaming and deleting take no lock that
spans their statements, so two such requests can undo each other half way; a public block behind a view's is not read (`zone_import`); a Corefile that cannot be stripped brings
back what was deleted. Five of the six starting points of `zone_zones` meet both; the sixth,
two creations at once, is model-checked only. A plain
record has a TTL, a type with a mnemonic and a type that `file.Zone` accepts.
`RequestsIn(Good)` says that every request consists of records of `Good`; `TodoStep` shows
that the handler then only works through such records, also when it rewrites an HTTP edit.

**The argument for `UpdatePersist`.** None of the properties is inductive as it stands.

* `TypeInv` adds to `TypeOK` that what is left to apply has passed the prescan (else an
  added record need not be a record of the zone), that zones are finite (name servers are
  counted), and that a handler at work has a commit left.
* `CopiesStep`: after any step, a copy of the zone is an old one, an old one with one
  update record applied, an old one with its serial bumped, or the rows read back. A rule
  about single zones is therefore kept if these three operations keep it; the lemmas of
  `ZoneLemmas` (`ApplyOneSOA`, `ApplyNoTwins`, `ApplyKeepsNS`, ...) show this operator by
  operator. The rules lean on each other: the count that protects the last name server is
  only right without twins, a replaced SOA is only the zone's own if there is one, and
  `CNAMEStaysAlone` needs `ApexInv` because a SOA is added without the CNAME check.
* `DurableInv` says which copies agree at which step: store and memory, except between a
  write and its swap, where the store is on the handler's copy.
* `JournalInv` says that the journal's snapshot has memory's serial whenever a commit may
  start. Without it the next increment need not chain to the last (`ExtendChains`); after
  a reload `ReconcileChains` gives the chain back.
* `SerialInv` says that the store is level with memory or one serial ahead of it, which is
  what a restart makes visible. `LeadInv` adds `JournalInv` and what the journal holds at
  each step of a commit, failed or not, for `StoreLeadsByOne`.
* `ReplicaInv` is about what a serial stands for: there is a function `G` from serials to
  contents under which memory, the journal's snapshot, the secondary's copy and both ends
  of every increment, in memory and in the journal's row, are what `G` says. `G` is not one
  function for the whole history: a write whose journal entry failed leaves a serial in
  the store, and the next write uses it again for other contents. `Reached` marks how far a
  transfer, or the next start, can have come: memory's serial while a write waits for its
  journal entry, the store's once it has it or the server is down. Above it `G` may be changed (`ContentsWritten`); up to it `G` is
  fixed, and it never passes the store. `ReplayReaches` shows that a chain of increments of
  which each is the difference of two contents of `G` leads from the first to the last.
* `ReadyInv` (one SOA, no twins, a name server and no CNAME at the apex of every copy) is
  what a whole replacement of the NS set needs. The update section is of any length and no
  induction is available; `Apply` is a recursive function over the section that unfolds one
  step at a time, and each claim about a part of the section (the adds, then the deletes)
  is shown by looking at the first position where it fails, which exists in any set of
  naturals and then contradicts the step before it.

**The argument for `ZoneTransfer`.** A step of the composition is a step of the primary or
one of the transfers, which leave the primary's variables alone, so the invariants above
carry over. `BehindInv` adds that the zone's serial and the opening SOA of every stream
under way are within `Reached`. Since that only grows, it does not matter how long a stream
takes; since the parser takes the new serial from the opening SOA and from nowhere else, it
does not matter either what it makes of the rest. `ExactInv` adds contents: the zone is what
`G` says for its serial as long as it is `clean`, and a stream under way that can keep it so
is a whole generation of `G`, one increment of `G` from the serial it was asked for, or a
refusal. Other transfers may move the zone in the meantime: if its serial is then another
one, the zone is no longer `clean`, and if it is the same, its contents are the same by `G`. The parser is a fold over the stream; the proof names the row of its
states, shows what each of the four parts of the stream adds to it (`ParsedPart`,
`ParsedIncrement`), and that applying what was read to the zone gives what `G` has for the
new serial (`AppliedOne`, `MergedExact`).

**The argument for `PersistQueue`.** `writing` is cleared in two places, so no writer owns
it. `QueueInv` is that a raised flag or a waiting snapshot has a busy writer; `QuietInv`
that after `closePersist` no writer is past its check of `persistStop`. Loads put rows into
the zone and into `written`, never into the queue.

**The argument for `ZoneManager`.** Three invariants, each on top of the one before.

* `TypeInv` puts every request at a step of its own kind and keeps requests out of the
  start-up. A new zone needs a place that nothing points to: the registry, the public zone,
  and each view and worker point to one zone, so one of the `Objects` is left
  (`FreshFacts`, by counting).
* `PlaceInv` says where a zone is. `Local` has, for every step of every request, what the
  statements behind it have done and those ahead have not; `ImportInv` and `StartInv` the
  same for the start-up. Around them `PublicInv` ties the registry, `a.primaries`, the zone's
  rows and the row in `zones` together, and `ViewsInv` each view's zone with the rows it
  persists to. Either may be apart only while a request is between the two
  (`Swapping`, `Creating`, `Dropping`, `Leaving`). After a crash nothing is in memory, and
  what the tables hold is made good by the next start: `Due` marks rows that a block ahead
  of the import will still bring. Where requests run at once they are edits (`TameInv`),
  which only need that nobody takes the places away.
* `WantInv` says what is in those places. A view is `Unsettled` while a request that changes
  several places for it is between them; if it is cut short there, its contents are
  `Unknown` from then on, which is what the property allows. For every other view the rows
  are what was acknowledged, or are `Due`; a public zone without a file of its own may also
  be due from the apex of a view (`WantPublic`). `LocalWant` says what a removal or renaming
  has left where, so that its last step can settle the view again. `CoreInv` is why an
  import after a crash promises nothing new: the block that is read again is the one that was
  promised, and a Corefile that stays has only blocks whose rows are there.

  From `WantInv` a query is followed through `pickServe`: exact in the view, exact in the
  public zone, wildcard of the view, wildcard of the public zone (`WantQuiet`). A view that
  is not in memory has no hosts, so leaving it out changes no answer.

**The argument for `SplitHorizonCache`.** `FlagInv` puts the flags and the calls that will
clear them together: neither `OneRefresh` nor `FlagHeld` is inductive alone, since the
compare-and-swap of `beginRefresh` is only as good as the flag. `EpochInv` is that the
version of the data is the epoch plus the changes still to be bumped, and that `told` counts
the changes without a Bump made before the last one; that what a call
carries fits the moment it began unless it is marked as straddling a `Bump`; and that every
item that is held, with the item it covers, fits the key it is held under. A `Bump` then
makes no old item reachable, because the key's epoch is new. `KeptInv` is that the last
answering item stored under a key is the one its entry leads to, directly or through the
item it covers. Items are never changed, and a store covers the item its own look found,
which it made without a lock over both: if the answer at hand is another one by then, `best`
is given up, and otherwise the new item adds one step that leads to the same answer.
`ChainFollowed` is about the loop of `canonicalName`, a function of the names visited and
the name at hand that is defined through itself. `Ends` says without a loop what it comes
to: the last of the names `Beyond`, which is the least set closed under CNAMEs, if none
comes back or has two targets. `Ends` solves the loop's equation (`WalkExists`), so the
function exists; and it is the only solution (`WalkEnds`): a place where another one
differs, with the fewest names left to visit, would have a successor with fewer.

**The argument for `FilterSync`.** `SyncInv` is that a goroutine between the marker and its
release is the one the marker stands for. `EtagInv` follows the ETag through the copies of
a row: the table's, every sync's and every request's, none of them ahead of the rules,
which only move forward while the feed lives; a sync that has stored rules not yet in its
row still holds the marker. `FitInv` is about the copies of the rules: each holds a part of
a version that is served (a whole one, or what came before a download broke off). For any
such copy the engine's four maps hold exactly what the lines say, and the walk of
`filterHit` over the parents of a name meets exactly the names the name is under, which are
the suffixes of its labels (`EngineDecides` and the lemmas about suffixes).

**The argument for `ClusterSync`.** `handleClusterJoin` marks the token and inserts the
member in two writes, with a crash or other joins in between. `TokenInv` is that a join
between the two holds a used token that no member and no other such join has.
`CopyInv` is behind the refinement: the primary asks nobody; the member asks only it; a
snapshot under way holds nothing the primary has not, and, as long as somebody waits for
it, no fewer of the primary's users than the member's table. The last part holds because
only one conversation at a time can still reach the tables: a live join keeps the pull
loop away until the secret is saved, and one that outlived a crash has nobody to answer
to. Every step then either lets the primary's tables grow or lets the member take over
something (`TableStep`), which are the two actions of `ConfigReplica`.
`PromiseInv` is behind `ViewsKept`: a node that joins nobody only moves its generation
forward (`Onward`), so a number it gave stands for one set of contents; what a conversation
carries, and what a member has taken over, holds the views promised up to the number it
carries. Views are read after the generation and are only ever added, so a late snapshot
takes nothing back. The members of one primary are independent of each other, which is why
the theorem, unlike the refinement, is about all of them at once.

**Model-checked only.** `Converges`, `CatchesUp` and `FeedCatchesUp` are liveness under
fairness, out of the prover's reach. Every invariant and action property of
a passing run has a theorem.

## Not modelled

Which part is left out, and why, is in `PROJECT.json` under `components`. Within the
modelled parts: several masters
(the code takes the first that answers), expiry of a secondary zone, the text form of
the saved journal, secondaries and catalogs as kinds of zones of the zone manager, the
zones a cluster member starts from a snapshot, the addresses of the roster, the order of
ACLs and the matching of prefixes, the notations of a block list's lines, the hash of a
cache key (taken as exact), metrics and logging.

Some reads that the code makes one after the other are one step here. `ReadTables` is the
reads of the tables that precede the generation (`store/cluster.go:311-352`): nothing ties
one table to another, so which of them a concurrent write has reached makes no difference
to a set of changes per table. `recordZone` looks at the maps, the primary and the rows of a
view at once (`views.go:128-150`), and `ReloadFromStore` looks the zone up and reads its rows
at once. `replaceDynamicZone` clears the maps of the queue and swaps the zone in, which no
step of the queue looks at. In `ClusterSync` a deleted view is one more change; that it
never leaves a member is an exception above. In `ZoneManager` the process may
die before any statement, but a statement that SQLite refuses, with the process going on, is
only there where a rename meets rows of the new name and where `Apply` is refused.

## What is left

1. `CatalogZones`: members added, removed and migrated between catalogs; so far a member's
   change of owner is an action of `PersistQueue` only.
2. An abstract durable zone, and `UpdatePersist` shown to implement it while journal
   writes succeed.
