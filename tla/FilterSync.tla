----------------------------- MODULE FilterSync -----------------------------
(***************************************************************************)
(* Block lists and allow lists: the rules an operator enters, the feeds    *)
(* fetched from a URL, and the engine that answers queries from a copy of  *)
(* both (admin/filter.go, admin/store/filter.go).                          *)
(*                                                                         *)
(* There is one URL, whose list changes from one version to the next; its  *)
(* ETag is the number of the version, and 0 is no ETag.  A feed's rules    *)
(* are the first n lines of a version, with the feed's action.  A task is  *)
(* a goroutine: the loop, a sync started by a request, or a request that   *)
(* is not over yet.                                                        *)
(***************************************************************************)
EXTENDS FilterEngine, FiniteSets

CONSTANTS
    Feeds,         \* feed IDs
    Stored,        \* feeds the database holds at the start, not fetched yet
    Workers,       \* goroutines besides the loop
    Lists,         \* the versions of the list: sequences of lines
    Entries,       \* the rules an operator may enter: pairs of an action and a line
    Names,         \* the names that are asked for
    MaxRequests,   \* bound on requests
    MaxFaults      \* bound on failures, broken downloads and crashes

ASSUME FilterAssumption ==
    /\ "loop" \notin Workers
    /\ Lists \in Seq(Seq(Lines)) /\ Len(Lists) > 0
    /\ Feeds \subseteq Nat \ {0} /\ Stored \subseteq Feeds /\ Cardinality(Stored) <= 1
    /\ Entries \subseteq {"allow", "block"} \X {l \in Lines : Accepted(l)}
    /\ Names \subseteq Seq(STRING)
    /\ MaxRequests \in Nat /\ MaxFaults \in Nat

Tasks   == Workers \cup {"loop"}
Actions == {"allow", "block"}

VARIABLES
    remote,     \* the version the URL serves
    feed,       \* SQLite: filter_feeds, by ID
    rules,      \* SQLite: filter_rules of each feed
    manual,     \* SQLite: filter_rules of source "manual"
    engine,     \* a.filters: the copy queries are answered from
    syncing,    \* a.filterSyncing
    task,       \* the goroutines
    broken,     \* history: feeds whose last download or whose deletion was cut off
    requests, faults

vars == <<remote, feed, rules, manual, engine, syncing, task, broken, requests, faults>>

Stages == {"idle", "begin", "fetch", "update", "patch", "load", "publish"}

NoFeed  == [state |-> "free", action |-> "block", sync |-> "off", etag |-> 0,
            recent |-> FALSE, filled |-> FALSE]
NoRules == [action |-> "block", ver |-> 0, n |-> 0]
Nothing == [feeds |-> [f \in Feeds |-> NoRules], manual |-> {}]
Ended   == [pc |-> "idle", f |-> 0, row |-> NoFeed, ver |-> 0, n |-> 0,
            todo |-> {}, changed |-> FALSE, copy |-> Nothing]

Rows     == [state : {"free", "live", "gone"}, action : Actions, sync : {"periodic", "off"},
             etag : 0 .. Len(Lists), recent : BOOLEAN, filled : BOOLEAN]
FeedRules == [action : Actions, ver : 0 .. Len(Lists), n : Nat]
Copies   == [feeds : [Feeds -> FeedRules], manual : SUBSET Entries]
Slots    == {s \in [pc : Stages, f : Feeds \cup {0}, row : Rows, ver : 0 .. Len(Lists),
                    n : Nat, todo : SUBSET Feeds, changed : BOOLEAN, copy : Copies] :
               s.pc \in {"begin", "fetch", "update", "patch"} => s.f \in Feeds}

(* The variables keep their types: a row of filter_feeds is stored         *)
(* normalised, and a goroutine that syncs or patches has the ID of a feed, *)
(* which may be gone by now.                                               *)
TypeOK ==
    /\ remote \in 1 .. Len(Lists)
    /\ feed \in [Feeds -> Rows]
    /\ rules \in [Feeds -> FeedRules]
    /\ manual \in SUBSET Entries
    /\ engine \in Copies
    /\ syncing \in SUBSET Feeds
    /\ task \in [Tasks -> Slots]
    /\ broken \in SUBSET Feeds
    /\ requests \in 0 .. MaxRequests /\ faults \in 0 .. MaxFaults

Init ==
    /\ remote = 1
    /\ feed = [f \in Feeds |-> IF f \in Stored
                               THEN [NoFeed EXCEPT !.state = "live", !.sync = "periodic"]
                               ELSE NoFeed]
    /\ rules = [f \in Feeds |-> NoRules]
    /\ manual = {} /\ engine = Nothing
    /\ syncing = {} /\ broken = {}
    /\ task = [t \in Tasks |-> Ended]
    /\ requests = 0 /\ faults = 0

Request == requests < MaxRequests /\ requests' = requests + 1
Fault   == faults < MaxFaults /\ faults' = faults + 1

Live(f)     == feed[f].state = "live"
At(t, pc)   == task[t].pc = pc
End(t)      == task' = [task EXCEPT ![t] = Ended]

(* runFilterSync in a goroutine of its own.                                *)
Start(w, f) == task' = [task EXCEPT ![w] = [Ended EXCEPT !.pc = "begin", !.f = f]]

(* publishFilter, called at the end of a request.                          *)
ThenPublish(w) == task' = [task EXCEPT ![w] = [Ended EXCEPT !.pc = "load"]]

----------------------------------------------------------------------------
(* Requests.                                                               *)

(* A slip: what the request says is stored as it is.                       *)
NormalizeFilterSyncNot(said) == said

(* NormalizeFilterSync: "once" is a feed that is fetched now and not again. *)
NormalizeFilterSync(said) == IF said = "once" THEN "off" ELSE "periodic"

(* handleCreateFilterFeed: a URL has one feed per action; naming it again  *)
(* starts a sync if the feed is still empty.                               *)
CreateFeed(w, f, action, said) ==
    /\ At(w, "idle") /\ Request
    /\ LET same == {g \in Feeds : Live(g) /\ feed[g].action = action} IN
         \/ /\ same = {} /\ feed[f].state = "free"
            /\ \A g \in Feeds : feed[g].state = "free" => f <= g     \* newID
            /\ feed' = [feed EXCEPT ![f] = [NoFeed EXCEPT !.state = "live",
                          !.action = action, !.sync = NormalizeFilterSync(said)]]
            /\ Start(w, f)
         \/ /\ f \in same /\ UNCHANGED feed
            /\ IF feed[f].filled THEN UNCHANGED task ELSE Start(w, f)
    /\ UNCHANGED <<remote, rules, manual, engine, syncing, broken, faults>>

(* handlePatchFilterFeed reads the row, and writes all of it later.        *)
PatchFeed(w, f, said) ==
    /\ At(w, "idle") /\ Request /\ Live(f)
    /\ task' = [task EXCEPT ![w] = [Ended EXCEPT !.pc = "patch", !.f = f,
                  !.row = [feed[f] EXCEPT !.sync = NormalizeFilterSync(said)]]]
    /\ UNCHANGED <<remote, feed, rules, manual, engine, syncing, broken, faults>>

(* UpdateFilterFeed: nothing is written when the row is gone.              *)
UpdateFilterFeed(f, row) == feed' = [feed EXCEPT ![f] = IF @.state = "live" THEN row ELSE @]

PatchWrite(w) ==
    /\ At(w, "patch") /\ End(w)
    /\ UpdateFilterFeed(task[w].f, task[w].row)
    /\ UNCHANGED <<remote, rules, manual, engine, syncing, broken, requests, faults>>

(* handleSyncFilterFeed.                                                   *)
SyncFeed(w, f) ==
    /\ At(w, "idle") /\ Request /\ Live(f)
    /\ Start(w, f)
    /\ UNCHANGED <<remote, feed, rules, manual, engine, syncing, broken, faults>>

(* handleDeleteFilterFeed: two statements under the store's lock, the      *)
(* rules and then the row.  Nobody reads both in between.                  *)
DeleteFeed(w, f) ==
    /\ At(w, "idle") /\ Request /\ Live(f)
    /\ rules' = [rules EXCEPT ![f] = NoRules]
    /\ feed' = [feed EXCEPT ![f] = [NoFeed EXCEPT !.state = "gone"]]
    /\ ThenPublish(w)
    /\ UNCHANGED <<remote, manual, engine, syncing, broken, faults>>

(* handleCreateFilterRule, handleDeleteFilterRule.                         *)
CreateFilterRule(w, r) ==
    /\ At(w, "idle") /\ Request
    /\ r \notin manual /\ manual' = manual \cup {r}
    /\ ThenPublish(w)
    /\ UNCHANGED <<remote, feed, rules, engine, syncing, broken, faults>>

DeleteFilterRule(w, r) ==
    /\ At(w, "idle") /\ Request
    /\ manual' = manual \ {r}
    /\ ThenPublish(w)
    /\ UNCHANGED <<remote, feed, rules, engine, syncing, broken, faults>>

----------------------------------------------------------------------------
(* syncFilterFeed.                                                         *)

(* What a task does when a sync is over: the loop goes on to its next      *)
(* feed, and a sync that went well is followed by publishFilter.           *)
AfterSync(t, ok) ==
    LET more == [Ended EXCEPT !.pc = "begin", !.f = CHOOSE f \in task[t].todo : TRUE,
                              !.todo = task[t].todo \ {CHOOSE f \in task[t].todo : TRUE},
                              !.changed = task[t].changed \/ ok]
    IN  task' = [task EXCEPT ![t] =
          CASE task[t].todo # {} -> more
            [] task[t].todo = {} /\ (ok \/ task[t].changed) -> [Ended EXCEPT !.pc = "load"]
            [] OTHER -> Ended]

(* A slip: nobody looks whether the feed is being fetched already.         *)
SyncBeginAnyway(t) ==
    /\ At(t, "begin") /\ Live(task[t].f)
    /\ syncing' = syncing \cup {task[t].f}
    /\ task' = [task EXCEPT ![t].pc = "fetch", ![t].row = feed[task[t].f]]
    /\ UNCHANGED <<remote, feed, rules, manual, engine, broken, requests, faults>>

(* A feed that is being fetched is left alone, and that is no error.       *)
SyncBegin(t) ==
    /\ At(t, "begin")
    /\ LET f == task[t].f IN
         \/ f \in syncing /\ AfterSync(t, TRUE) /\ UNCHANGED syncing
         \/ f \notin syncing /\ ~Live(f) /\ AfterSync(t, FALSE) /\ UNCHANGED syncing
         \/ /\ f \notin syncing /\ Live(f)
            /\ syncing' = syncing \cup {f}
            /\ task' = [task EXCEPT ![t].pc = "fetch", ![t].row = feed[f]]
    /\ UNCHANGED <<remote, feed, rules, manual, engine, broken, requests, faults>>

Release(t) == syncing' = syncing \ {task[t].f}

(* A slip: the goroutine that fails leaves its mark in filterSyncing.      *)
SyncFailsHeld(t) ==
    /\ At(t, "fetch") /\ Fault
    /\ UpdateFilterFeed(task[t].f, task[t].row)
    /\ UNCHANGED syncing /\ AfterSync(t, FALSE)
    /\ UNCHANGED <<remote, rules, manual, engine, broken, requests>>

(* A slip: the ETag of the answer is kept though its rules were not stored. *)
SyncFailsEtag(t) ==
    /\ At(t, "fetch") /\ Fault
    /\ UpdateFilterFeed(task[t].f, [task[t].row EXCEPT !.etag = remote])
    /\ Release(t) /\ AfterSync(t, FALSE)
    /\ UNCHANGED <<remote, rules, manual, engine, broken, requests>>

(* markFeedError writes the row as it was read: the next tick tries again. *)
SyncFails(t) ==
    /\ At(t, "fetch") /\ Fault
    /\ UpdateFilterFeed(task[t].f, task[t].row)
    /\ Release(t) /\ AfterSync(t, FALSE)
    /\ UNCHANGED <<remote, rules, manual, engine, broken, requests>>

(* The answer 304, when the row's ETag is the list's.                      *)
NotModified(t) ==
    /\ At(t, "fetch") /\ task[t].row.etag = remote
    /\ UpdateFilterFeed(task[t].f, [task[t].row EXCEPT !.recent = TRUE])
    /\ Release(t) /\ AfterSync(t, TRUE)
    /\ UNCHANGED <<remote, rules, manual, engine, broken, requests, faults>>

(* The answer 200, with its ETag, and ReplaceFeedRules: one transaction,   *)
(* whether the feed is still there or not.  parseFilterList does not ask   *)
(* why the body ended: a transfer that breaks off is a shorter list.  (It  *)
(* breaks off after a line here; inside one, the name that is left is      *)
(* taken as well.  Lists past 32 MB and lines past 1 MB, which are cut at  *)
(* every download, are left out.  What comes between the answer and the    *)
(* transaction is the goroutine's own.)                                    *)
ReplaceFeedRules(t, n) ==
    /\ At(t, "fetch") /\ task[t].row.etag # remote
    /\ task' = [task EXCEPT ![t].pc = "update", ![t].ver = remote, ![t].n = n]
    /\ LET f == task[t].f IN
         /\ rules' = [rules EXCEPT ![f] =
                        [action |-> task[t].row.action, ver |-> remote, n |-> n]]
         /\ \/ n = Len(Lists[remote]) /\ broken' = broken \ {f} /\ UNCHANGED faults
            \/ n < Len(Lists[remote]) /\ broken' = broken \cup {f} /\ Fault
    /\ UNCHANGED <<remote, feed, manual, engine, syncing, requests>>

Counted(s) == rulesFromParsed(s.row.action, parseFilterList(SubSeq(Lists[s.ver], 1, s.n)))

(* The row at last, with the ETag; the store may fail here too, and then   *)
(* the rules are in and the engine is not told.                            *)
SyncEnds(t) ==
    /\ At(t, "update") /\ Release(t)
    /\ \/ /\ UpdateFilterFeed(task[t].f, [task[t].row EXCEPT !.recent = TRUE,
               !.etag = task[t].ver, !.filled = Counted(task[t]) # {}])
          /\ AfterSync(t, TRUE) /\ UNCHANGED faults
       \/ Fault /\ AfterSync(t, FALSE) /\ UNCHANGED feed
    /\ UNCHANGED <<remote, rules, manual, engine, broken, requests>>

----------------------------------------------------------------------------
(* publishFilter: the table is read, and later the engine's maps are       *)
(* exchanged for what was read.                                            *)
LoadRules(t) ==
    /\ At(t, "load")
    /\ task' = [task EXCEPT ![t].pc = "publish",
                            ![t].copy = [feeds |-> rules, manual |-> manual]]
    /\ UNCHANGED <<remote, feed, rules, manual, engine, syncing, broken, requests, faults>>

(* The table cannot be read: the engine stays as it was.                   *)
LoadFails(t) ==
    /\ At(t, "load") /\ Fault /\ End(t)
    /\ UNCHANGED <<remote, feed, rules, manual, engine, syncing, broken, requests>>

Publish(t) ==
    /\ At(t, "publish") /\ End(t)
    /\ engine' = task[t].copy
    /\ UNCHANGED <<remote, feed, rules, manual, syncing, broken, requests, faults>>

(* syncDueFeeds: the periodic feeds that are due, one after the other.     *)
Due(f) == Live(f) /\ feed[f].sync = "periodic" /\ ~feed[f].recent

Tick ==
    /\ At("loop", "idle") /\ \E f \in Feeds : Due(f)
    /\ \E f \in Feeds :
         /\ Due(f)
         /\ task' = [task EXCEPT !["loop"] = [Ended EXCEPT !.pc = "begin", !.f = f,
                                   !.todo = {g \in Feeds : Due(g)} \ {f}]]
    /\ UNCHANGED <<remote, feed, rules, manual, engine, syncing, broken, requests, faults>>

(* The interval of every feed goes by.                                     *)
TimePasses ==
    /\ \E f \in Feeds : feed[f].recent
    /\ feed' = [f \in Feeds |-> [feed[f] EXCEPT !.recent = FALSE]]
    /\ task' = [t \in Tasks |-> [task[t] EXCEPT !.row.recent = FALSE]]
    /\ UNCHANGED <<remote, rules, manual, engine, syncing, broken, requests, faults>>

ListChanges ==
    /\ remote < Len(Lists) /\ remote' = remote + 1
    /\ UNCHANGED <<feed, rules, manual, engine, syncing, task, broken, requests, faults>>

(* The process ends and starts again: newAdmin publishes what is stored,   *)
(* if it can be read.                                                      *)
Crash ==
    /\ Fault
    /\ \/ UNCHANGED <<rules, broken>>
       \/ \E f \in Feeds :          \* between the statements of DeleteFilterFeed
            /\ Live(f) /\ \E w \in Workers : At(w, "idle")
            /\ rules' = [rules EXCEPT ![f] = NoRules]
            /\ broken' = broken \cup {f}
    /\ task' = [t \in Tasks |-> Ended]
    /\ syncing' = {}
    /\ engine' \in {[feeds |-> rules', manual |-> manual], Nothing}
    /\ UNCHANGED <<remote, feed, manual, requests>>

Step(t) ==
    \/ SyncBegin(t) \/ NotModified(t) \/ SyncEnds(t)
    \/ \E n \in 0 .. Len(Lists[remote]) : ReplaceFeedRules(t, n)
    \/ LoadRules(t) \/ Publish(t) \/ SyncFails(t) \/ LoadFails(t)

Next ==
    \/ \E t \in Tasks : Step(t)
    \/ \E w \in Workers :
         \/ \E f \in Feeds : \/ \E a \in Actions, s \in {"periodic", "once"} : CreateFeed(w, f, a, s)
                             \/ \E s \in {"periodic", "once"} : PatchFeed(w, f, s)
                             \/ SyncFeed(w, f) \/ DeleteFeed(w, f)
         \/ \E r \in Entries : CreateFilterRule(w, r)
         \/ \E r \in manual : DeleteFilterRule(w, r)
         \/ PatchWrite(w)
    \/ Tick \/ TimePasses \/ ListChanges \/ Crash

Spec == Init /\ [][Next]_vars

(* Goroutines run on, and the loop's ticker and the clock do not stop.     *)
Fairness ==
    /\ \A t \in Tasks : WF_vars(Step(t))
    /\ \A w \in Workers : WF_vars(PatchWrite(w))
    /\ WF_vars(Tick) /\ WF_vars(TimePasses)

FairSpec == Spec /\ Fairness

----------------------------------------------------------------------------
(* Properties.                                                             *)

Fetching(t, f) == task[t].f = f /\ task[t].pc \in {"fetch", "update"}

(* A feed is fetched by one goroutine at a time (filterSyncing), so that   *)
(* an older answer cannot overwrite the rules of a later one.              *)
OneSyncPerFeed ==
    \A f \in Feeds : \A t, u \in Tasks : Fetching(t, f) /\ Fetching(u, f) => t = u

(* The ETag a feed's row holds is never ahead of the rules: the rules are  *)
(* those of that version or of a later one, all of them, so that 304 means *)
(* there is nothing to fetch.  (Not after a download that broke off, or a  *)
(* crash between the two statements of DeleteFilterFeed.)                  *)
EtagBehind ==
    \A f \in Feeds :
      Live(f) /\ feed[f].etag # 0 /\ f \notin broken =>
        /\ rules[f].ver >= feed[f].etag
        /\ rules[f].n = Len(Lists[rules[f].ver])

(* What a copy of the table comes from, and the engine made of it.         *)
Source(c) ==
    {[action |-> r[1], line |-> r[2]] : r \in c.manual} \cup
    UNION {{[action |-> c.feeds[f].action, line |-> Lists[c.feeds[f].ver][i]] :
              i \in 1 .. c.feeds[f].n} : f \in Feeds}

Compiled(c) ==
    (UNION {rulesFromParsed(r[1], {r[2]}) : r \in c.manual}) \cup
    (UNION {rulesFromParsed(c.feeds[f].action,
              parseFilterList(IF c.feeds[f].n = 0 THEN <<>>
                              ELSE SubSeq(Lists[c.feeds[f].ver], 1, c.feeds[f].n))) :
              f \in Feeds})

(* A name is blocked if and only if a line of a block list or a rule       *)
(* matches it, and none that allows: "Allow wins.  `example.com` matches   *)
(* itself and subdomains; `*.example.com` matches subdomains only".        *)
AllowWins ==
    \A n \in Names :
      blocked(Compiled(engine), n) <=>
        /\ \E s \in Source(engine) : s.action = "block" /\ Matches(s.line, n)
        /\ ~\E s \in Source(engine) : s.action = "allow" /\ Matches(s.line, n)

(* A periodic feed that stays gets, whatever failed in between, into the   *)
(* engine as the URL serves it (syncDueFeeds, publishFilter).              *)
FeedCatchesUp ==
    \A f \in Feeds :
      <>[](Live(f) /\ feed[f].sync = "periodic" /\ f \notin broken)
        => <>[](/\ engine.feeds[f] = rules[f]
                /\ rules[f].ver = remote /\ rules[f].n = Len(Lists[remote]))
=============================================================================
