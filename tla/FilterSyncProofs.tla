-------------------------- MODULE FilterSyncProofs --------------------------
(***************************************************************************)
(* Proofs about FilterSync: types, one fetch of a feed at a time, and an   *)
(* ETag that is never ahead of the rules, for every list, every number of  *)
(* feeds and goroutines, and every bound.                                  *)
(***************************************************************************)
EXTENDS FilterSync, TLAPS

LEMMA ListLengths == /\ Len(Lists) \in Nat /\ Len(Lists) > 0
                     /\ \A v \in 1 .. Len(Lists) : Len(Lists[v]) \in Nat
BY FilterAssumption

LEMMA EndedTyped == /\ NoFeed \in Rows /\ NoRules \in FeedRules
                    /\ Nothing \in Copies /\ Ended \in Slots
<1>1. NoFeed \in Rows /\ NoRules \in FeedRules
  BY ListLengths DEF NoFeed, Rows, NoRules, FeedRules, Actions
<1>2. Nothing \in Copies
  BY <1>1 DEF Nothing, Copies
<1>3. Ended \in Slots
  BY <1>1, <1>2, ListLengths DEF Ended, Slots, Stages
<1> QED BY <1>1, <1>2, <1>3

(* AfterSync leaves the loop with a feed of its list, or at rest.          *)
LEMMA AfterSyncTyped ==
  ASSUME TypeOK, NEW t \in Tasks, NEW ok \in BOOLEAN, AfterSync(t, ok)
  PROVE  task' \in [Tasks -> Slots]
<1> DEFINE todo == task[t].todo
           pick == CHOOSE f \in todo : TRUE
           more == [Ended EXCEPT !.pc = "begin", !.f = pick, !.todo = todo \ {pick},
                                 !.changed = task[t].changed \/ ok]
<1>1. task \in [Tasks -> Slots] BY DEF TypeOK
<1>2. todo \subseteq Feeds /\ task[t].changed \in BOOLEAN BY <1>1 DEF Slots
<1>3. todo # {} => pick \in Feeds BY <1>2
<1>4. todo # {} => more \in Slots
  BY <1>2, <1>3, EndedTyped DEF Slots, Ended, Stages
<1>5. [Ended EXCEPT !.pc = "load"] \in Slots
  BY EndedTyped DEF Slots, Ended, Stages
<1>6. \E s \in Slots : task' = [task EXCEPT ![t] = s]
  BY <1>4, <1>5, EndedTyped, Zenon DEF AfterSync
<1> QED BY <1>1, <1>6

(* A step that writes a task's record and a feed's row.                    *)
LEMMA SlotTyped ==
  ASSUME TypeOK, NEW t \in Tasks, NEW s \in Slots, task' = [task EXCEPT ![t] = s]
  PROVE  task' \in [Tasks -> Slots]
BY DEF TypeOK

LEMMA RowTyped ==
  ASSUME TypeOK, NEW f, NEW row \in Rows, UpdateFilterFeed(f, row)
  PROVE  feed' \in [Feeds -> Rows]
BY DEF TypeOK, UpdateFilterFeed

LEMMA TypeStep == TypeOK /\ [Next]_vars => TypeOK'
<1> SUFFICES ASSUME TypeOK, [Next]_vars PROVE TypeOK' OBVIOUS
<1>t. /\ task \in [Tasks -> Slots] /\ feed \in [Feeds -> Rows]
      /\ rules \in [Feeds -> FeedRules] /\ remote \in 1 .. Len(Lists)
  BY DEF TypeOK
<1>r. \A t \in Tasks : task[t] \in Slots /\ task[t].row \in Rows /\ task[t].copy \in Copies
  BY <1>t DEF Slots
<1>w. Workers \subseteq Tasks BY DEF Tasks
<1>1. ASSUME NEW t \in Tasks, SyncBegin(t) PROVE TypeOK'
  <2>f. task[t].f \in Feeds BY <1>1, <1>r DEF SyncBegin, At, Slots
  <2>1. syncing' \in SUBSET Feeds BY <1>1, <2>f DEF SyncBegin, TypeOK
  <2>2. task' \in [Tasks -> Slots]
    <3>1. CASE \E ok \in BOOLEAN : AfterSync(t, ok) BY <3>1, AfterSyncTyped
    <3>2. CASE task' = [task EXCEPT ![t].pc = "fetch", ![t].row = feed[task[t].f]]
      <4>1. feed[task[t].f] \in Rows BY <2>f, <1>t
      <4>2. [task[t] EXCEPT !.pc = "fetch", !.row = feed[task[t].f]] \in Slots
        BY <4>1, <2>f, <1>r DEF Slots, Stages
      <4> QED BY <3>2, <4>2, <1>t
    <3> QED BY <1>1, <3>1, <3>2 DEF SyncBegin
  <2> QED BY <1>1, <2>1, <2>2 DEF SyncBegin, TypeOK
<1>2. ASSUME NEW t \in Tasks, NotModified(t) PROVE TypeOK'
  <2>1. [task[t].row EXCEPT !.recent = TRUE] \in Rows BY <1>r DEF Rows
  <2>2. feed' \in [Feeds -> Rows] BY <1>2, <2>1, RowTyped DEF NotModified
  <2>3. task' \in [Tasks -> Slots] BY <1>2, AfterSyncTyped DEF NotModified
  <2> QED BY <1>2, <2>2, <2>3 DEF NotModified, TypeOK, Release
<1>3. ASSUME NEW t \in Tasks, SyncEnds(t) PROVE TypeOK'
  <2>1. task[t].ver \in 0 .. Len(Lists) BY <1>t DEF Slots
  <2>2. [task[t].row EXCEPT !.recent = TRUE, !.etag = task[t].ver,
                            !.filled = Counted(task[t]) # {}] \in Rows
    BY <2>1, <1>r DEF Rows
  <2>3. feed' \in [Feeds -> Rows] BY <1>3, <2>2, <1>t, RowTyped DEF SyncEnds
  <2>4. task' \in [Tasks -> Slots] BY <1>3, AfterSyncTyped DEF SyncEnds
  <2>5. Fault \/ UNCHANGED faults BY <1>3, Zenon DEF SyncEnds
  <2>6. faults' \in 0 .. MaxFaults BY <2>5, FilterAssumption DEF Fault, TypeOK
  <2> QED BY <1>3, <2>3, <2>4, <2>6 DEF SyncEnds, TypeOK, Release
<1>4. ASSUME NEW t \in Tasks, NEW n \in 0 .. Len(Lists[remote]), ReplaceFeedRules(t, n)
      PROVE  TypeOK'
  <2>1. n \in Nat BY <1>t, ListLengths
  <2>6. task[t].f \in Feeds BY <1>4, <1>r DEF ReplaceFeedRules, At, Slots
  <2>7. remote \in 0 .. Len(Lists) BY <1>t, ListLengths
  <2>2. [task[t] EXCEPT !.pc = "update", !.ver = remote, !.n = n] \in Slots
    BY <2>1, <2>6, <2>7, <1>r DEF Slots, Stages
  <2>3. task' \in [Tasks -> Slots] BY <1>4, <2>2, <1>t DEF ReplaceFeedRules
  <2>4. [action |-> task[t].row.action, ver |-> remote, n |-> n] \in FeedRules
    BY <2>1, <2>7, <1>r DEF FeedRules, Rows
  <2>5. rules' \in [Feeds -> FeedRules] BY <1>4, <2>4, <1>t DEF ReplaceFeedRules
  <2>8. broken' \in SUBSET Feeds /\ faults' \in 0 .. MaxFaults
    BY <1>4, <2>6, FilterAssumption DEF ReplaceFeedRules, Fault, TypeOK
  <2> QED BY <1>4, <2>3, <2>5, <2>8 DEF ReplaceFeedRules, TypeOK
<1>5. ASSUME NEW t \in Tasks, LoadRules(t) PROVE TypeOK'
  <2>1. [feeds |-> rules, manual |-> manual] \in Copies BY DEF TypeOK, Copies
  <2>2. [task[t] EXCEPT !.pc = "publish", !.copy = [feeds |-> rules, manual |-> manual]] \in Slots
    BY <2>1, <1>r DEF Slots, Stages
  <2>3. task' \in [Tasks -> Slots] BY <1>5, <2>2, <1>t DEF LoadRules
  <2> QED BY <1>5, <2>3 DEF LoadRules, TypeOK
<1>6. ASSUME NEW t \in Tasks, Publish(t) PROVE TypeOK'
  <2>1. task' \in [Tasks -> Slots] BY <1>6, EndedTyped, SlotTyped DEF Publish, End
  <2>2. engine' \in Copies BY <1>6, <1>r DEF Publish
  <2> QED BY <1>6, <2>1, <2>2 DEF Publish, TypeOK
<1>7. ASSUME NEW t \in Tasks, SyncFails(t) PROVE TypeOK'
  <2>1. feed' \in [Feeds -> Rows] BY <1>7, <1>r, RowTyped DEF SyncFails
  <2>2. task' \in [Tasks -> Slots] BY <1>7, AfterSyncTyped DEF SyncFails
  <2>3. faults' \in 0 .. MaxFaults BY <1>7, FilterAssumption DEF SyncFails, Fault, TypeOK
  <2> QED BY <1>7, <2>1, <2>2, <2>3 DEF SyncFails, TypeOK, Release
<1>a. ASSUME Request PROVE requests' \in 0 .. MaxRequests
  BY <1>a, FilterAssumption DEF Request, TypeOK
<1>b. \A f \in Feeds : [Ended EXCEPT !.pc = "begin", !.f = f] \in Slots
  BY EndedTyped DEF Slots, Ended, Stages
<1>c. ASSUME NEW w \in Workers, ThenPublish(w) PROVE task' \in [Tasks -> Slots]
  <2>1. [Ended EXCEPT !.pc = "load"] \in Slots BY EndedTyped DEF Slots, Ended, Stages
  <2> QED BY <1>c, <2>1, <1>w, SlotTyped DEF ThenPublish
<1>d. ASSUME NEW w \in Workers, NEW f \in Feeds, Start(w, f) PROVE task' \in [Tasks -> Slots]
  BY <1>d, <1>b, <1>w, SlotTyped DEF Start
<1>e. \A said : NormalizeFilterSync(said) \in {"periodic", "off"}
  BY DEF NormalizeFilterSync
<1>8. ASSUME NEW w \in Workers, NEW f \in Feeds, NEW action \in Actions,
             NEW said \in {"periodic", "once"}, CreateFeed(w, f, action, said)
      PROVE  TypeOK'
  <2>1. [NoFeed EXCEPT !.state = "live", !.action = action,
                       !.sync = NormalizeFilterSync(said)] \in Rows
    BY <1>e, EndedTyped DEF NoFeed, Rows
  <2>2. feed' \in [Feeds -> Rows] BY <1>8, <2>1, <1>t DEF CreateFeed
  <2>3. Start(w, f) \/ UNCHANGED task BY <1>8 DEF CreateFeed
  <2>4. task' \in [Tasks -> Slots] BY <2>3, <1>d, <1>t
  <2> QED BY <1>8, <2>2, <2>4, <1>a DEF CreateFeed, TypeOK
<1>9. ASSUME NEW w \in Workers, NEW f \in Feeds, NEW said \in {"periodic", "once"},
             PatchFeed(w, f, said)
      PROVE  TypeOK'
  <2>1. [feed[f] EXCEPT !.sync = NormalizeFilterSync(said)] \in Rows
    BY <1>e, <1>t DEF Rows
  <2>2. [Ended EXCEPT !.pc = "patch", !.f = f,
                      !.row = [feed[f] EXCEPT !.sync = NormalizeFilterSync(said)]] \in Slots
    BY <2>1, EndedTyped DEF Slots, Ended, Stages
  <2>3. task' \in [Tasks -> Slots] BY <1>9, <2>2, <1>w, SlotTyped DEF PatchFeed
  <2> QED BY <1>9, <2>3, <1>a DEF PatchFeed, TypeOK
<1>10. ASSUME NEW w \in Workers, NEW f \in Feeds, SyncFeed(w, f) PROVE TypeOK'
  BY <1>10, <1>a, <1>d DEF SyncFeed, TypeOK
<1>11. ASSUME NEW w \in Workers, NEW f \in Feeds, DeleteFeed(w, f) PROVE TypeOK'
  <2>1. [NoFeed EXCEPT !.state = "gone"] \in Rows BY EndedTyped DEF NoFeed, Rows
  <2>2. feed' \in [Feeds -> Rows] /\ rules' \in [Feeds -> FeedRules]
    BY <1>11, <2>1, EndedTyped, <1>t DEF DeleteFeed
  <2> QED BY <1>11, <2>2, <1>a, <1>c DEF DeleteFeed, TypeOK
<1>12. ASSUME NEW w \in Workers, NEW r \in Entries, CreateFilterRule(w, r) PROVE TypeOK'
  BY <1>12, <1>a, <1>c DEF CreateFilterRule, TypeOK
<1>13. ASSUME NEW w \in Workers, NEW r \in manual, DeleteFilterRule(w, r) PROVE TypeOK'
  BY <1>13, <1>a, <1>c DEF DeleteFilterRule, TypeOK
<1>14. ASSUME NEW w \in Workers, PatchWrite(w) PROVE TypeOK'
  <2>1. task' \in [Tasks -> Slots] BY <1>14, <1>w, EndedTyped, SlotTyped DEF PatchWrite, End
  <2>2. feed' \in [Feeds -> Rows] BY <1>14, <1>r, <1>w, RowTyped DEF PatchWrite
  <2> QED BY <1>14, <2>1, <2>2 DEF PatchWrite, TypeOK
<1>15. ASSUME Tick PROVE TypeOK'
  <2>1. PICK f \in Feeds : task' = [task EXCEPT !["loop"] = [Ended EXCEPT !.pc = "begin",
                              !.f = f, !.todo = {g \in Feeds : Due(g)} \ {f}]]
    BY <1>15 DEF Tick
  <2>2. {g \in Feeds : Due(g)} \ {f} \in SUBSET Feeds OBVIOUS
  <2>3. [Ended EXCEPT !.pc = "begin", !.f = f, !.todo = {g \in Feeds : Due(g)} \ {f}] \in Slots
    BY <2>2, EndedTyped DEF Slots, Ended, Stages
  <2>4. task' \in [Tasks -> Slots] BY <2>1, <2>3, SlotTyped DEF Tasks
  <2> QED BY <1>15, <2>4 DEF Tick, TypeOK
<1>16. ASSUME TimePasses PROVE TypeOK'
  <2>1. \A f \in Feeds : [feed[f] EXCEPT !.recent = FALSE] \in Rows BY <1>t DEF Rows
  <2>2. feed' \in [Feeds -> Rows] BY <1>16, <2>1 DEF TimePasses
  <2>3. \A t \in Tasks : [task[t].row EXCEPT !.recent = FALSE] \in Rows BY <1>r DEF Rows
  <2>4. \A t \in Tasks : [task[t] EXCEPT !.row.recent = FALSE] \in Slots
    BY <2>3, <1>r DEF Slots
  <2>5. task' \in [Tasks -> Slots] BY <1>16, <2>4 DEF TimePasses
  <2> QED BY <1>16, <2>2, <2>5 DEF TimePasses, TypeOK
<1>17. ASSUME ListChanges PROVE TypeOK'
  <2>1. remote' \in 1 .. Len(Lists) BY <1>17, <1>t, ListLengths DEF ListChanges
  <2> QED BY <1>17, <2>1 DEF ListChanges, TypeOK
<1>18. ASSUME Crash PROVE TypeOK'
  <2>1. task' \in [Tasks -> Slots] BY <1>18, EndedTyped DEF Crash
  <2>2. rules' \in [Feeds -> FeedRules] /\ broken' \in SUBSET Feeds
    BY <1>18, EndedTyped, <1>t DEF Crash, TypeOK
  <2>3. engine' \in Copies BY <1>18, <2>2, EndedTyped DEF Crash, Copies, TypeOK
  <2>4. faults' \in 0 .. MaxFaults BY <1>18, FilterAssumption DEF Crash, Fault, TypeOK
  <2> QED BY <1>18, <2>1, <2>2, <2>3, <2>4 DEF Crash, TypeOK
<1>f. ASSUME NEW t \in Tasks, LoadFails(t) PROVE TypeOK'
  <2>1. task' \in [Tasks -> Slots] BY <1>f, EndedTyped, SlotTyped DEF LoadFails, End
  <2>2. faults' \in 0 .. MaxFaults BY <1>f, FilterAssumption DEF LoadFails, Fault, TypeOK
  <2> QED BY <1>f, <2>1, <2>2 DEF LoadFails, TypeOK
<1>19. CASE UNCHANGED vars BY <1>19 DEF vars, TypeOK
<1> QED
  BY <1>1, <1>2, <1>3, <1>4, <1>5, <1>6, <1>7, <1>8, <1>9, <1>10, <1>11, <1>12, <1>13,
     <1>14, <1>15, <1>16, <1>17, <1>18, <1>19, <1>f DEF Next, Step

LEMMA InitTyped == Init => TypeOK
<1> SUFFICES ASSUME Init PROVE TypeOK OBVIOUS
<1>1. \A f \in Feeds : [NoFeed EXCEPT !.state = "live", !.sync = "periodic"] \in Rows
  BY EndedTyped DEF NoFeed, Rows
<1>2. feed \in [Feeds -> Rows] BY <1>1, EndedTyped DEF Init
<1> QED BY <1>2, EndedTyped, ListLengths, FilterAssumption DEF Init, TypeOK

(* The tables, the engine and the goroutines keep their types; in          *)
(* particular no goroutine works on a feed that was never there.           *)
THEOREM TypeCorrect == Spec => []TypeOK
BY InitTyped, TypeStep, PTL DEF Spec

----------------------------------------------------------------------------
(* One fetch of a feed at a time.  The goroutine that fetches a feed has   *)
(* its mark in filterSyncing; that is what keeps the others out.           *)

Marked == \A t \in Tasks, f \in Feeds : Fetching(t, f) => f \in syncing

SyncInv == TypeOK /\ OneSyncPerFeed /\ Marked

(* The goroutine a step moves, and where AfterSync leaves it.              *)
OnlyMoves(t) == \A u \in Tasks \ {t} : task'[u] = task[u]

LEMMA AfterSyncStage ==
  ASSUME TypeOK, NEW t \in Tasks, NEW ok \in BOOLEAN, AfterSync(t, ok)
  PROVE  OnlyMoves(t) /\ task'[t].pc \notin {"fetch", "update", "patch"}
BY DEF AfterSync, OnlyMoves, TypeOK, Ended

(* Nobody begins a fetch.                                                  *)
LEMMA FetchKept ==
  ASSUME SyncInv, TypeOK', UNCHANGED syncing,
         \A u \in Tasks, f \in Feeds : Fetching(u, f)' => Fetching(u, f)
  PROVE  SyncInv'
BY DEF SyncInv, OneSyncPerFeed, Marked

(* A fetch ends, and takes its mark with it.                               *)
LEMMA FetchEnded ==
  ASSUME SyncInv, TypeOK', NEW t \in Tasks, At(t, "fetch") \/ At(t, "update"), Release(t),
         OnlyMoves(t), task'[t].pc \notin {"fetch", "update", "patch"}
  PROVE  SyncInv'
<1>1. task[t].f \in Feeds /\ Fetching(t, task[t].f)
  BY DEF SyncInv, TypeOK, Slots, At, Fetching
<1>2. \A u \in Tasks, f \in Feeds : Fetching(u, f)' => u # t /\ Fetching(u, f)
  BY DEF Fetching, OnlyMoves
<1>3. \A u \in Tasks, f \in Feeds : Fetching(u, f)' => f # task[t].f
  BY <1>1, <1>2 DEF SyncInv, OneSyncPerFeed
<1> QED BY <1>2, <1>3 DEF SyncInv, OneSyncPerFeed, Marked, Release

LEMMA SyncStep == SyncInv /\ [Next]_vars => SyncInv'
<1> SUFFICES ASSUME SyncInv, [Next]_vars PROVE SyncInv' OBVIOUS
<1>t. TypeOK /\ TypeOK' BY TypeStep DEF SyncInv
<1>w. Workers \subseteq Tasks BY DEF Tasks
<1>k. ASSUME UNCHANGED syncing, NEW t \in Tasks, OnlyMoves(t),
             task'[t].pc \notin {"fetch", "update"}
      PROVE  SyncInv'
  <2>1. \A u \in Tasks, f \in Feeds : Fetching(u, f)' => Fetching(u, f)
    BY <1>k DEF Fetching, OnlyMoves
  <2> QED BY <1>k, <2>1, <1>t, FetchKept
<1>1. ASSUME NEW t \in Tasks, SyncBegin(t) PROVE SyncInv'
  <2>1. CASE UNCHANGED syncing /\ \E ok \in BOOLEAN : AfterSync(t, ok)
    BY <2>1, <1>t, <1>k, AfterSyncStage
  <2>2. CASE /\ task[t].f \notin syncing /\ syncing' = syncing \cup {task[t].f}
             /\ task' = [task EXCEPT ![t].pc = "fetch", ![t].row = feed[task[t].f]]
    <3>1. \A u \in Tasks : /\ u # t => task'[u] = task[u]
                           /\ task'[u].f = task[u].f
      BY <2>2, <1>t DEF TypeOK, Slots
    <3>2. \A u \in Tasks, f \in Feeds :
            Fetching(u, f)' => IF u = t THEN f = task[t].f ELSE Fetching(u, f)
      BY <3>1 DEF Fetching
    <3>3. \A u \in Tasks, f \in Feeds :
            Fetching(u, f)' /\ u # t => f \in syncing /\ f # task[t].f
      BY <2>2, <3>2 DEF SyncInv, Marked
    <3> QED BY <2>2, <3>2, <3>3, <1>t DEF SyncInv, OneSyncPerFeed, Marked
  <2> QED BY <1>1, <2>1, <2>2 DEF SyncBegin
<1>2. ASSUME NEW t \in Tasks, NotModified(t) PROVE SyncInv'
  BY <1>2, <1>t, AfterSyncStage, FetchEnded DEF NotModified
<1>3. ASSUME NEW t \in Tasks, SyncEnds(t) PROVE SyncInv'
  <2>1. \E ok \in BOOLEAN : AfterSync(t, ok) BY <1>3 DEF SyncEnds
  <2> QED BY <1>3, <2>1, <1>t, AfterSyncStage, FetchEnded DEF SyncEnds
<1>4. ASSUME NEW t \in Tasks, NEW n \in 0 .. Len(Lists[remote]), ReplaceFeedRules(t, n)
      PROVE  SyncInv'
  <2>1. \A u \in Tasks : /\ u # t => task'[u] = task[u]
                         /\ task'[u].f = task[u].f
    BY <1>4, <1>t DEF ReplaceFeedRules, TypeOK, Slots
  <2>2. \A u \in Tasks, f \in Feeds : Fetching(u, f)' => Fetching(u, f)
    BY <1>4, <2>1 DEF Fetching, ReplaceFeedRules, At
  <2> QED BY <1>4, <2>2, <1>t, FetchKept DEF ReplaceFeedRules
<1>5. ASSUME NEW t \in Tasks, LoadRules(t) PROVE SyncInv'
  <2>1. OnlyMoves(t) /\ task'[t].pc = "publish"
    BY <1>5, <1>t DEF LoadRules, OnlyMoves, TypeOK, Slots
  <2> QED BY <1>5, <2>1, <1>k DEF LoadRules
<1>6. ASSUME NEW t \in Tasks, Publish(t) PROVE SyncInv'
  <2>1. OnlyMoves(t) /\ task'[t].pc = "idle"
    BY <1>6, <1>t DEF Publish, End, Ended, OnlyMoves, TypeOK
  <2> QED BY <1>6, <2>1, <1>k DEF Publish
<1>f. ASSUME NEW t \in Tasks, LoadFails(t) PROVE SyncInv'
  <2>1. OnlyMoves(t) /\ task'[t].pc = "idle"
    BY <1>f, <1>t DEF LoadFails, End, Ended, OnlyMoves, TypeOK
  <2> QED BY <1>f, <2>1, <1>k DEF LoadFails
<1>7. ASSUME NEW t \in Tasks, SyncFails(t) PROVE SyncInv'
  BY <1>7, <1>t, AfterSyncStage, FetchEnded DEF SyncFails
<1>8. ASSUME NEW w \in Workers, NEW f \in Feeds, NEW action \in Actions,
             NEW said \in {"periodic", "once"}, CreateFeed(w, f, action, said)
      PROVE  SyncInv'
  <2>1. Start(w, f) \/ UNCHANGED task BY <1>8 DEF CreateFeed
  <2>2. CASE Start(w, f)
    <3>1. OnlyMoves(w) /\ task'[w].pc = "begin"
      BY <2>2, <1>t, <1>w DEF Start, Ended, OnlyMoves, TypeOK
    <3> QED BY <1>8, <3>1, <1>w, <1>k DEF CreateFeed
  <2>3. CASE UNCHANGED task
    BY <1>8, <2>3, <1>t, FetchKept DEF CreateFeed, Fetching
  <2> QED BY <2>1, <2>2, <2>3
<1>9. ASSUME NEW w \in Workers, NEW f \in Feeds, NEW said \in {"periodic", "once"},
             PatchFeed(w, f, said)
      PROVE  SyncInv'
  <2>1. OnlyMoves(w) /\ task'[w].pc = "patch"
    BY <1>9, <1>t, <1>w DEF PatchFeed, Ended, OnlyMoves, TypeOK
  <2> QED BY <1>9, <2>1, <1>w, <1>k DEF PatchFeed
<1>10. ASSUME NEW w \in Workers, NEW f \in Feeds, SyncFeed(w, f) PROVE SyncInv'
  <2>1. OnlyMoves(w) /\ task'[w].pc = "begin"
    BY <1>10, <1>t, <1>w DEF SyncFeed, Start, Ended, OnlyMoves, TypeOK
  <2> QED BY <1>10, <2>1, <1>w, <1>k DEF SyncFeed
<1>11. ASSUME NEW w \in Workers, ThenPublish(w), UNCHANGED syncing PROVE SyncInv'
  <2>1. OnlyMoves(w) /\ task'[w].pc = "load"
    BY <1>11, <1>t, <1>w DEF ThenPublish, Ended, OnlyMoves, TypeOK
  <2> QED BY <1>11, <2>1, <1>w, <1>k DEF ThenPublish
<1>12. ASSUME NEW w \in Workers, PatchWrite(w) PROVE SyncInv'
  <2>1. OnlyMoves(w) /\ task'[w].pc = "idle"
    BY <1>12, <1>t, <1>w DEF PatchWrite, End, Ended, OnlyMoves, TypeOK
  <2> QED BY <1>12, <2>1, <1>w, <1>k DEF PatchWrite
<1>13. ASSUME Tick PROVE SyncInv'
  <2>1. "loop" \in Tasks BY DEF Tasks
  <2>2. OnlyMoves("loop") /\ task'["loop"].pc = "begin"
    BY <1>13, <2>1, <1>t DEF Tick, Ended, OnlyMoves, TypeOK
  <2> QED BY <1>13, <2>1, <2>2, <1>k DEF Tick
<1>14. ASSUME TimePasses PROVE SyncInv'
  <2>1. \A t \in Tasks : task'[t].f = task[t].f /\ task'[t].pc = task[t].pc
    BY <1>14, <1>t DEF TimePasses, TypeOK, Slots
  <2>2. \A u \in Tasks, f \in Feeds : Fetching(u, f)' => Fetching(u, f)
    BY <2>1 DEF Fetching
  <2> QED BY <1>14, <2>2, <1>t, FetchKept DEF TimePasses
<1>15. ASSUME UNCHANGED <<task, syncing>> PROVE SyncInv'
  BY <1>15, <1>t, FetchKept DEF Fetching
<1>16. ASSUME Crash PROVE SyncInv'
  <2>1. \A u \in Tasks, f \in Feeds : ~Fetching(u, f)'
    BY <1>16 DEF Crash, Fetching, Ended
  <2> QED BY <2>1, <1>t DEF SyncInv, OneSyncPerFeed, Marked
<1> QED
  BY <1>1, <1>2, <1>3, <1>4, <1>5, <1>6, <1>7, <1>8, <1>9, <1>10, <1>11, <1>12, <1>13,
     <1>14, <1>15, <1>16, <1>f
  DEF Next, Step, DeleteFeed, CreateFilterRule, DeleteFilterRule, ListChanges, vars

(* At any moment a feed is fetched by one goroutine at most, however many  *)
(* requests ask for it while the loop is at it (syncFilterFeed).           *)
THEOREM OneSyncAtATime == Spec => []OneSyncPerFeed
<1>1. Init => SyncInv
  <2> SUFFICES ASSUME Init PROVE SyncInv OBVIOUS
  <2>1. \A t \in Tasks, f \in Feeds : ~Fetching(t, f) BY DEF Init, Fetching, Ended
  <2> QED BY <2>1, InitTyped DEF SyncInv, OneSyncPerFeed, Marked
<1>2. SyncInv => OneSyncPerFeed BY DEF SyncInv
<1> QED BY <1>1, <1>2, SyncStep, PTL DEF Spec

----------------------------------------------------------------------------
(* The ETag.  Goroutines write rows that they read earlier, so what holds  *)
(* of a feed's row has to hold of every row that may still be written.     *)

Behind(f, etag) == etag <= remote /\ (f \notin broken => etag <= rules[f].ver)

RulesFit ==
    \A f \in Feeds :
      /\ rules[f].ver <= remote
      /\ rules[f].ver # 0 /\ f \notin broken => rules[f].n = Len(Lists[rules[f].ver])

RowsBehind == \A f \in Feeds : Live(f) => Behind(f, feed[f].etag)

Held(t) == task[t].pc \in {"fetch", "update", "patch"}

HeldBehind ==
    \A t \in Tasks :
      /\ Held(t) => /\ feed[task[t].f].state # "free" /\ task[t].row.state = "live"
                    /\ Live(task[t].f) => Behind(task[t].f, task[t].row.etag)
      /\ task[t].pc = "update" /\ Live(task[t].f) => Behind(task[t].f, task[t].ver)

EtagInv == TypeOK /\ RulesFit /\ RowsBehind /\ HeldBehind

(* A goroutine goes on with the row it had, or has just read one.          *)
HoldsOn(t) ==
    /\ Held(t)
    /\ task'[t].f = task[t].f /\ task'[t].ver = task[t].ver
    /\ task'[t].row.etag = task[t].row.etag /\ task'[t].row.state = task[t].row.state
    /\ task'[t].pc = "update" => task[t].pc = "update"

TakesRow(t) ==
    /\ task'[t].pc # "update" /\ Live(task'[t].f)
    /\ task'[t].row.etag = feed[task'[t].f].etag /\ task'[t].row.state = "live"

(* What every step does but the ones that change a feed's rules.           *)
LEMMA EtagFrame ==
  ASSUME EtagInv, TypeOK', remote <= remote', UNCHANGED <<rules, broken>>,
         \A f \in Feeds : feed[f].state # "free" => feed'[f].state # "free",
         \A f \in Feeds : Live(f)' => \/ Live(f) /\ Behind(f, feed'[f].etag)
                                      \/ feed[f].state = "free" /\ feed'[f].etag = 0,
         \A t \in Tasks : Held(t)' => HoldsOn(t) \/ TakesRow(t)
  PROVE  EtagInv'
<1>1. /\ remote \in Nat /\ remote' \in Nat
      /\ \A f \in Feeds : /\ rules[f].ver \in Nat
                           /\ feed[f].etag \in Nat /\ feed'[f].etag \in Nat
      /\ \A t \in Tasks : /\ task[t].row.etag \in Nat /\ task[t].ver \in Nat
                          /\ Held(t)' => task'[t].f \in Feeds
  BY ListLengths DEF EtagInv, TypeOK, Slots, Rows, FeedRules, Held
<1>2. RulesFit' BY <1>1 DEF EtagInv, RulesFit
<1>3. ASSUME NEW f \in Feeds, NEW e \in Nat, Behind(f, e) PROVE Behind(f, e)'
  BY <1>1, <1>3 DEF Behind
<1>4. \A f \in Feeds : Behind(f, 0) BY <1>1 DEF Behind
<1>5. RowsBehind'
  BY <1>1, <1>4 DEF RowsBehind, Behind, Live
<1>6. HeldBehind'
  <2> SUFFICES ASSUME NEW t \in Tasks, Held(t)'
      PROVE  /\ feed'[task'[t].f].state # "free" /\ task'[t].row.state = "live"
             /\ Live(task[t].f)' => Behind(task[t].f, task[t].row.etag)'
             /\ task'[t].pc = "update" /\ Live(task[t].f)' => Behind(task[t].f, task[t].ver)'
    BY DEF HeldBehind, Held
  <2>1. CASE HoldsOn(t)
    <3>1. feed[task[t].f].state # "free" BY <2>1 DEF HoldsOn, EtagInv, HeldBehind
    <3>2. Live(task[t].f)' => Live(task[t].f)
      BY <2>1, <3>1, <1>1 DEF HoldsOn, Live
    <3> QED BY <2>1, <3>1, <3>2, <1>1 DEF HoldsOn, EtagInv, HeldBehind, Behind
  <2>2. CASE TakesRow(t)
    BY <2>2, <1>1 DEF TakesRow, EtagInv, RowsBehind, Behind, Live
  <2> QED BY <2>1, <2>2
<1> QED BY <1>2, <1>5, <1>6 DEF EtagInv

(* A row that is behind is written.                                        *)
LEMMA RowWritten ==
  ASSUME EtagInv, NEW g \in Feeds, NEW row \in Rows, row.state = "live",
         Live(g) => Behind(g, row.etag), UpdateFilterFeed(g, row)
  PROVE  /\ \A f \in Feeds : feed[f].state # "free" => feed'[f].state # "free"
         /\ \A f \in Feeds : Live(f)' => Live(f) /\ Behind(f, feed'[f].etag)
BY DEF EtagInv, TypeOK, RowsBehind, UpdateFilterFeed, Live

LEMMA EtagStep == EtagInv /\ [Next]_vars => EtagInv'
<1> SUFFICES ASSUME EtagInv, [Next]_vars PROVE EtagInv' OBVIOUS
<1>t. TypeOK /\ TypeOK' BY TypeStep DEF EtagInv
<1>n. /\ remote \in Nat /\ remote' \in Nat
      /\ \A f \in Feeds : rules[f].ver \in Nat /\ feed[f].etag \in Nat
  BY <1>t, ListLengths DEF TypeOK, Rows, FeedRules
<1>w. Workers \subseteq Tasks BY DEF Tasks
<1>s. ASSUME UNCHANGED feed
      PROVE  /\ \A f \in Feeds : feed[f].state # "free" => feed'[f].state # "free"
             /\ \A f \in Feeds : Live(f)' => Live(f) /\ Behind(f, feed'[f].etag)
  BY <1>s DEF EtagInv, RowsBehind, Live
<1>h. ASSUME NEW t \in Tasks, OnlyMoves(t), Held(t)' => HoldsOn(t) \/ TakesRow(t)
      PROVE  \A u \in Tasks : Held(u)' => HoldsOn(u) \/ TakesRow(u)
  BY <1>h DEF OnlyMoves, Held, HoldsOn
<1>o. ASSUME NEW t \in Tasks, task'[t].pc \notin {"fetch", "update", "patch"}
      PROVE  ~Held(t)'
  BY <1>o DEF Held
<1>1. ASSUME NEW t \in Tasks, SyncBegin(t) PROVE EtagInv'
  <2>1. OnlyMoves(t) /\ (Held(t)' => TakesRow(t))
    <3>1. CASE \E ok \in BOOLEAN : AfterSync(t, ok)
      BY <3>1, <1>t, <1>o, AfterSyncStage
    <3>2. CASE task' = [task EXCEPT ![t].pc = "fetch", ![t].row = feed[task[t].f]]
               /\ Live(task[t].f)
      <4>1. /\ OnlyMoves(t) /\ task'[t].pc = "fetch" /\ task'[t].f = task[t].f
            /\ task'[t].row = feed[task[t].f]
        BY <3>2, <1>t DEF OnlyMoves, TypeOK, Slots
      <4> QED BY <3>2, <4>1 DEF TakesRow, Live
    <3> QED BY <1>1, <3>1, <3>2 DEF SyncBegin
  <2>2. \A u \in Tasks : Held(u)' => HoldsOn(u) \/ TakesRow(u) BY <2>1, <1>h
  <2> QED BY <1>1, <2>2, <1>s, <1>t, <1>n, EtagFrame DEF SyncBegin
<1>2. ASSUME NEW t \in Tasks, NEW row \in Rows, UpdateFilterFeed(task[t].f, row), Held(t),
             row.state = "live", Live(task[t].f) => Behind(task[t].f, row.etag),
             OnlyMoves(t), task'[t].pc \notin {"fetch", "update", "patch"},
             UNCHANGED <<remote, rules, broken>>
      PROVE  EtagInv'
  <2>1. task[t].f \in Feeds BY <1>2, <1>t DEF TypeOK, Slots, Held
  <2>2. \A u \in Tasks : Held(u)' => HoldsOn(u) \/ TakesRow(u) BY <1>2, <1>h, <1>o
  <2>3. /\ \A f \in Feeds : feed[f].state # "free" => feed'[f].state # "free"
        /\ \A f \in Feeds : Live(f)' => Live(f) /\ Behind(f, feed'[f].etag)
    BY <1>2, <2>1, RowWritten
  <2> QED BY <1>2, <2>2, <2>3, <1>t, <1>n, EtagFrame
<1>r. ASSUME NEW t \in Tasks, Held(t)
      PROVE  /\ task[t].row \in Rows /\ task[t].row.state = "live"
             /\ Live(task[t].f) => Behind(task[t].f, task[t].row.etag)
  BY <1>r, <1>t DEF TypeOK, Slots, EtagInv, HeldBehind
<1>3. ASSUME NEW t \in Tasks, NotModified(t) PROVE EtagInv'
  <2> DEFINE row == [task[t].row EXCEPT !.recent = TRUE]
  <2>1. Held(t) BY <1>3 DEF NotModified, At, Held
  <2>2. row \in Rows /\ row.state = "live" /\ row.etag = task[t].row.etag
    BY <2>1, <1>r DEF Rows
  <2>3. Live(task[t].f) => Behind(task[t].f, row.etag) BY <2>1, <2>2, <1>r
  <2>4. OnlyMoves(t) /\ task'[t].pc \notin {"fetch", "update", "patch"}
    BY <1>3, <1>t, AfterSyncStage DEF NotModified
  <2>5. UpdateFilterFeed(task[t].f, row) /\ UNCHANGED <<remote, rules, broken>>
    BY <1>3 DEF NotModified
  <2> HIDE DEF row
  <2> QED BY <2>1, <2>2, <2>3, <2>4, <2>5, <1>2
<1>4. ASSUME NEW t \in Tasks, SyncEnds(t) PROVE EtagInv'
  <2> DEFINE row == [task[t].row EXCEPT !.recent = TRUE, !.etag = task[t].ver,
                                        !.filled = Counted(task[t]) # {}]
  <2>1. Held(t) /\ task[t].pc = "update" BY <1>4 DEF SyncEnds, At, Held
  <2>2. task[t].ver \in 0 .. Len(Lists) BY <1>t DEF TypeOK, Slots
  <2>3. row \in Rows /\ row.state = "live" /\ row.etag = task[t].ver
    BY <2>1, <2>2, <1>r DEF Rows
  <2>4. Live(task[t].f) => Behind(task[t].f, row.etag)
    BY <2>1, <2>3 DEF EtagInv, HeldBehind
  <2>5. OnlyMoves(t) /\ task'[t].pc \notin {"fetch", "update", "patch"}
    BY <1>4, <1>t, AfterSyncStage DEF SyncEnds
  <2>6. /\ UpdateFilterFeed(task[t].f, row) \/ UNCHANGED feed
        /\ UNCHANGED <<remote, rules, broken>>
    BY <1>4 DEF SyncEnds
  <2> HIDE DEF row
  <2>7. CASE UpdateFilterFeed(task[t].f, row)
    BY <2>1, <2>3, <2>4, <2>5, <2>6, <2>7, <1>2
  <2>8. CASE UNCHANGED feed
    <3>1. \A u \in Tasks : Held(u)' => HoldsOn(u) \/ TakesRow(u) BY <2>5, <1>h, <1>o
    <3> QED BY <2>6, <2>8, <3>1, <1>s, <1>t, <1>n, EtagFrame
  <2> QED BY <2>6, <2>7, <2>8
<1>5. ASSUME NEW t \in Tasks, SyncFails(t) PROVE EtagInv'
  <2>1. Held(t) BY <1>5 DEF SyncFails, At, Held
  <2>2. OnlyMoves(t) /\ task'[t].pc \notin {"fetch", "update", "patch"}
    BY <1>5, <1>t, AfterSyncStage DEF SyncFails
  <2> QED BY <1>5, <2>1, <2>2, <1>r, <1>2 DEF SyncFails
<1>6. ASSUME NEW t \in Tasks, NEW n \in 0 .. Len(Lists[remote]), ReplaceFeedRules(t, n)
      PROVE  EtagInv'
  <2> DEFINE f == task[t].f
  <2>1. f \in Feeds /\ Held(t) BY <1>6, <1>t DEF ReplaceFeedRules, At, TypeOK, Slots, Held
  <2>2. /\ rules'[f].ver = remote /\ rules'[f].n = n
        /\ \A g \in Feeds \ {f} : rules'[g] = rules[g]
        /\ f \notin broken' => n = Len(Lists[remote])
        /\ \A g \in Feeds \ {f} : g \in broken' <=> g \in broken
        /\ UNCHANGED <<remote, feed>>
    BY <1>6, <2>1, <1>t DEF ReplaceFeedRules, TypeOK
  <2>3. RulesFit' BY <2>2, <1>n DEF EtagInv, RulesFit
  <2>4. ASSUME NEW g \in Feeds, NEW e, Behind(g, e) PROVE Behind(g, e)'
    BY <2>2, <2>4 DEF Behind
  <2>5. RowsBehind' BY <2>2, <2>4 DEF EtagInv, RowsBehind, Live
  <2>6. \A u \in Tasks : /\ u # t => task'[u] = task[u]
                         /\ task'[u].f = task[u].f /\ task'[u].row = task[u].row
    BY <1>6, <1>t DEF ReplaceFeedRules, TypeOK, Slots
  <2>7. task'[t].ver = remote /\ task'[t].pc = "update"
    BY <1>6, <1>t DEF ReplaceFeedRules, TypeOK, Slots
  <2>8. \A u \in Tasks : Held(u) => task[u].f \in Feeds BY <1>t DEF TypeOK, Slots, Held
  <2>9. Behind(task[t].f, task[t].ver)' BY <2>2, <2>6, <2>7, <1>n DEF Behind
  <2>10. HeldBehind'
    <3> SUFFICES ASSUME NEW u \in Tasks, Held(u)'
        PROVE  /\ feed'[task'[u].f].state # "free" /\ task'[u].row.state = "live"
               /\ Live(task[u].f)' => Behind(task[u].f, task[u].row.etag)'
               /\ task'[u].pc = "update" /\ Live(task[u].f)' => Behind(task[u].f, task[u].ver)'
      BY DEF HeldBehind, Held
    <3>1. Held(u) BY <2>1, <2>6 DEF Held
    <3>2. Live(task[u].f)' = Live(task[u].f) BY <2>2, <2>6 DEF Live
    <3>3. /\ feed'[task'[u].f].state # "free" /\ task'[u].row.state = "live"
          /\ Live(task[u].f)' => Behind(task[u].f, task[u].row.etag)
      BY <3>1, <3>2, <2>2, <2>6 DEF EtagInv, HeldBehind
    <3>4. Live(task[u].f)' => Behind(task[u].f, task[u].row.etag)'
      BY <3>1, <3>3, <2>2, <2>4, <2>6, <2>8 DEF Behind
    <3>5. CASE u = t BY <3>3, <3>4, <3>5, <2>9
    <3>6. CASE u # t
      <4>1. task'[u] = task[u] BY <3>6, <2>6
      <4>2. task[u].pc = "update" /\ Live(task[u].f)' => Behind(task[u].f, task[u].ver)
        BY <3>2 DEF EtagInv, HeldBehind
      <4> QED BY <3>1, <3>3, <3>4, <4>1, <4>2, <2>2, <2>4, <2>8 DEF Behind
    <3> QED BY <3>5, <3>6
  <2> QED BY <2>3, <2>5, <2>10, <1>t DEF EtagInv
<1>7. ASSUME UNCHANGED <<remote, feed, rules, broken>>, NEW t \in Tasks, OnlyMoves(t),
             Held(t)' => HoldsOn(t) \/ TakesRow(t)
      PROVE  EtagInv'
  <2>1. \A u \in Tasks : Held(u)' => HoldsOn(u) \/ TakesRow(u) BY <1>7, <1>h
  <2> QED BY <1>7, <2>1, <1>s, <1>t, <1>n, EtagFrame
<1>8. ASSUME NEW t \in Tasks, LoadRules(t) \/ Publish(t) \/ LoadFails(t) PROVE EtagInv'
  <2>1. OnlyMoves(t) /\ task'[t].pc \in {"publish", "idle"}
    BY <1>8, <1>t DEF LoadRules, Publish, LoadFails, End, Ended, OnlyMoves, TypeOK, Slots
  <2>2. ~Held(t)' BY <2>1 DEF Held
  <2> QED BY <1>8, <2>1, <2>2, <1>7 DEF LoadRules, Publish, LoadFails
<1>9. ASSUME NEW w \in Workers, NEW f \in Feeds, NEW action \in Actions,
             NEW said \in {"periodic", "once"}, CreateFeed(w, f, action, said)
      PROVE  EtagInv'
  <2>1. \A u \in Tasks : Held(u)' => HoldsOn(u) \/ TakesRow(u)
    <3>1. Start(w, f) \/ UNCHANGED task BY <1>9 DEF CreateFeed
    <3>2. CASE Start(w, f)
      <4>1. OnlyMoves(w) /\ task'[w].pc = "begin"
        BY <3>2, <1>t, <1>w DEF Start, Ended, OnlyMoves, TypeOK
      <4> QED BY <4>1, <1>w, <1>h, <1>o
    <3>3. CASE UNCHANGED task BY <3>3 DEF Held, HoldsOn
    <3> QED BY <3>1, <3>2, <3>3
  <2>2. \A g \in Feeds : feed[g].state # "free" => feed'[g].state # "free"
    BY <1>9, <1>t DEF CreateFeed, TypeOK, NoFeed
  <2>3. \A g \in Feeds : Live(g)' => \/ Live(g) /\ Behind(g, feed'[g].etag)
                                     \/ feed[g].state = "free" /\ feed'[g].etag = 0
    <3>1. CASE UNCHANGED feed BY <3>1, <1>s
    <3>2. CASE /\ feed[f].state = "free"
               /\ feed' = [feed EXCEPT ![f] = [NoFeed EXCEPT !.state = "live",
                             !.action = action, !.sync = NormalizeFilterSync(said)]]
      <4>1. feed'[f].etag = 0 /\ \A g \in Feeds \ {f} : feed'[g] = feed[g]
        BY <3>2, <1>t DEF TypeOK, NoFeed
      <4> QED BY <3>2, <4>1 DEF EtagInv, RowsBehind, Live
    <3> QED BY <1>9, <3>1, <3>2 DEF CreateFeed
  <2>4. remote <= remote' /\ UNCHANGED <<rules, broken>> BY <1>9, <1>n DEF CreateFeed
  <2> QED BY <2>1, <2>2, <2>3, <2>4, <1>t, EtagFrame
<1>10. ASSUME NEW w \in Workers, NEW f \in Feeds, NEW said \in {"periodic", "once"},
              PatchFeed(w, f, said)
       PROVE  EtagInv'
  <2>1. feed[f] \in Rows BY <1>t DEF TypeOK
  <2>2. /\ OnlyMoves(w) /\ task'[w].pc = "patch" /\ task'[w].f = f
        /\ task'[w].row = [feed[f] EXCEPT !.sync = NormalizeFilterSync(said)]
    BY <1>10, <1>t, <1>w DEF PatchFeed, Ended, OnlyMoves, TypeOK
  <2>3. TakesRow(w) BY <1>10, <2>1, <2>2 DEF PatchFeed, TakesRow, Live, Rows
  <2> QED BY <1>10, <2>2, <2>3, <1>w, <1>7 DEF PatchFeed
<1>11. ASSUME NEW w \in Workers, NEW f \in Feeds, SyncFeed(w, f) PROVE EtagInv'
  <2>1. OnlyMoves(w) /\ task'[w].pc = "begin"
    BY <1>11, <1>t, <1>w DEF SyncFeed, Start, Ended, OnlyMoves, TypeOK
  <2> QED BY <1>11, <2>1, <1>w, <1>o, <1>7 DEF SyncFeed
<1>12. ASSUME NEW w \in Workers, ThenPublish(w) PROVE OnlyMoves(w) /\ ~Held(w)'
  <2>1. OnlyMoves(w) /\ task'[w].pc = "load"
    BY <1>12, <1>t, <1>w DEF ThenPublish, Ended, OnlyMoves, TypeOK
  <2> QED BY <2>1 DEF Held
<1>13. ASSUME NEW w \in Workers, NEW f \in Feeds, DeleteFeed(w, f) PROVE EtagInv'
  <2>1. /\ rules'[f].ver = 0 /\ feed'[f].state = "gone"
        /\ \A g \in Feeds \ {f} : rules'[g] = rules[g] /\ feed'[g] = feed[g]
        /\ UNCHANGED <<remote, broken>>
    BY <1>13, <1>t DEF DeleteFeed, TypeOK, NoRules, NoFeed
  <2>2. OnlyMoves(w) /\ ~Held(w)' BY <1>13, <1>12 DEF DeleteFeed
  <2>3. RulesFit' BY <2>1, <1>n DEF EtagInv, RulesFit
  <2>4. \A g \in Feeds : Live(g)' => g # f /\ Live(g) BY <2>1 DEF Live
  <2>5. ASSUME NEW g \in Feeds, NEW e, Behind(g, e), g # f PROVE Behind(g, e)'
    BY <2>1, <2>5 DEF Behind
  <2>6. RowsBehind' BY <2>1, <2>4 DEF EtagInv, RowsBehind, Behind
  <2>7. HeldBehind'
    <3> SUFFICES ASSUME NEW u \in Tasks, Held(u)'
        PROVE  /\ feed'[task'[u].f].state # "free" /\ task'[u].row.state = "live"
               /\ Live(task[u].f)' => Behind(task[u].f, task[u].row.etag)'
               /\ task'[u].pc = "update" /\ Live(task[u].f)' => Behind(task[u].f, task[u].ver)'
      BY DEF HeldBehind, Held
    <3>1. task'[u] = task[u] /\ Held(u) BY <2>2 DEF OnlyMoves, Held
    <3>2. task[u].f \in Feeds BY <3>1, <1>t DEF TypeOK, Slots, Held
    <3>3. feed[task[u].f].state # "free" BY <3>1 DEF EtagInv, HeldBehind
    <3>4. feed'[task[u].f].state # "free" BY <3>2, <3>3, <2>1
    <3> QED BY <3>1, <3>2, <3>4, <2>1, <2>4 DEF EtagInv, HeldBehind, Behind
  <2> QED BY <2>3, <2>6, <2>7, <1>t DEF EtagInv
<1>14. ASSUME NEW w \in Workers, PatchWrite(w) PROVE EtagInv'
  <2>1. Held(w) /\ w \in Tasks BY <1>14, <1>w DEF PatchWrite, At, Held
  <2>2. OnlyMoves(w) /\ task'[w].pc \notin {"fetch", "update", "patch"}
    BY <1>14, <2>1, <1>t DEF PatchWrite, End, Ended, OnlyMoves, TypeOK
  <2> QED BY <1>14, <2>1, <2>2, <1>r, <1>2 DEF PatchWrite
<1>15. ASSUME Tick PROVE EtagInv'
  <2>1. "loop" \in Tasks BY DEF Tasks
  <2>2. OnlyMoves("loop") /\ task'["loop"].pc = "begin"
    BY <1>15, <2>1, <1>t DEF Tick, Ended, OnlyMoves, TypeOK
  <2> QED BY <1>15, <2>1, <2>2, <1>o, <1>7 DEF Tick
<1>16. ASSUME TimePasses PROVE EtagInv'
  <2>1. \A u \in Tasks : Held(u)' => HoldsOn(u)
    BY <1>16, <1>t DEF TimePasses, TypeOK, Slots, Rows, Held, HoldsOn
  <2>2. \A f \in Feeds : feed'[f].state = feed[f].state /\ feed'[f].etag = feed[f].etag
    BY <1>16, <1>t DEF TimePasses, TypeOK, Rows
  <2>3. \A f \in Feeds : Live(f)' => Live(f) /\ Behind(f, feed'[f].etag)
    BY <2>2 DEF EtagInv, RowsBehind, Live
  <2> QED BY <1>16, <2>1, <2>2, <2>3, <1>t, <1>n, EtagFrame DEF TimePasses
<1>17. ASSUME ListChanges PROVE EtagInv'
  <2>1. \A u \in Tasks : Held(u)' => HoldsOn(u) BY <1>17 DEF ListChanges, Held, HoldsOn
  <2> QED BY <1>17, <2>1, <1>s, <1>t, <1>n, EtagFrame DEF ListChanges
<1>18. ASSUME Crash PROVE EtagInv'
  <2>1. \A u \in Tasks : ~Held(u)' /\ task'[u].pc # "update" BY <1>18 DEF Crash, Held, Ended
  <2>2. HeldBehind' BY <2>1 DEF HeldBehind
  <2>3. \A f \in Feeds : /\ rules'[f] = rules[f] \/ (rules'[f].ver = 0 /\ f \in broken')
                         /\ f \in broken => f \in broken'
    BY <1>18, <1>t DEF Crash, TypeOK, NoRules
  <2>4. RulesFit' BY <1>18, <2>3, <1>n DEF Crash, EtagInv, RulesFit
  <2>5. RowsBehind' BY <1>18, <2>3 DEF Crash, EtagInv, RowsBehind, Behind, Live
  <2> QED BY <2>2, <2>4, <2>5, <1>t DEF EtagInv
<1>19. ASSUME NEW w \in Workers, NEW r, CreateFilterRule(w, r) \/ DeleteFilterRule(w, r)
       PROVE  EtagInv'
  BY <1>19, <1>12, <1>w, <1>7 DEF CreateFilterRule, DeleteFilterRule
<1>20. ASSUME UNCHANGED vars PROVE EtagInv'
  <2>1. \A u \in Tasks : Held(u)' => HoldsOn(u) BY <1>20 DEF vars, Held, HoldsOn
  <2> QED BY <1>20, <2>1, <1>s, <1>t, <1>n, EtagFrame DEF vars
<1> QED
  BY <1>1, <1>3, <1>4, <1>5, <1>6, <1>8, <1>9, <1>10, <1>11, <1>13, <1>14, <1>15, <1>16,
     <1>17, <1>18, <1>19, <1>20 DEF Next, Step

(* The ETag in a feed's row is never ahead of the feed's rules, although   *)
(* syncs and requests write back rows they read before: 304 never hides a  *)
(* version of the list that was not stored (syncFilterFeed, markFeedError, *)
(* UpdateFilterFeed).                                                      *)
THEOREM EtagNeverAhead == Spec => []EtagBehind
<1>1. Init => EtagInv
  <2> SUFFICES ASSUME Init PROVE EtagInv OBVIOUS
  <2>1. /\ RulesFit
    BY ListLengths DEF Init, RulesFit, NoRules
  <2>2. RowsBehind BY DEF Init, RowsBehind, Behind, NoFeed, NoRules
  <2>3. HeldBehind BY DEF Init, HeldBehind, Held, Ended
  <2> QED BY <2>1, <2>2, <2>3, InitTyped DEF EtagInv
<1>2. EtagInv => EtagBehind
  <2> SUFFICES ASSUME EtagInv, NEW f \in Feeds, Live(f), feed[f].etag # 0, f \notin broken
               PROVE  rules[f].ver >= feed[f].etag /\ rules[f].n = Len(Lists[rules[f].ver])
    BY DEF EtagBehind
  <2>1. rules[f].ver \in Nat /\ feed[f].etag \in Nat
    BY ListLengths DEF EtagInv, TypeOK, Rows, FeedRules
  <2>2. feed[f].etag <= rules[f].ver BY DEF EtagInv, RowsBehind, Behind
  <2> QED BY <2>1, <2>2 DEF EtagInv, RulesFit
<1> QED BY <1>1, <1>2, EtagStep, PTL DEF Spec

----------------------------------------------------------------------------
(* What the engine blocks.  First the walk over the parents of a name:     *)
(* it visits the suffixes of the name, the name itself apart.              *)

LEMMA ReverseFacts ==
  ASSUME NEW S, NEW s \in Seq(S)
  PROVE  /\ Reverse(s) \in Seq(S) /\ Len(Reverse(s)) = Len(s)
         /\ \A i \in 1 .. Len(s) : Reverse(s)[i] = s[Len(s) - i + 1]
<1>1. Len(s) \in Nat OBVIOUS
<1>2. Reverse(s) = [i \in 1 .. Len(s) |-> s[(Len(s) - i) + 1]] BY DEF Reverse
<1>3. \A i \in 1 .. Len(s) : (Len(s) - i) + 1 \in 1 .. Len(s) BY <1>1
<1>4. \A i \in 1 .. Len(s) : s[(Len(s) - i) + 1] \in S BY <1>3
<1>5. [i \in 1 .. Len(s) |-> s[(Len(s) - i) + 1]] \in Seq(S) BY <1>1, <1>4
<1> QED BY <1>1, <1>2, <1>5

(* A suffix agrees with the end of the sequence, place by place.           *)
LEMMA SuffixPlaces ==
  ASSUME NEW S, NEW s \in Seq(S), NEW n \in Seq(S)
  PROVE  IsSuffix(s, n) <=>
           /\ Len(s) <= Len(n)
           /\ \A k \in 1 .. Len(s) : s[k] = n[Len(n) - Len(s) + k]
<1> DEFINE rs == Reverse(s)
           rn == Reverse(n)
<1>1. Len(s) \in Nat /\ Len(n) \in Nat OBVIOUS
<1>2. /\ rs \in Seq(S) /\ Len(rs) = Len(s)
      /\ \A i \in 1 .. Len(s) : rs[i] = s[Len(s) - i + 1]
  BY ReverseFacts
<1>3. /\ rn \in Seq(S) /\ Len(rn) = Len(n)
      /\ \A i \in 1 .. Len(n) : rn[i] = n[Len(n) - i + 1]
  BY ReverseFacts
<1> HIDE DEF rs, rn
<1>4. IsSuffix(s, n) <=> Len(rs) <= Len(rn) /\ SubSeq(rs, 1, Len(rs)) = SubSeq(rn, 1, Len(rs))
  BY DEF IsSuffix, IsPrefix, rs, rn
<1>5. ASSUME Len(s) <= Len(n)
      PROVE  SubSeq(rs, 1, Len(rs)) = SubSeq(rn, 1, Len(rs)) <=>
               \A i \in 1 .. Len(s) : rs[i] = rn[i]
  <2>1. /\ SubSeq(rs, 1, Len(s)) \in Seq(S) /\ Len(SubSeq(rs, 1, Len(s))) = Len(s)
        /\ \A k \in 1 .. Len(s) : SubSeq(rs, 1, Len(s))[k] = rs[k]
    BY <1>1, <1>2
  <2>2. /\ SubSeq(rn, 1, Len(s)) \in Seq(S) /\ Len(SubSeq(rn, 1, Len(s))) = Len(s)
        /\ \A k \in 1 .. Len(s) : SubSeq(rn, 1, Len(s))[k] = rn[k]
    BY <1>1, <1>3, <1>5
  <2> QED BY <2>1, <2>2, <1>1, <1>2
<1>6. ASSUME Len(s) <= Len(n)
      PROVE  (\A i \in 1 .. Len(s) : rs[i] = rn[i]) <=>
               \A k \in 1 .. Len(s) : s[k] = n[Len(n) - Len(s) + k]
  <2>1. ASSUME \A i \in 1 .. Len(s) : rs[i] = rn[i], NEW k \in 1 .. Len(s)
        PROVE  s[k] = n[Len(n) - Len(s) + k]
    <3>1. Len(s) - k + 1 \in 1 .. Len(s) BY <1>1
    <3>2. PICK i \in 1 .. Len(s) : i = Len(s) - k + 1 BY <3>1
    <3>3. i \in 1 .. Len(n) /\ Len(s) - i + 1 = k /\ Len(n) - i + 1 = Len(n) - Len(s) + k
      BY <1>1, <1>6, <3>2
    <3>4. rs[i] = s[k] BY <1>2, <3>3
    <3>5. rn[i] = n[Len(n) - Len(s) + k] BY <1>3, <3>3
    <3> QED BY <2>1, <3>4, <3>5
  <2>2. ASSUME \A k \in 1 .. Len(s) : s[k] = n[Len(n) - Len(s) + k], NEW i \in 1 .. Len(s)
        PROVE  rs[i] = rn[i]
    <3>1. Len(s) - i + 1 \in 1 .. Len(s) BY <1>1
    <3>2. PICK k \in 1 .. Len(s) : k = Len(s) - i + 1 BY <3>1
    <3>3. i \in 1 .. Len(n) /\ Len(n) - i + 1 = Len(n) - Len(s) + k
      BY <1>1, <1>6, <3>2
    <3>4. rs[i] = s[k] BY <1>2, <3>2
    <3>5. rn[i] = n[Len(n) - Len(s) + k] BY <1>3, <3>3
    <3> QED BY <2>2, <3>4, <3>5
  <2> QED BY <2>1, <2>2
<1> QED BY <1>2, <1>3, <1>4, <1>5, <1>6

LEMMA ParentsAreSuffixes ==
  ASSUME NEW S, NEW s \in Seq(S), NEW n \in Seq(S), Len(s) >= 1
  PROVE  /\ IsSuffix(s, n) <=> s = n \/ s \in Parents(n)
         /\ s \in Parents(n) => s # n
<1>1. Len(s) \in Nat /\ Len(n) \in Nat OBVIOUS
<1>2. \A i \in 2 .. Len(n) :
        /\ SubSeq(n, i, Len(n)) \in Seq(S) /\ Len(SubSeq(n, i, Len(n))) = Len(n) - i + 1
        /\ \A k \in 1 .. Len(n) - i + 1 : SubSeq(n, i, Len(n))[k] = n[i + k - 1]
  BY <1>1
<1>3. ASSUME IsSuffix(s, n), s # n PROVE s \in Parents(n)
  <2>1. /\ Len(s) <= Len(n)
        /\ \A k \in 1 .. Len(s) : s[k] = n[Len(n) - Len(s) + k]
    BY <1>3, SuffixPlaces
  <2>2. Len(s) # Len(n)
    <3> SUFFICES ASSUME Len(s) = Len(n) PROVE FALSE OBVIOUS
    <3>1. \A k \in 1 .. Len(s) : s[k] = n[k] BY <2>1, <1>1
    <3> QED BY <3>1, <1>3
  <2>3. PICK i \in 2 .. Len(n) : i = Len(n) - Len(s) + 1 BY <1>1, <2>1, <2>2
  <2>4. PICK d : d = SubSeq(n, i, Len(n)) OBVIOUS
  <2>5. d \in Seq(S) /\ Len(d) = Len(s) /\ \A k \in 1 .. Len(s) : d[k] = s[k]
    BY <1>1, <1>2, <2>1, <2>3, <2>4
  <2>6. d = s BY <2>5
  <2> QED BY <2>4, <2>6 DEF Parents
<1>4. ASSUME s \in Parents(n) PROVE IsSuffix(s, n) /\ s # n
  <2>1. PICK i \in 2 .. Len(n) : s = SubSeq(n, i, Len(n)) BY <1>4 DEF Parents
  <2>2. Len(s) = Len(n) - i + 1 /\ \A k \in 1 .. Len(s) : s[k] = n[i + k - 1]
    BY <1>2, <2>1
  <2>3. Len(s) <= Len(n) /\ Len(s) # Len(n) BY <1>1, <2>2
  <2>4. \A k \in 1 .. Len(s) : s[k] = n[Len(n) - Len(s) + k] BY <1>1, <2>2
  <2> QED BY <2>3, <2>4, SuffixPlaces
<1>5. ASSUME s = n PROVE IsSuffix(s, n) BY <1>1, <1>5, SuffixPlaces
<1> QED BY <1>3, <1>4, <1>5

(* What a pattern of the engine is meant to match.                         *)
Covers(r, n) == IsSuffix(r.name, n) /\ (r.kids => r.name # n)

EngineRules == {r \in [action : Actions, name : Seq(STRING), kids : BOOLEAN] : Len(r.name) >= 1}

(* A lookup in the maps of an action finds a name exactly if one of the    *)
(* rules they were made of covers it.                                      *)
LEMMA HitCovers ==
  ASSUME NEW R, R \subseteq EngineRules, NEW a, NEW n \in Seq(STRING)
  PROVE  filterHit(n, Patterns(R, a, FALSE), Patterns(R, a, TRUE)) <=>
           \E r \in R : r.action = a /\ Covers(r, n)
<1> DEFINE self == Patterns(R, a, FALSE)
           kids == Patterns(R, a, TRUE)
<1>1. \A m : m \in self <=> \E r \in R : r.action = a /\ r.kids = FALSE /\ r.name = m
  BY DEF Patterns
<1>2. \A m : m \in kids <=> \E r \in R : r.action = a /\ r.kids = TRUE /\ r.name = m
  BY DEF Patterns
<1>3. \A r \in R : /\ r.kids \in BOOLEAN
                   /\ IsSuffix(r.name, n) <=> r.name = n \/ r.name \in Parents(n)
                   /\ r.name \in Parents(n) => r.name # n
  BY ParentsAreSuffixes DEF EngineRules
<1> HIDE DEF self, kids
<1>4. ASSUME filterHit(n, self, kids) PROVE \E r \in R : r.action = a /\ Covers(r, n)
  <2>1. CASE n \in self BY <2>1, <1>1, <1>3 DEF Covers
  <2>2. ASSUME NEW m \in Parents(n), m \in self \/ m \in kids
        PROVE  \E r \in R : r.action = a /\ Covers(r, n)
    <3>1. PICK r \in R : r.action = a /\ r.name = m BY <2>2, <1>1, <1>2
    <3> QED BY <2>2, <3>1, <1>3 DEF Covers
  <2> QED BY <1>4, <2>1, <2>2 DEF filterHit
<1>5. ASSUME NEW r \in R, r.action = a, Covers(r, n) PROVE filterHit(n, self, kids)
  <2>1. r.kids = TRUE \/ r.kids = FALSE BY <1>3
  <2>2. CASE r.kids = TRUE
    <3>1. r.name \in Parents(n) BY <1>3, <1>5, <2>2 DEF Covers
    <3>2. r.name \in kids BY <1>2, <1>5, <2>2
    <3> QED BY <3>1, <3>2 DEF filterHit
  <2>3. CASE r.kids = FALSE
    <3>1. r.name = n \/ r.name \in Parents(n) BY <1>3, <1>5 DEF Covers
    <3>2. r.name \in self BY <1>1, <1>5, <2>3
    <3> QED BY <3>1, <3>2 DEF filterHit
  <2> QED BY <2>1, <2>2, <2>3
<1> QED BY <1>4, <1>5 DEF self, kids

(* Dropping the narrower of two patterns for a name loses no match.        *)
LEMMA ParseKeepsMatches ==
  ASSUME NEW lines \in Seq(Lines), NEW n
  PROVE  /\ \A l \in parseFilterList(lines) : l \in Lines /\ Accepted(l)
         /\ (\E l \in parseFilterList(lines) : Covers(l, n)) <=>
              \E i \in DOMAIN lines : Matches(lines[i], n)
<1> DEFINE parsed == parseFilterList(lines)
           ok(l)  == (\E i \in DOMAIN lines : l = lines[i]) /\ Accepted(l)
<1>1. \A l : l \in ToSet(lines) <=> \E i \in DOMAIN lines : l = lines[i] BY DEF ToSet
<1>2. \A l : l \in parsed <=>
             ok(l) /\ (~l.kids \/ \A m : ok(m) /\ ~m.kids => m.name # l.name)
  BY <1>1 DEF parseFilterList
<1>3. \A l : ok(l) => l \in Lines OBVIOUS
<1>4. ASSUME NEW l \in parsed, Covers(l, n) PROVE \E i \in DOMAIN lines : Matches(lines[i], n)
  BY <1>2, <1>4 DEF Covers, Matches
<1>5. ASSUME NEW i \in DOMAIN lines, Matches(lines[i], n) PROVE \E l \in parsed : Covers(l, n)
  <2>1. PICK l : l = lines[i] OBVIOUS
  <2>2. ok(l) /\ Covers(l, n) BY <1>5, <2>1 DEF Matches, Covers
  <2>3. CASE l \in parsed BY <2>2, <2>3
  <2>4. CASE l \notin parsed
    <3>1. PICK m : ok(m) /\ ~m.kids /\ m.name = l.name BY <1>2, <2>2, <2>4
    <3>2. m \in parsed BY <1>2, <3>1
    <3>3. Covers(m, n) BY <2>2, <3>1 DEF Covers
    <3> QED BY <3>2, <3>3
  <2> QED BY <2>3, <2>4
<1> QED BY <1>2, <1>3, <1>4, <1>5

(* The rules of a feed are lines of a version that exists.                 *)
Fit(r)    == r.n # 0 => r.ver \in 1 .. Len(Lists) /\ r.n <= Len(Lists[r.ver])
FitCopy(c) == \A f \in Feeds : Fit(c.feeds[f])

Taken(c, f) == IF c.feeds[f].n = 0 THEN <<>> ELSE SubSeq(Lists[c.feeds[f].ver], 1, c.feeds[f].n)

LEMMA TakenLines ==
  ASSUME NEW c \in Copies, FitCopy(c), NEW f \in Feeds
  PROVE  /\ Taken(c, f) \in Seq(Lines) /\ DOMAIN Taken(c, f) = 1 .. c.feeds[f].n
         /\ \A i \in 1 .. c.feeds[f].n : Taken(c, f)[i] = Lists[c.feeds[f].ver][i]
<1>1. c.feeds[f] \in FeedRules /\ c.feeds[f].n \in Nat BY DEF Copies, FeedRules
<1>2. Fit(c.feeds[f]) BY DEF FitCopy
<1>3. CASE c.feeds[f].n = 0 BY <1>1, <1>3 DEF Taken
<1>4. CASE c.feeds[f].n # 0
  <2>1. PICK l : l = Lists[c.feeds[f].ver] OBVIOUS
  <2>2. PICK n : n = c.feeds[f].n OBVIOUS
  <2>3. l \in Seq(Lines) /\ n \in Nat /\ n <= Len(l) /\ 1 <= n
    BY <1>1, <1>2, <1>4, <2>1, <2>2, FilterAssumption DEF Fit
  <2>4. /\ SubSeq(l, 1, n) \in Seq(Lines) /\ DOMAIN SubSeq(l, 1, n) = 1 .. n
        /\ \A i \in 1 .. n : SubSeq(l, 1, n)[i] = l[i]
    BY <2>3
  <2> QED BY <1>4, <2>1, <2>2, <2>4 DEF Taken
<1> QED BY <1>3, <1>4

(* Some rule of an action, some pattern of a list, covers a name.          *)
Covered(R, b, n) == \E r \in R : r.action = b /\ Covers(r, n)
SomeCovers(P, n) == \E l \in P : Covers(l, n)

LEMMA RulesMade ==
  ASSUME NEW a \in Actions, NEW P \in SUBSET {l \in Lines : Accepted(l)}, NEW n, NEW b
  PROVE  /\ rulesFromParsed(a, P) \subseteq EngineRules
         /\ Covered(rulesFromParsed(a, P), b, n) <=> a = b /\ SomeCovers(P, n)
<1>1. \A l \in P : [action |-> a, name |-> l.name, kids |-> l.kids] \in EngineRules
  BY DEF Lines, Accepted, EngineRules
<1>2. \A l : Covers([action |-> a, name |-> l.name, kids |-> l.kids], n) <=> Covers(l, n)
  BY DEF Covers
<1>3. \A r : r \in rulesFromParsed(a, P) <=>
             \E l \in P : r = [action |-> a, name |-> l.name, kids |-> l.kids]
  BY DEF rulesFromParsed
<1>4. rulesFromParsed(a, P) \subseteq EngineRules BY <1>1, <1>3
<1>5. ASSUME NEW r \in rulesFromParsed(a, P), r.action = b, Covers(r, n)
      PROVE  a = b /\ \E l \in P : Covers(l, n)
  <2>1. PICK l \in P : r = [action |-> a, name |-> l.name, kids |-> l.kids] BY <1>3
  <2> QED BY <1>2, <1>5, <2>1
<1>6. ASSUME NEW l \in P, Covers(l, n)
      PROVE  \E r \in rulesFromParsed(a, P) : r.action = a /\ Covers(r, n)
  <2>1. PICK r : r = [action |-> a, name |-> l.name, kids |-> l.kids] OBVIOUS
  <2>2. r \in rulesFromParsed(a, P) /\ r.action = a BY <1>3, <2>1
  <2> QED BY <1>2, <1>6, <2>1, <2>2
<1> QED BY <1>4, <1>5, <1>6 DEF Covered, SomeCovers

(* What a rule entered by hand, and a feed, put into the engine, and what  *)
(* they come from.                                                         *)
ByHand(e)     == rulesFromParsed(e[1], {e[2]})
Fetched(c, f) == rulesFromParsed(c.feeds[f].action, parseFilterList(Taken(c, f)))
FeedMatches(c, f, n) ==
    \E i \in 1 .. c.feeds[f].n : Matches(Lists[c.feeds[f].ver][i], n)

LEMMA ByHandCovers ==
  ASSUME NEW e \in Entries, NEW n, NEW b
  PROVE  /\ ByHand(e) \subseteq EngineRules
         /\ Covered(ByHand(e), b, n) <=> e[1] = b /\ Matches(e[2], n)
<1>1. PICK a : a = e[1] OBVIOUS
<1>2. PICK P : P = {e[2]} OBVIOUS
<1>3. a \in Actions /\ e[2] \in Lines /\ Accepted(e[2])
  BY <1>1, FilterAssumption DEF Actions
<1>4. P \in SUBSET {l \in Lines : Accepted(l)} BY <1>2, <1>3
<1>5. SomeCovers(P, n) <=> Matches(e[2], n) BY <1>2, <1>3 DEF SomeCovers, Matches, Covers
<1>6. ByHand(e) = rulesFromParsed(a, P) BY <1>1, <1>2 DEF ByHand
<1> QED BY <1>1, <1>3, <1>4, <1>5, <1>6, RulesMade

LEMMA FetchedCovers ==
  ASSUME NEW c \in Copies, FitCopy(c), NEW f \in Feeds, NEW n, NEW b
  PROVE  /\ Fetched(c, f) \subseteq EngineRules
         /\ Covered(Fetched(c, f), b, n) <=> c.feeds[f].action = b /\ FeedMatches(c, f, n)
<1>1. PICK a : a = c.feeds[f].action OBVIOUS
<1>2. a \in Actions BY <1>1 DEF Copies, FeedRules
<1>3. PICK lines : lines = Taken(c, f) OBVIOUS
<1>4. /\ lines \in Seq(Lines) /\ DOMAIN lines = 1 .. c.feeds[f].n
      /\ \A i \in 1 .. c.feeds[f].n : lines[i] = Lists[c.feeds[f].ver][i]
  BY <1>3, TakenLines
<1>5. PICK P : P = parseFilterList(lines) OBVIOUS
<1>6. /\ \A l \in P : l \in Lines /\ Accepted(l)
      /\ SomeCovers(P, n) <=> \E i \in DOMAIN lines : Matches(lines[i], n)
  BY <1>4, <1>5, ParseKeepsMatches DEF SomeCovers
<1>7. P \in SUBSET {l \in Lines : Accepted(l)} BY <1>6
<1>8. SomeCovers(P, n) <=> FeedMatches(c, f, n) BY <1>4, <1>6 DEF FeedMatches
<1>9. Fetched(c, f) = rulesFromParsed(a, P) BY <1>1, <1>3, <1>5 DEF Fetched
<1> QED BY <1>1, <1>2, <1>7, <1>8, <1>9, RulesMade

(* The engine made of a copy covers what the lines it comes from match,    *)
(* action by action.                                                       *)
LEMMA CompiledCovers ==
  ASSUME NEW c \in Copies, FitCopy(c), NEW n, NEW b
  PROVE  /\ Compiled(c) \subseteq EngineRules
         /\ Covered(Compiled(c), b, n) <=>
              \E s \in Source(c) : s.action = b /\ Matches(s.line, n)
<1>1. Compiled(c) = (UNION {ByHand(e) : e \in c.manual})
                      \cup (UNION {Fetched(c, f) : f \in Feeds})
  BY DEF Compiled, Taken, ByHand, Fetched
<1>2. \A r : r \in Compiled(c) <=> \/ \E e \in c.manual : r \in ByHand(e)
                                   \/ \E f \in Feeds : r \in Fetched(c, f)
  BY <1>1
<1>3. \A s : s \in Source(c) <=>
        \/ \E e \in c.manual : s = [action |-> e[1], line |-> e[2]]
        \/ \E f \in Feeds : \E i \in 1 .. c.feeds[f].n :
             s = [action |-> c.feeds[f].action, line |-> Lists[c.feeds[f].ver][i]]
  BY DEF Source
<1>4. \A e \in c.manual : e \in Entries BY DEF Copies
<1>5. Compiled(c) \subseteq EngineRules BY <1>2, <1>4, ByHandCovers, FetchedCovers
<1>6. ASSUME NEW r \in Compiled(c), r.action = b, Covers(r, n)
      PROVE  \E s \in Source(c) : s.action = b /\ Matches(s.line, n)
  <2>1. CASE \E e \in c.manual : r \in ByHand(e)
    <3>1. PICK e \in c.manual : r \in ByHand(e) BY <2>1
    <3>2. Covered(ByHand(e), b, n) BY <1>6, <3>1 DEF Covered
    <3>3. e[1] = b /\ Matches(e[2], n) BY <1>4, <3>2, ByHandCovers
    <3>4. PICK s : s = [action |-> e[1], line |-> e[2]] OBVIOUS
    <3>5. s \in Source(c) BY <1>3, <3>4
    <3> QED BY <3>3, <3>4, <3>5
  <2>2. CASE \E f \in Feeds : r \in Fetched(c, f)
    <3>1. PICK f \in Feeds : r \in Fetched(c, f) BY <2>2
    <3>2. Covered(Fetched(c, f), b, n) BY <1>6, <3>1 DEF Covered
    <3>3. c.feeds[f].action = b /\ FeedMatches(c, f, n) BY <3>2, FetchedCovers
    <3>4. PICK i \in 1 .. c.feeds[f].n : Matches(Lists[c.feeds[f].ver][i], n)
      BY <3>3 DEF FeedMatches
    <3>5. PICK s : s = [action |-> c.feeds[f].action, line |-> Lists[c.feeds[f].ver][i]]
      OBVIOUS
    <3>6. s \in Source(c) BY <1>3, <3>5
    <3> QED BY <3>3, <3>4, <3>5, <3>6
  <2> QED BY <1>2, <2>1, <2>2
<1>7. ASSUME NEW s \in Source(c), s.action = b, Matches(s.line, n)
      PROVE  Covered(Compiled(c), b, n)
  <2>1. CASE \E e \in c.manual : s = [action |-> e[1], line |-> e[2]]
    <3>1. PICK e \in c.manual : s = [action |-> e[1], line |-> e[2]] BY <2>1
    <3>2. e[1] = b /\ Matches(e[2], n) BY <1>7, <3>1
    <3>3. Covered(ByHand(e), b, n) BY <1>4, <3>2, ByHandCovers
    <3> QED BY <1>2, <3>3 DEF Covered
  <2>2. CASE \E f \in Feeds : \E i \in 1 .. c.feeds[f].n :
               s = [action |-> c.feeds[f].action, line |-> Lists[c.feeds[f].ver][i]]
    <3>1. PICK f \in Feeds : \E i \in 1 .. c.feeds[f].n :
            s = [action |-> c.feeds[f].action, line |-> Lists[c.feeds[f].ver][i]]
      BY <2>2
    <3>2. c.feeds[f].action = b /\ FeedMatches(c, f, n) BY <1>7, <3>1 DEF FeedMatches
    <3>3. Covered(Fetched(c, f), b, n) BY <3>2, FetchedCovers
    <3> QED BY <1>2, <3>3 DEF Covered
  <2> QED BY <1>3, <1>7, <2>1, <2>2
<1> QED BY <1>5, <1>6, <1>7 DEF Covered

LEMMA EngineDecides ==
  ASSUME NEW c \in Copies, FitCopy(c), NEW n \in Seq(STRING)
  PROVE  blocked(Compiled(c), n) <=>
           /\ \E s \in Source(c) : s.action = "block" /\ Matches(s.line, n)
           /\ ~\E s \in Source(c) : s.action = "allow" /\ Matches(s.line, n)
<1>1. PICK R : R = Compiled(c) OBVIOUS
<1>2. R \subseteq EngineRules BY <1>1, CompiledCovers
<1>3. \A b : filterHit(n, Patterns(R, b, FALSE), Patterns(R, b, TRUE)) <=>
             \E s \in Source(c) : s.action = b /\ Matches(s.line, n)
  <2> SUFFICES ASSUME NEW b
               PROVE  filterHit(n, Patterns(R, b, FALSE), Patterns(R, b, TRUE)) <=>
                        \E s \in Source(c) : s.action = b /\ Matches(s.line, n)
    OBVIOUS
  <2>1. filterHit(n, Patterns(R, b, FALSE), Patterns(R, b, TRUE)) <=>
          \E r \in R : r.action = b /\ Covers(r, n)
    BY <1>2, HitCovers
  <2>2. (\E r \in R : r.action = b /\ Covers(r, n)) <=>
          \E s \in Source(c) : s.action = b /\ Matches(s.line, n)
    BY <1>1, CompiledCovers DEF Covered
  <2> QED BY <2>1, <2>2
<1>4. filterHit(n, Patterns(R, "block", FALSE), Patterns(R, "block", TRUE))
        => \E r \in R : r.action = "block"
  BY <1>2, HitCovers
<1> QED BY <1>1, <1>3, <1>4 DEF blocked

(* Every copy of the table, and the table, holds rules that fit.           *)
FitInv ==
    /\ TypeOK
    /\ \A f \in Feeds : Fit(rules[f])
    /\ FitCopy(engine) /\ \A t \in Tasks : FitCopy(task[t].copy)

LEMMA NothingFits == FitCopy(Ended.copy) /\ Fit(NoRules) /\ FitCopy(Nothing)
BY DEF FitCopy, Ended, Nothing, Fit, NoRules

LEMMA FitStep == FitInv /\ [Next]_vars => FitInv'
<1> SUFFICES ASSUME FitInv, [Next]_vars PROVE FitInv' OBVIOUS
<1>t. TypeOK /\ TypeOK' BY TypeStep DEF FitInv
<1>w. Workers \subseteq Tasks BY DEF Tasks
<1>s. task \in [Tasks -> Slots] /\ remote \in 1 .. Len(Lists) BY <1>t DEF TypeOK
<1>1. ASSUME NEW t \in Tasks, NEW s, task' = [task EXCEPT ![t] = s], FitCopy(s.copy)
      PROVE  \A u \in Tasks : FitCopy(task'[u].copy)
  <2>1. \A u \in Tasks : task'[u] = s \/ task'[u] = task[u] BY <1>1, <1>s
  <2> QED BY <1>1, <2>1 DEF FitInv
<1>2. ASSUME UNCHANGED <<rules, engine>>, \A u \in Tasks : FitCopy(task'[u].copy)
      PROVE  FitInv'
  BY <1>2, <1>t DEF FitInv, FitCopy, Fit
<1>3. \A t \in Tasks : task[t] \in Slots /\ FitCopy(task[t].copy) BY <1>s DEF FitInv
<1>4. ASSUME NEW t \in Tasks, NEW ok, AfterSync(t, ok)
      PROVE  \A u \in Tasks : FitCopy(task'[u].copy)
  <2>1. PICK s : task' = [task EXCEPT ![t] = s]
               /\ (s = Ended \/ s = [Ended EXCEPT !.pc = "load"]
                    \/ \E f, todo, ch : s = [Ended EXCEPT !.pc = "begin", !.f = f, !.todo = todo,
                                                          !.changed = ch])
    BY <1>4, Zenon DEF AfterSync
  <2>2. s.copy = Ended.copy BY <2>1 DEF Ended
  <2> QED BY <2>1, <2>2, <1>1, NothingFits
<1>5. ASSUME NEW t \in Tasks, SyncBegin(t) PROVE FitInv'
  <2>1. \A u \in Tasks : FitCopy(task'[u].copy)
    <3>1. CASE \E ok \in BOOLEAN : AfterSync(t, ok) BY <3>1, <1>4
    <3>2. CASE task' = [task EXCEPT ![t].pc = "fetch", ![t].row = feed[task[t].f]]
      <4>1. \A u \in Tasks : task'[u].copy = task[u].copy BY <3>2, <1>s DEF Slots
      <4> QED BY <4>1, <1>3
    <3> QED BY <1>5, <3>1, <3>2 DEF SyncBegin
  <2> QED BY <1>5, <2>1, <1>2 DEF SyncBegin
<1>6. ASSUME NEW t \in Tasks, NotModified(t) \/ SyncEnds(t) \/ SyncFails(t) PROVE FitInv'
  <2>1. \E ok \in BOOLEAN : AfterSync(t, ok) BY <1>6 DEF NotModified, SyncEnds, SyncFails
  <2>2. UNCHANGED <<rules, engine>> BY <1>6 DEF NotModified, SyncEnds, SyncFails
  <2> QED BY <2>1, <2>2, <1>2, <1>4
<1>7. ASSUME NEW t \in Tasks, NEW n \in 0 .. Len(Lists[remote]), ReplaceFeedRules(t, n)
      PROVE  FitInv'
  <2>1. \A u \in Tasks : task'[u].copy = task[u].copy
    BY <1>7, <1>s DEF ReplaceFeedRules, Slots
  <2>2. PICK r : r = [action |-> task[t].row.action, ver |-> remote, n |-> n] OBVIOUS
  <2>3. n <= Len(Lists[remote]) BY <1>s, ListLengths
  <2>4. Fit(r) BY <2>2, <2>3, <1>s DEF Fit
  <2>5. \A f \in Feeds : rules'[f] = r \/ rules'[f] = rules[f]
    BY <1>7, <2>2, <1>t DEF ReplaceFeedRules, TypeOK
  <2>6. \A f \in Feeds : Fit(rules'[f]) BY <2>4, <2>5 DEF FitInv
  <2>7. UNCHANGED engine BY <1>7 DEF ReplaceFeedRules
  <2> QED BY <2>1, <2>6, <2>7, <1>3, <1>t DEF FitInv
<1>8. ASSUME NEW t \in Tasks, LoadRules(t) PROVE FitInv'
  <2>1. PICK c : c = [feeds |-> rules, manual |-> manual] OBVIOUS
  <2>2. FitCopy(c) BY <2>1 DEF FitCopy, FitInv
  <2>3. \A u \in Tasks : task'[u].copy = c \/ task'[u].copy = task[u].copy
    BY <1>8, <2>1, <1>s DEF LoadRules, Slots
  <2> QED BY <1>8, <2>2, <2>3, <1>2, <1>3 DEF LoadRules
<1>9. ASSUME NEW t \in Tasks, Publish(t) PROVE FitInv'
  <2>1. \A u \in Tasks : FitCopy(task'[u].copy) BY <1>9, <1>1, NothingFits DEF Publish, End
  <2>2. FitCopy(engine') /\ UNCHANGED rules BY <1>9, <1>3 DEF Publish
  <2> QED BY <2>1, <2>2, <1>t DEF FitInv
<1>f. ASSUME NEW t \in Tasks, LoadFails(t) PROVE FitInv'
  <2>1. \A u \in Tasks : FitCopy(task'[u].copy) BY <1>f, <1>1, NothingFits DEF LoadFails, End
  <2> QED BY <1>f, <2>1, <1>2 DEF LoadFails
<1>a. ASSUME NEW w \in Workers, NEW f, Start(w, f) \/ ThenPublish(w) \/ End(w) \/ UNCHANGED task
      PROVE  \A u \in Tasks : FitCopy(task'[u].copy)
  <2>1. CASE UNCHANGED task BY <2>1, <1>3
  <2>2. ASSUME NEW s, s \in {Ended, [Ended EXCEPT !.pc = "load"],
                              [Ended EXCEPT !.pc = "begin", !.f = f]},
               task' = [task EXCEPT ![w] = s]
        PROVE  \A u \in Tasks : FitCopy(task'[u].copy)
    <3>1. s.copy = Ended.copy BY <2>2 DEF Ended
    <3> QED BY <2>2, <3>1, <1>1, <1>w, NothingFits
  <2> QED BY <1>a, <2>1, <2>2 DEF Start, ThenPublish, End
<1>10. ASSUME NEW w \in Workers, NEW f \in Feeds, NEW a \in Actions, NEW said,
              CreateFeed(w, f, a, said)
       PROVE  FitInv'
  <2>1. Start(w, f) \/ UNCHANGED task BY <1>10 DEF CreateFeed
  <2> QED BY <1>10, <2>1, <1>a, <1>2 DEF CreateFeed
<1>11. ASSUME NEW w \in Workers, NEW f \in Feeds, NEW said, PatchFeed(w, f, said) PROVE FitInv'
  <2>1. PICK s : s = [Ended EXCEPT !.pc = "patch", !.f = f,
                    !.row = [feed[f] EXCEPT !.sync = NormalizeFilterSync(said)]]
    OBVIOUS
  <2>2. task' = [task EXCEPT ![w] = s] BY <1>11, <2>1 DEF PatchFeed
  <2>3. s.copy = Ended.copy BY <2>1 DEF Ended
  <2> QED BY <1>11, <2>2, <2>3, <1>1, <1>2, <1>w, NothingFits DEF PatchFeed
<1>12. ASSUME NEW w \in Workers, NEW f \in Feeds, SyncFeed(w, f) PROVE FitInv'
  BY <1>12, <1>a, <1>2 DEF SyncFeed
<1>13. ASSUME NEW w \in Workers, NEW f \in Feeds, DeleteFeed(w, f) PROVE FitInv'
  <2>1. \A g \in Feeds : rules'[g] = NoRules \/ rules'[g] = rules[g]
    BY <1>13, <1>t DEF DeleteFeed, TypeOK
  <2>2. \A g \in Feeds : Fit(rules'[g]) BY <2>1, NothingFits DEF FitInv
  <2>3. \A u \in Tasks : FitCopy(task'[u].copy) BY <1>13, <1>a DEF DeleteFeed
  <2> QED BY <1>13, <2>2, <2>3, <1>t DEF DeleteFeed, FitInv
<1>14. ASSUME NEW w \in Workers, NEW r, CreateFilterRule(w, r) \/ DeleteFilterRule(w, r)
       PROVE  FitInv'
  BY <1>14, <1>a, <1>2 DEF CreateFilterRule, DeleteFilterRule
<1>15. ASSUME NEW w \in Workers, PatchWrite(w) PROVE FitInv'
  BY <1>15, <1>a, <1>2 DEF PatchWrite
<1>16. ASSUME Tick PROVE FitInv'
  <2>1. "loop" \in Tasks BY DEF Tasks
  <2>2. PICK f \in Feeds : task' = [task EXCEPT !["loop"] =
            [Ended EXCEPT !.pc = "begin", !.f = f, !.todo = {g \in Feeds : Due(g)} \ {f}]]
    BY <1>16 DEF Tick
  <2>3. PICK s : s = [Ended EXCEPT !.pc = "begin", !.f = f, !.todo = {g \in Feeds : Due(g)} \ {f}]
    OBVIOUS
  <2>4. s.copy = Ended.copy BY <2>3 DEF Ended
  <2>5. \A u \in Tasks : FitCopy(task'[u].copy) BY <2>1, <2>2, <2>3, <2>4, <1>1, NothingFits
  <2> QED BY <1>16, <2>5, <1>2 DEF Tick
<1>17. ASSUME TimePasses PROVE FitInv'
  <2>1. \A u \in Tasks : task'[u].copy = task[u].copy BY <1>17, <1>s DEF TimePasses, Slots
  <2> QED BY <1>17, <2>1, <1>2, <1>3 DEF TimePasses
<1>18. ASSUME Crash PROVE FitInv'
  <2>1. \A g \in Feeds : rules'[g] = NoRules \/ rules'[g] = rules[g]
    BY <1>18, <1>t DEF Crash, TypeOK
  <2>2. \A g \in Feeds : Fit(rules'[g]) BY <2>1, NothingFits DEF FitInv
  <2>3. FitCopy(engine') BY <1>18, <2>2, NothingFits DEF Crash, FitCopy
  <2>4. \A u \in Tasks : FitCopy(task'[u].copy) BY <1>18, NothingFits DEF Crash
  <2> QED BY <2>2, <2>3, <2>4, <1>t DEF FitInv
<1>19. ASSUME ListChanges \/ UNCHANGED vars PROVE FitInv'
  <2>1. UNCHANGED <<rules, engine, task>> BY <1>19 DEF ListChanges, vars
  <2> QED BY <2>1, <1>2, <1>3
<1> QED
  BY <1>5, <1>6, <1>7, <1>8, <1>9, <1>10, <1>11, <1>12, <1>13, <1>14, <1>15, <1>16, <1>17,
     <1>18, <1>19, <1>f DEF Next, Step

(* A name is blocked exactly if a line of a block list or a rule matches   *)
(* it and none that allows does, whatever lists were fetched, in whole or  *)
(* in part, and whatever copy of the table the engine was given: the maps  *)
(* and the walk over the parents of a name lose nothing and add nothing    *)
(* (parseFilterList, replace, filterHit, blocked).                         *)
THEOREM AllowDecides == Spec => []AllowWins
<1>1. Init => FitInv
  <2> SUFFICES ASSUME Init PROVE FitInv OBVIOUS
  <2> QED BY InitTyped, NothingFits DEF Init, FitInv
<1>2. FitInv => AllowWins
  <2> SUFFICES ASSUME FitInv, NEW n \in Names
               PROVE  blocked(Compiled(engine), n) <=>
                        /\ \E s \in Source(engine) : s.action = "block" /\ Matches(s.line, n)
                        /\ ~\E s \in Source(engine) : s.action = "allow" /\ Matches(s.line, n)
    BY DEF AllowWins
  <2>1. n \in Seq(STRING) /\ engine \in Copies /\ FitCopy(engine)
    BY FilterAssumption DEF FitInv, TypeOK
  <2> QED BY <2>1, EngineDecides
<1> QED BY <1>1, <1>2, FitStep, PTL DEF Spec
=============================================================================
