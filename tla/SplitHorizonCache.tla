------------------------- MODULE SplitHorizonCache -------------------------
(***************************************************************************)
(* The cache in front of the zones (split-horizon-cache/handler.go,        *)
(* cache.go, item.go) and the epoch that outdates it                       *)
(* (internal/cachegen/cachegen.go).                                        *)
(*                                                                         *)
(* One question is asked, by clients of several scopes.  What the backend  *)
(* answers depends on the scope of the client and on the version of the    *)
(* data, both read when the backend runs; the cache files the answer under *)
(* the scope it found when the query arrived and the epoch it finds when   *)
(* the answer is written.  The 64-bit hash of the key is taken as exact.   *)
(*                                                                         *)
(* Most changes of the zones and the ACLs are followed by cachegen.Bump.   *)
(* Some are not: a zone that is deleted, a view that is dropped, and a     *)
(* zone or view whose only Bump comes before it can be asked.              *)
(*                                                                         *)
(* A query is served by one goroutine and may leave a second one behind    *)
(* that refreshes the item it was served.  The clock is in seconds.        *)
(***************************************************************************)
EXTENDS Integers, Sequences, FiniteSets

CONSTANTS
    Clients,
    Scopes,          \* ACL names and "public"
    StartPolicy,     \* the ACLs at the start: a function from clients to scopes
    Policies,        \* what they may be changed to
    Workers,         \* goroutines inside ServeDNS
    Configs,         \* settings of the plugin, and what the backend may answer
    TTLs,            \* and with which TTL, after computeTTL
    MaxEpoch, MaxQueries, MaxEvents    \* bounds: the last is on ticks, changes
                                       \* and evictions together

Kinds == {"answer",      \* NOERROR that answers the question
          "empty",       \* NOERROR that does not: referral, additional data only
          "denial",      \* NXDOMAIN or NODATA with an SOA
          "servfail",
          "bare",        \* NOERROR or NXDOMAIN that is not to be cached
          "other"}       \* truncated, or another error

ASSUME CacheAssumption ==
    /\ Clients # {}
    /\ StartPolicy \in [Clients -> Scopes] /\ Policies \subseteq [Clients -> Scopes]
    /\ TTLs \subseteq Nat
    /\ Configs \subseteq [prefetch : BOOLEAN, staleUpTo : Nat,
                          mode : {"immediate", "verify", "timeout"},
                          preferPositive : BOOLEAN, recheck : Nat,
                          except : SUBSET {"success", "denial"},
                          answers : SUBSET Kinds]
    /\ MaxEpoch \in Nat /\ MaxQueries \in Nat /\ MaxEvents \in Nat

Keys    == Scopes \X (0 .. MaxEpoch)
Answers == [kind : Kinds, scope : Scopes, ver : Nat, unsaid : Nat, ttl : Nat]
Items   == [ans : Answers, stored : Nat, lkg : Nat, late : BOOLEAN]

VARIABLES
    clock,
    data,        \* version of the zones and ACLs, by the changes with a Bump
    unsaid,      \* and by those without
    policy,      \* the ACLs in force
    epoch,       \* cachegen.epoch
    unbumped,    \* changes made whose Bump is still to come
    cfg,
    items,       \* every item ever made; caches hold indexes into it, 0 is nil
    pcache, ncache,
    refreshing,  \* items whose refreshing flag is set
    retryAfter,  \* per item, 0 when unset
    wait,        \* per worker: does its client wait for a call of the backend?
    task,        \* per worker, the call of the backend it makes or has left
    asked,       \* queries so far, for the bound
    events,      \* ticks, changes and evictions so far, for the bound
    told,        \* history: unsaid at the last Bump
    best         \* history: per key, the last answering item stored

vars == <<clock, data, unsaid, policy, epoch, unbumped, cfg, items, pcache, ncache,
          refreshing, retryAfter, wait, task, asked, events, told, best>>

caches == <<items, pcache, ncache, retryAfter, best>>

(* Everything outside the cache but the clock.                             *)
world == <<data, unsaid, policy, epoch, unbumped, told>>

NoAnswer == [kind |-> "other", scope |-> CHOOSE s \in Scopes : TRUE, ver |-> 0,
             unsaid |-> 0, ttl |-> 0]
NoTask   == [pc |-> "idle", client |-> CHOOSE c \in Clients : TRUE,
             src |-> CHOOSE s \in Scopes : TRUE, item |-> 0, stale |-> FALSE,
             track |-> FALSE, quiet |-> FALSE, ans |-> NoAnswer,
             began |-> 0, ep |-> 0, lkg |-> 0, refreshed |-> FALSE]

Calls ==
    [pc : {"idle", "look", "ask", "peek", "store", "drop", "end"}, client : Clients, src : Scopes, item : Nat,
     stale : BOOLEAN, track : BOOLEAN, quiet : BOOLEAN, ans : Answers,
     began : 0 .. MaxEpoch, ep : 0 .. MaxEpoch, lkg : Nat, refreshed : BOOLEAN]

(* The variables keep their types: the caches hold items that were made,   *)
(* an item covers only an older one, every item has a deadline, and a call *)
(* that has set a flag knows which.                                        *)
TypeOK ==
    /\ clock \in Nat /\ data \in Nat /\ unsaid \in Nat /\ told \in 0 .. unsaid
    /\ policy \in [Clients -> Scopes] /\ cfg \in Configs
    /\ epoch \in Nat /\ unbumped \in Nat /\ epoch + unbumped <= MaxEpoch
    /\ items \in Seq(Items) /\ \A i \in DOMAIN items : items[i].lkg < i
    /\ pcache \in [Keys -> 0 .. Len(items)] /\ ncache \in [Keys -> 0 .. Len(items)]
    /\ best \in [Keys -> 0 .. Len(items)]
    /\ refreshing \subseteq DOMAIN items
    /\ retryAfter \in Seq(Nat) /\ Len(retryAfter) = Len(items)
    /\ wait \in [Workers -> {"no", "call", "race"}]
    /\ task \in [Workers -> Calls]
    /\ \A w \in Workers : /\ task[w].item \in 0 .. Len(items)
                          /\ task[w].lkg \in 0 .. Len(items)
                          /\ task[w].track => task[w].item # 0
    /\ asked \in 0 .. MaxQueries /\ events \in 0 .. MaxEvents

Init ==
    /\ clock = 0 /\ data = 0 /\ unsaid = 0 /\ told = 0 /\ policy = StartPolicy
    /\ epoch = 0 /\ unbumped = 0
    /\ cfg \in Configs
    /\ items = << >> /\ retryAfter = << >> /\ refreshing = {}
    /\ pcache = [k \in Keys |-> 0] /\ ncache = [k \in Keys |-> 0]
    /\ wait = [w \in Workers |-> "no"] /\ task = [w \in Workers |-> NoTask]
    /\ asked = 0 /\ events = 0
    /\ best = [k \in Keys |-> 0]

----------------------------------------------------------------------------
(* The world around the cache.                                             *)

Event == events < MaxEvents /\ events' = events + 1

Tick ==
    /\ Event /\ clock' = clock + 1
    /\ UNCHANGED <<cfg, refreshing, wait, task, asked>> /\ UNCHANGED world /\ UNCHANGED caches

(* A zone or the ACLs change, and cachegen.Bump follows: an update, an     *)
(* edit or a transfer that is swapped in, an ACL that is saved, renamed or *)
(* deleted.                                                                *)
Mutate(p) ==
    /\ epoch + unbumped < MaxEpoch /\ Event
    /\ data' = data + 1 /\ policy' = p /\ unbumped' = unbumped + 1
    /\ UNCHANGED <<clock, unsaid, told, epoch, cfg, refreshing, wait, task, asked>>
    /\ UNCHANGED caches

(* A zone changes and no Bump follows: it is deleted, a view of it is      *)
(* dropped (with its zone, or for an ACL that is no longer there), or it   *)
(* is registered after the Bump of the constructor that made it.           *)
MutateSilently ==
    /\ Event /\ unsaid' = unsaid + 1
    /\ UNCHANGED <<clock, data, told, policy, epoch, unbumped, cfg, refreshing, wait, task, asked>>
    /\ UNCHANGED caches

Bump ==
    /\ unbumped > 0 /\ unbumped' = unbumped - 1
    /\ epoch' = epoch + 1 /\ told' = unsaid
    /\ UNCHANGED <<clock, data, unsaid, policy, cfg, refreshing, wait, task, asked, events>>
    /\ UNCHANGED caches

(* A full shard drops an entry when another one comes.                     *)
Evict(k) ==
    /\ \/ pcache[k] # 0 /\ pcache' = [pcache EXCEPT ![k] = 0] /\ UNCHANGED ncache
       \/ ncache[k] # 0 /\ ncache' = [ncache EXCEPT ![k] = 0] /\ UNCHANGED pcache
    /\ best' = [best EXCEPT ![k] = 0] /\ Event
    /\ UNCHANGED <<clock, cfg, items, refreshing, retryAfter, wait, task, asked>>
    /\ UNCHANGED world

----------------------------------------------------------------------------
(* Looking up.                                                             *)

ttl(i, now) == items[i].ans.ttl - (now - items[i].stored)

InTime(i, now) == ttl(i, now) > 0 \/ -ttl(i, now) < cfg.staleUpTo

answering(i) == items[i].ans.kind = "answer"

(* The item itself or the good one it covers; 0 if neither answers.        *)
answeringItem(i) ==
    IF i = 0 THEN 0
    ELSE IF answering(i) THEN i
    ELSE IF items[i].lkg # 0 /\ answering(items[i].lkg) THEN items[i].lkg ELSE 0

getIfNotStale(k, now) ==
    LET p    == pcache[k]
        n    == ncache[k]
        good == answeringItem(p)
    IN  CASE cfg.preferPositive /\ cfg.staleUpTo > 0 /\ good # 0 /\ InTime(good, now)
                -> good
          [] OTHER ->
              IF n # 0 /\ InTime(n, now)
              THEN IF items[n].ans.kind = "servfail" /\ p # 0 /\ InTime(p, now)
                   THEN p ELSE n
              ELSE IF p # 0 /\ InTime(p, now) THEN p ELSE 0

(* A slip: the epoch is left out of the hash.                              *)
KeyNowScopeOnly(src) == <<src, 0>>

(* hash: the epoch is part of the key.                                     *)
KeyNow(src) == <<src, epoch>>

----------------------------------------------------------------------------
(* ServeDNS.                                                               *)

(* The matcher that admin registers gives every address that parses the    *)
(* name of an ACL, or "public".  A query of an address that does not parse *)
(* gets past the cache and leaves it as it is; without a matcher, which is *)
(* left to tests, the scopes are networks and the ACLs never change.       *)
keySrc(c) == policy[c]

(* A query is taken by a worker that has nothing else to do.               *)
Arrive(w, c) ==
    /\ wait[w] = "no" /\ task[w].pc = "idle"
    /\ asked < MaxQueries /\ asked' = asked + 1
    /\ task' = [task EXCEPT ![w] = [NoTask EXCEPT !.pc = "look", !.client = c,
                                                  !.src = keySrc(c), !.began = epoch]]
    /\ UNCHANGED <<clock, cfg, refreshing, wait, events>>
    /\ UNCHANGED world /\ UNCHANGED caches

(* A slip: the call is not told which item it refreshes.                   *)
CallItemless(w, i, stale, track, quiet) ==
    [task[w] EXCEPT !.pc = "ask", !.stale = stale, !.track = track, !.quiet = quiet]

(* The start of a call of the backend.                                     *)
Call(w, i, stale, track, quiet) ==
    [task[w] EXCEPT !.pc = "ask", !.item = i, !.stale = stale, !.track = track, !.quiet = quiet]

(* A slip: the deadline is looked at and the flag is not.                  *)
beginRefreshAlways(i, recheck) == recheck > 0 => clock >= retryAfter[i]

beginRefresh(i, recheck) ==
    /\ i \notin refreshing
    /\ recheck > 0 => clock >= retryAfter[i]

(* What the cache has for the scope the client had on arrival.             *)
Found(w) == getIfNotStale(KeyNow(task[w].src), clock)

Miss(w) ==
    /\ task[w].pc = "look" /\ Found(w) = 0
    /\ wait' = [wait EXCEPT ![w] = "call"]
    /\ task' = [task EXCEPT ![w] = Call(w, 0, FALSE, FALSE, FALSE)]
    /\ UNCHANGED <<clock, cfg, refreshing, asked, events>>
    /\ UNCHANGED world /\ UNCHANGED caches

(* A fresh item is the answer; it may be popular enough and old enough to  *)
(* be refreshed.                                                           *)
Hit(w) ==
    LET i == Found(w) IN
      /\ task[w].pc = "look" /\ i # 0 /\ ttl(i, clock) > 0
      /\ \/ /\ cfg.prefetch /\ beginRefresh(i, 0)
            /\ task' = [task EXCEPT ![w] = Call(w, i, FALSE, TRUE, TRUE)]
            /\ refreshing' = refreshing \cup {i}
         \/ task' = [task EXCEPT ![w] = NoTask] /\ UNCHANGED refreshing
      /\ UNCHANGED <<clock, cfg, wait, asked, events>>
      /\ UNCHANGED world /\ UNCHANGED caches

(* A stale item is the answer at once and refreshed behind the client's    *)
(* back, or refreshed first.                                               *)
HitStale(w) ==
    LET i     == Found(w)
        track == cfg.recheck > 0
    IN  /\ task[w].pc = "look" /\ i # 0 /\ ttl(i, clock) <= 0
        /\ \/ /\ cfg.mode = "immediate" /\ beginRefresh(i, cfg.recheck)
              /\ task' = [task EXCEPT ![w] = Call(w, i, TRUE, TRUE, TRUE)]
              /\ refreshing' = refreshing \cup {i}
              /\ UNCHANGED wait
           \/ /\ cfg.mode # "immediate" /\ (track => beginRefresh(i, cfg.recheck))
              /\ wait' = [wait EXCEPT ![w] = IF cfg.mode = "verify" THEN "call" ELSE "race"]
              /\ task' = [task EXCEPT ![w] = Call(w, i, TRUE, track, cfg.mode = "timeout")]
              /\ refreshing' = IF track THEN refreshing \cup {i} ELSE refreshing
           \/ /\ (cfg.mode = "immediate" \/ track) /\ ~beginRefresh(i, cfg.recheck)
              /\ task' = [task EXCEPT ![w] = NoTask]
              /\ UNCHANGED <<wait, refreshing>>
        /\ UNCHANGED <<clock, cfg, asked, events>>
        /\ UNCHANGED world /\ UNCHANGED caches

(* verifyWithTimeout: the timer is first and the client gets the stale     *)
(* item.                                                                   *)
Timeout(w) ==
    /\ wait[w] = "race" /\ wait' = [wait EXCEPT ![w] = "no"]
    /\ UNCHANGED <<clock, cfg, refreshing, task, asked, events>>
    /\ UNCHANGED world /\ UNCHANGED caches

----------------------------------------------------------------------------
(* doRefresh: the backend, the response writers and the end of the call.   *)

(* A slip: a prefetch is made in the name of the server itself.            *)
remoteSelf(w) == IF task[w].quiet THEN CHOOSE c \in Clients : keySrc(c) = "public"
                                  ELSE task[w].client

(* The backend sees the client the query came from, in a prefetch too.     *)
remote(w) == task[w].client

Backend(w, kind, t) ==
    /\ task[w].pc = "ask"
    /\ task' = [task EXCEPT ![w].pc = "peek", ![w].ans =
                  [kind |-> kind, scope |-> policy[remote(w)], ver |-> data,
                   unsaid |-> unsaid, ttl |-> t]]
    /\ UNCHANGED <<clock, cfg, refreshing, wait, asked, events>>
    /\ UNCHANGED world /\ UNCHANGED caches

(* verifyStaleResponseWriter: does the answer count as a refresh?          *)
Refreshes(kind) ==
    IF cfg.preferPositive THEN kind = "answer"
                          ELSE kind \in {"answer", "empty", "denial", "bare"}

(* The exceptions are given to the writer of a miss and not to that of a   *)
(* refresh.                                                                *)
Excepted(w) ==
    /\ task[w].item = 0
    /\ \/ task[w].ans.kind \in {"answer", "empty"} /\ "success" \in cfg.except
       \/ task[w].ans.kind \in {"denial", "servfail"} /\ "denial" \in cfg.except

(* Is it handed on to be cached, and to be kept?                           *)
HandedOn(w) ==
    LET x == task[w] IN
      /\ x.ans.kind \notin {"bare", "other"} /\ x.ans.ttl > 0
      /\ x.stale /\ ~cfg.preferPositive => Refreshes(x.ans.kind)
      /\ ~Excepted(w)

(* The answer is dealt with.  A refresh has its item's flag to clear; any  *)
(* other call is over, and a client that waits for it has its answer.      *)
Settle(w, refreshed) ==
    LET x == task[w] IN
      /\ task' = [task EXCEPT ![w] =
           IF x.track THEN [NoTask EXCEPT !.pc = "end", !.item = x.item, !.stale = x.stale,
                                          !.track = TRUE, !.refreshed = refreshed]
           ELSE NoTask]
      /\ wait' = [wait EXCEPT ![w] = IF x.track THEN @ ELSE "no"]

(* WriteMsg: the key, with the epoch of this moment, and set's look at the *)
(* item that is there.                                                     *)
Peek(w) ==
    LET x == task[w]
        k == KeyNow(x.src)
        refreshed == x.stale => Refreshes(x.ans.kind)
    IN  /\ x.pc = "peek"
        /\ \/ /\ HandedOn(w) /\ UNCHANGED wait
              /\ task' = [task EXCEPT
                   ![w].pc = "store", ![w].ep = epoch, ![w].refreshed = refreshed,
                   ![w].lkg = IF cfg.preferPositive THEN answeringItem(pcache[k]) ELSE 0]
           \/ ~HandedOn(w) /\ Settle(w, refreshed)
        /\ UNCHANGED <<clock, cfg, refreshing, asked, events>>
        /\ UNCHANGED world /\ UNCHANGED caches

(* A slip: the new item covers nothing.                                    *)
CoversNothing(w) == 0

(* The good answer an item that does not answer keeps.                     *)
lastKnownGood(w) == IF task[w].ans.kind = "empty" THEN task[w].lkg ELSE 0

(* Does the new item make a denial obsolete?                               *)
Obsoletes(w) ==
    LET x     == task[w]
        quiet == x.quiet \/ (x.stale /\ ~x.refreshed)
    IN  /\ x.ans.kind \in {"answer", "empty"}
        /\ \/ ~cfg.preferPositive /\ quiet
           \/ cfg.preferPositive /\ x.ans.kind = "answer"

(* set: the new item takes its place; it has no deadline yet.              *)
set(w) ==
    LET x  == task[w]
        k  == <<x.src, x.ep>>
        id == Len(items) + 1
    IN  /\ items' = Append(items, [ans |-> x.ans, stored |-> clock, lkg |-> lastKnownGood(w),
                                   late |-> x.began # x.ep])
        /\ retryAfter' = Append(retryAfter, 0)
        /\ \/ /\ x.ans.kind \in {"answer", "empty"}
              /\ pcache' = [pcache EXCEPT ![k] = id] /\ UNCHANGED ncache
           \/ /\ x.ans.kind \in {"denial", "servfail"}
              /\ ncache' = [ncache EXCEPT ![k] = id] /\ UNCHANGED pcache
        /\ best' = [best EXCEPT ![k] =
             IF x.ans.kind = "answer" THEN id
             ELSE IF x.ans.kind = "empty" /\ x.lkg # @ THEN 0 ELSE @]

Store(w) ==
    /\ task[w].pc = "store" /\ set(w)
    /\ \/ /\ Obsoletes(w) /\ UNCHANGED wait
          /\ task' = [task EXCEPT ![w].pc = "drop"]
       \/ ~Obsoletes(w) /\ Settle(w, task[w].refreshed)
    /\ UNCHANGED <<clock, cfg, refreshing, asked, events>> /\ UNCHANGED world

(* The denial under the same key goes: whichever is there by now.          *)
Drop(w) ==
    /\ task[w].pc = "drop"
    /\ ncache' = [ncache EXCEPT ![<<task[w].src, task[w].ep>>] = 0]
    /\ Settle(w, task[w].refreshed)
    /\ UNCHANGED <<clock, cfg, items, pcache, retryAfter, best, refreshing, asked, events>>
    /\ UNCHANGED world

(* A slip: the flag is cleared only if the refresh went well.              *)
endRefreshGood(w) ==
    /\ refreshing' = IF task[w].refreshed THEN refreshing \ {task[w].item} ELSE refreshing
    /\ UNCHANGED retryAfter

endRefresh(w) ==
    LET x == task[w] IN
      /\ refreshing' = refreshing \ {x.item}
      /\ retryAfter' = [retryAfter EXCEPT ![x.item] =
           IF x.stale /\ cfg.recheck > 0 /\ ~x.refreshed THEN clock + cfg.recheck ELSE 0]

(* A refresh is over; a client that waits has its answer, or the stale one. *)
Return(w) ==
    /\ task[w].pc = "end" /\ endRefresh(w)
    /\ task' = [task EXCEPT ![w] = NoTask]
    /\ wait' = [wait EXCEPT ![w] = "no"]
    /\ UNCHANGED <<clock, cfg, items, pcache, ncache, best, asked, events>> /\ UNCHANGED world

----------------------------------------------------------------------------
Work(w) ==
    \/ Miss(w) \/ Hit(w) \/ HitStale(w)
    \/ Peek(w) \/ Store(w) \/ Drop(w) \/ Return(w)
    \/ \E kind \in cfg.answers, t \in TTLs : Backend(w, kind, t)

Next ==
    \/ Tick \/ Bump \/ MutateSilently
    \/ \E p \in Policies : Mutate(p)
    \/ \E k \in Keys : Evict(k)
    \/ \E w \in Workers :
         \/ Work(w) \/ Timeout(w)
         \/ \E c \in Clients : Arrive(w, c)

Spec == Init /\ [][Next]_vars

----------------------------------------------------------------------------
(* Properties.                                                             *)

(* The items a client of a scope can be given now, with the good ones they *)
(* cover.                                                                  *)
Given(src) ==
    LET held == {pcache[KeyNow(src)], ncache[KeyNow(src)]} \ {0}
    IN  held \cup ({items[i].lkg : i \in held} \ {0})

(* Without those of a call that was under way while Bump was called: it    *)
(* took the client's scope, and may have asked the backend, before the     *)
(* change, and is filed under the epoch that follows it.                   *)
InForce(src) == {i \in Given(src) : ~items[i].late}

(* Once every change that is to have a Bump has it, what the cache gives a *)
(* client was made for the client's scope as the ACLs define it now,       *)
(* whoever caused it to be stored: clients of different scopes "never see  *)
(* each other's answers" (keySrc, newPrefetchResponseWriter).  Items of    *)
(* calls that a Bump overtook are left out.                                *)
ScopeKept ==
    unbumped = 0 => \A src \in Scopes : \A i \in InForce(src) : items[i].ans.scope = src

(* No answer outlives the next Bump: once every change that is to have one *)
(* has it, what the cache gives a client knows of all those changes, and   *)
(* of the changes without a Bump it knows those that came before the last  *)
(* one (hash, cachegen.Bump).  Items of calls that a Bump overtook are     *)
(* left out; EpochOutdates is about them and about the changes since.      *)
NothingOutlives ==
    unbumped = 0 => \A src \in Scopes : \A i \in InForce(src) :
                      items[i].ans.ver = data /\ items[i].ans.unsaid >= told

(* What cachegen says of the epoch: "Bump it after a zone or ACL mutation  *)
(* so a cached public wildcard cannot outlive the view record that should  *)
(* replace it".  Whatever the change, once no Bump is to come everything a *)
(* client can be given is of the zones and ACLs as they are.  It fails: no *)
(* Bump follows a deletion or a registration, and a call that a Bump       *)
(* overtakes files what it was told before under the new epoch.            *)
EpochOutdates ==
    unbumped = 0 => \A src \in Scopes : \A i \in Given(src) :
                      items[i].ans.ver = data /\ items[i].ans.unsaid = unsaid

(* "Concurrent requests that trigger a prefetch for the same cache entry   *)
(* dispatch at most one background fetch" (beginRefresh's CAS).            *)
OneRefresh ==
    \A v, w \in Workers :
      v # w /\ task[v].track /\ task[w].track => task[v].item # task[w].item

(* A refreshing flag is set exactly while a call is under way that will    *)
(* clear it: no item is left that is never refreshed again.                *)
FlagHeld ==
    refreshing = {task[w].item : w \in {v \in Workers : task[v].track}}

(* Under prefer_positive, an answer that was stored is found again until   *)
(* it is too old, evicted or replaced by a better one: "such a refresh     *)
(* cannot destroy the last-known-good answer" (set, answeringItem).  A     *)
(* writer that looked before the answer was stored and stores after it is  *)
(* not covered.                                                            *)
GoodAnswerKept ==
    cfg.preferPositive /\ cfg.staleUpTo > 0 =>
      \A k \in Keys : best[k] # 0 => answeringItem(pcache[k]) = best[k]
=============================================================================
