---------------------- MODULE SplitHorizonCacheProofs ----------------------
(***************************************************************************)
(* Proofs about SplitHorizonCache, for any clients, scopes, ACLs, settings *)
(* and goroutines, and for every bound: types, the refreshing flag, and    *)
(* what an epoch promises of the answers filed under it; and about how     *)
(* CacheAnswers classifies a message, for any names and any question.      *)
(***************************************************************************)
EXTENDS CacheComposed, FiniteSetTheorems, SequenceTheorems, WellFoundedInduction, TLAPS

LEMMA NoTaskTyped ==
  /\ NoTask \in Calls /\ NoTask.pc = "idle" /\ ~NoTask.track
  /\ NoTask.item = 0 /\ NoTask.lkg = 0
<1>1. \E s : s \in Scopes BY CacheAssumption
<1>2. (CHOOSE s \in Scopes : TRUE) \in Scopes BY <1>1
<1>3. (CHOOSE c \in Clients : TRUE) \in Clients BY CacheAssumption
<1>4. NoAnswer \in Answers BY <1>2 DEF NoAnswer, Answers, Kinds
<1>5. 0 \in 0 .. MaxEpoch BY CacheAssumption
<1> QED BY <1>2, <1>3, <1>4, <1>5 DEF NoTask, Calls

LEMMA KeyTyped == ASSUME TypeOK, NEW src \in Scopes PROVE KeyNow(src) \in Keys
<1>1. epoch \in 0 .. MaxEpoch BY CacheAssumption DEF TypeOK
<1> QED BY <1>1 DEF KeyNow, Keys

LEMMA ItemFacts ==
  ASSUME TypeOK
  PROVE  /\ Len(items) \in Nat /\ DOMAIN items = 1 .. Len(items)
         /\ \A i \in 1 .. Len(items) : /\ items[i] \in Items /\ items[i].lkg \in 0 .. Len(items)
                                       /\ items[i].ans \in Answers
<1>1. items \in Seq(Items) BY DEF TypeOK
<1>2. Len(items) \in Nat /\ DOMAIN items = 1 .. Len(items) BY <1>1
<1>3. \A i \in 1 .. Len(items) : items[i] \in Items BY <1>1
<1>4. \A i \in 1 .. Len(items) : /\ items[i].lkg \in Nat /\ items[i].lkg < i
                                 /\ items[i].ans \in Answers
  BY <1>2, <1>3 DEF TypeOK, Items
<1> QED BY <1>2, <1>3, <1>4

LEMMA AnsweringTyped ==
  ASSUME TypeOK, NEW i \in 0 .. Len(items)
  PROVE  answeringItem(i) \in 0 .. Len(items)
BY ItemFacts DEF answeringItem

(* What is found is nothing, or an item in the caches or covered by one.   *)
LEMMA FoundTyped == ASSUME TypeOK, NEW w \in Workers PROVE Found(w) \in 0 .. Len(items)
<1> DEFINE k == KeyNow(task[w].src)
<1>1. task[w].src \in Scopes BY DEF TypeOK, Calls
<1>2. k \in Keys BY <1>1, KeyTyped
<1>3. pcache[k] \in 0 .. Len(items) /\ ncache[k] \in 0 .. Len(items) BY <1>2 DEF TypeOK
<1>4. answeringItem(pcache[k]) \in 0 .. Len(items) BY <1>3, AnsweringTyped
<1>5. 0 \in 0 .. Len(items) BY ItemFacts
<1> HIDE DEF k
<1> QED BY <1>3, <1>4, <1>5 DEF Found, k, getIfNotStale

LEMMA CallTyped ==
  ASSUME TypeOK, NEW w \in Workers, NEW i \in 0 .. Len(items), NEW stale \in BOOLEAN,
         NEW track \in BOOLEAN, NEW quiet \in BOOLEAN
  PROVE  LET x == Call(w, i, stale, track, quiet) IN
           /\ x \in Calls /\ x.pc = "ask" /\ x.client = task[w].client /\ x.src = task[w].src
           /\ x.item = i /\ x.track = track /\ x.lkg = task[w].lkg /\ x.began = task[w].began
<1>1. task[w] \in Calls BY DEF TypeOK
<1>2. i \in Nat BY ItemFacts
<1> QED BY <1>1, <1>2 DEF Call, Calls

LEMMA ArriveTyped ==
  ASSUME TypeOK, NEW c \in Clients
  PROVE  LET x == [NoTask EXCEPT !.pc = "look", !.client = c, !.src = keySrc(c), !.began = epoch]
         IN  /\ x \in Calls /\ x.pc = "look" /\ x.client = c /\ x.src = policy[c]
             /\ x.began = epoch /\ ~x.track /\ x.item = 0 /\ x.lkg = 0
<1>1. keySrc(c) \in Scopes /\ keySrc(c) = policy[c] BY DEF keySrc, TypeOK
<1>2. epoch \in 0 .. MaxEpoch BY CacheAssumption DEF TypeOK
<1> QED BY <1>1, <1>2, NoTaskTyped DEF Calls, NoTask

(* A tracked call that has only its flag to clear.                         *)
Ending(w, refreshed) ==
    [NoTask EXCEPT !.pc = "end", !.item = task[w].item, !.stale = task[w].stale,
                   !.track = TRUE, !.refreshed = refreshed]

LEMMA EndingTyped ==
  ASSUME TypeOK, NEW w \in Workers, NEW r \in BOOLEAN
  PROVE  LET x == Ending(w, r) IN
           x \in Calls /\ x.pc = "end" /\ x.item = task[w].item /\ x.track /\ x.lkg = 0
<1>1. task[w] \in Calls BY DEF TypeOK
<1> QED BY <1>1, NoTaskTyped DEF Ending, Calls, NoTask

LEMMA SettleTask ==
  ASSUME NEW w \in Workers, NEW r, Settle(w, r)
  PROVE  /\ \/ task[w].track /\ task' = [task EXCEPT ![w] = Ending(w, r)]
            \/ ~task[w].track /\ task' = [task EXCEPT ![w] = NoTask]
BY DEF Settle, Ending

LEMMA InitTyped == Init => TypeOK
<1> SUFFICES ASSUME Init PROVE TypeOK OBVIOUS
<1>1. items = << >> /\ items \in Seq(Items) /\ Len(items) = 0 BY DEF Init
<1>2. DOMAIN items = {} /\ retryAfter \in Seq(Nat) /\ Len(retryAfter) = Len(items) BY DEF Init
<1>3. task = [w \in Workers |-> NoTask] BY DEF Init
<1> QED BY <1>1, <1>2, <1>3, NoTaskTyped, CacheAssumption DEF Init, TypeOK

(* The conjuncts of TypeOK about calls, after one call was changed.        *)
CallsOK ==
    /\ task \in [Workers -> Calls]
    /\ \A w \in Workers : /\ task[w].item \in 0 .. Len(items)
                          /\ task[w].lkg \in 0 .. Len(items)
                          /\ task[w].track => task[w].item # 0

LEMMA TaskTyped ==
  ASSUME TypeOK, NEW w \in Workers, NEW x \in Calls, task' = [task EXCEPT ![w] = x],
         Len(items') \in Nat, Len(items) <= Len(items'),
         x.item \in 0 .. Len(items), x.lkg \in 0 .. Len(items), x.track => x.item # 0
  PROVE  CallsOK'
<1>1. task \in [Workers -> Calls] /\ Len(items) \in Nat BY ItemFacts DEF TypeOK
<1>2. task' \in [Workers -> Calls] BY <1>1
<1>3. \A u \in Workers : task'[u] = IF u = w THEN x ELSE task[u] BY <1>1
<1>4. \A u \in Workers : /\ task[u].item \in 0 .. Len(items) /\ task[u].lkg \in 0 .. Len(items)
                         /\ task[u].track => task[u].item # 0
  BY DEF TypeOK
<1> QED BY <1>1, <1>2, <1>3, <1>4 DEF CallsOK

LEMMA TaskTypedHere ==
  ASSUME TypeOK, NEW w \in Workers, NEW x \in Calls, task' = [task EXCEPT ![w] = x],
         UNCHANGED items,
         x.item \in 0 .. Len(items), x.lkg \in 0 .. Len(items), x.track => x.item # 0
  PROVE  CallsOK'
<1>1. Len(items') \in Nat /\ Len(items) <= Len(items') BY ItemFacts
<1> QED BY <1>1, TaskTyped

(* A new item: the old ones stay what they are.                            *)
NewItem(w) ==
    [ans |-> task[w].ans, stored |-> clock,
     lkg |-> lastKnownGood(w), late |-> task[w].began # task[w].ep]

LEMMA SetItems ==
  ASSUME TypeOK, NEW w \in Workers, set(w)
  PROVE  /\ items' \in Seq(Items) /\ Len(items') = Len(items) + 1
         /\ DOMAIN items' = 1 .. Len(items) + 1
         /\ \A i \in 1 .. Len(items) : items'[i] = items[i]
         /\ items'[Len(items) + 1] = NewItem(w)
<1>1. task[w] \in Calls /\ task[w].lkg \in 0 .. Len(items) BY DEF TypeOK
<1>2. NewItem(w) \in Items BY <1>1 DEF NewItem, lastKnownGood, Items, Calls, TypeOK
<1>3. items' = Append(items, NewItem(w)) BY DEF set, NewItem
<1>4. items \in Seq(Items) BY DEF TypeOK
<1> QED BY <1>2, <1>3, <1>4

LEMMA SetTyped ==
  ASSUME TypeOK, NEW w \in Workers, set(w)
  PROVE  /\ \A i \in DOMAIN items' : items'[i].lkg < i
         /\ pcache' \in [Keys -> 0 .. Len(items')] /\ ncache' \in [Keys -> 0 .. Len(items')]
         /\ best' \in [Keys -> 0 .. Len(items')]
<1>1. task[w] \in Calls /\ task[w].lkg \in 0 .. Len(items) BY DEF TypeOK
<1>2. NewItem(w).lkg < Len(items) + 1 BY <1>1, ItemFacts DEF NewItem, lastKnownGood
<1>3. \A i \in DOMAIN items' : items'[i].lkg < i
  <2>1. \A i \in 1 .. Len(items) : items[i].lkg < i BY ItemFacts DEF TypeOK
  <2>2. DOMAIN items' = 1 .. Len(items) + 1 /\ Len(items) \in Nat BY SetItems, ItemFacts
  <2>3. \A i \in 1 .. Len(items) : items'[i] = items[i] BY SetItems
  <2>4. items'[Len(items) + 1].lkg < Len(items) + 1 BY <1>2, SetItems
  <2> QED BY <2>1, <2>2, <2>3, <2>4
<1>4. /\ 0 .. Len(items) \subseteq 0 .. Len(items') /\ Len(items) + 1 \in 0 .. Len(items')
      /\ 0 \in 0 .. Len(items')
  BY SetItems, ItemFacts
<1>5. pcache \in [Keys -> 0 .. Len(items')] /\ ncache \in [Keys -> 0 .. Len(items')]
      /\ best \in [Keys -> 0 .. Len(items')]
  BY <1>4 DEF TypeOK
<1>6. pcache' \in [Keys -> 0 .. Len(items')]
  BY <1>4, <1>5 DEF set
<1>7. ncache' \in [Keys -> 0 .. Len(items')]
  BY <1>4, <1>5 DEF set
<1>8. best' \in [Keys -> 0 .. Len(items')]
  BY <1>4, <1>5 DEF set
<1> QED BY <1>3, <1>6, <1>7, <1>8

LEMMA EndRefreshTyped ==
  ASSUME TypeOK, NEW w \in Workers, endRefresh(w)
  PROVE  /\ refreshing' \subseteq DOMAIN items
         /\ retryAfter' \in Seq(Nat) /\ Len(retryAfter') = Len(items)
<1>1. cfg.recheck \in Nat /\ clock \in Nat BY CacheAssumption DEF TypeOK
<1>2. clock + cfg.recheck \in Nat BY <1>1
<1>3. retryAfter \in Seq(Nat) /\ Len(retryAfter) = Len(items) BY DEF TypeOK
<1>4. PICK n \in Nat : retryAfter' = [retryAfter EXCEPT ![task[w].item] = n] BY <1>2 DEF endRefresh
<1>5. retryAfter' \in Seq(Nat) /\ Len(retryAfter') = Len(items)
  <2>1. CASE task[w].item \in 1 .. Len(retryAfter)
    <3>1. PICK r : r = retryAfter OBVIOUS
    <3>2. r \in Seq(Nat) /\ task[w].item \in 1 .. Len(r) BY <1>3, <2>1, <3>1
    <3>3. /\ [r EXCEPT ![task[w].item] = n] \in Seq(Nat)
          /\ Len([r EXCEPT ![task[w].item] = n]) = Len(r)
      BY <3>2, ExceptSeq
    <3> QED BY <1>3, <1>4, <3>1, <3>3
  <2>2. CASE task[w].item \notin 1 .. Len(retryAfter)
    <3>1. DOMAIN retryAfter = 1 .. Len(retryAfter) BY <1>3
    <3>2. retryAfter' = retryAfter BY <1>3, <1>4, <2>2, <3>1
    <3> QED BY <1>3, <3>2
  <2> QED BY <2>1, <2>2
<1>6. refreshing' \subseteq DOMAIN items BY DEF endRefresh, TypeOK
<1> QED BY <1>5, <1>6

LEMMA TypeStep == TypeOK /\ [Next]_vars => TypeOK'
<1> SUFFICES ASSUME TypeOK, [Next]_vars PROVE TypeOK' OBVIOUS
<1> USE DEF caches, world
<1>t. \A w \in Workers : task[w] \in Calls BY DEF TypeOK
<1>e. ASSUME Event PROVE events' \in 0 .. MaxEvents
  BY <1>e, CacheAssumption DEF Event, TypeOK
<1>l. Len(items) \in Nat BY ItemFacts
<1>1. ASSUME Tick PROVE TypeOK'
  BY <1>1, <1>e DEF Tick, TypeOK
<1>2. ASSUME NEW p \in Policies, Mutate(p) PROVE TypeOK'
  <2>1. /\ data' \in Nat /\ policy' \in [Clients -> Scopes] /\ unbumped' \in Nat
        /\ epoch + unbumped' <= MaxEpoch /\ Event
    BY <1>2, CacheAssumption DEF Mutate, TypeOK
  <2> QED BY <1>2, <2>1, <1>e DEF Mutate, TypeOK
<1>s. ASSUME MutateSilently PROVE TypeOK'
  <2>1. unsaid' \in Nat /\ told' \in 0 .. unsaid' /\ Event
    BY <1>s DEF MutateSilently, TypeOK
  <2> QED BY <1>s, <2>1, <1>e DEF MutateSilently, TypeOK
<1>3. ASSUME Bump PROVE TypeOK'
  <2>1. told' \in 0 .. unsaid' /\ unsaid' \in Nat BY <1>3 DEF Bump, TypeOK
  <2> QED BY <1>3, <2>1, CacheAssumption DEF Bump, TypeOK
<1>4. ASSUME NEW k \in Keys, Evict(k) PROVE TypeOK'
  <2>1. 0 \in 0 .. Len(items) BY <1>l
  <2>2. /\ pcache' \in [Keys -> 0 .. Len(items)] /\ ncache' \in [Keys -> 0 .. Len(items)]
        /\ best' \in [Keys -> 0 .. Len(items)]
    BY <1>4, <2>1 DEF Evict, TypeOK
  <2> QED BY <1>4, <2>2, <1>e DEF Evict, TypeOK
<1>5. ASSUME NEW w \in Workers, NEW c \in Clients, Arrive(w, c) PROVE TypeOK'
  <2> DEFINE x == [NoTask EXCEPT !.pc = "look", !.client = c, !.src = keySrc(c), !.began = epoch]
  <2>1. 0 \in 0 .. Len(items) BY <1>l
  <2>2. x \in Calls /\ x.item = 0 /\ x.lkg = 0 /\ ~x.track BY ArriveTyped
  <2>3. task' = [task EXCEPT ![w] = x] /\ UNCHANGED items BY <1>5 DEF Arrive
  <2> HIDE DEF x
  <2>4. CallsOK' BY <2>1, <2>2, <2>3, Zenon, TaskTypedHere
  <2>5. asked' \in 0 .. MaxQueries BY <1>5, CacheAssumption DEF Arrive, TypeOK
  <2> QED BY <1>5, <2>4, <2>5 DEF Arrive, TypeOK, CallsOK
<1>h. ASSUME NEW w \in Workers, NEW i \in 0 .. Len(items),
             NEW stale \in BOOLEAN, NEW track \in BOOLEAN, NEW quiet \in BOOLEAN,
             track => i # 0,
             task' = [task EXCEPT ![w] = Call(w, i, stale, track, quiet)], UNCHANGED items
      PROVE  CallsOK'
  <2> DEFINE x == Call(w, i, stale, track, quiet)
  <2>1. task[w].lkg \in 0 .. Len(items) BY DEF TypeOK
  <2>2. x \in Calls /\ x.item = i /\ x.lkg = task[w].lkg /\ x.track = track BY CallTyped
  <2>3. task' = [task EXCEPT ![w] = x] BY <1>h
  <2> HIDE DEF x
  <2> QED BY <2>1, <2>2, <2>3, <1>h, Zenon, TaskTypedHere
<1>k. ASSUME NEW w \in Workers, task' = [task EXCEPT ![w] = NoTask], UNCHANGED items
      PROVE  CallsOK'
  <2>1. 0 \in 0 .. Len(items) BY <1>l
  <2> QED BY <1>k, <2>1, NoTaskTyped, TaskTypedHere
<1>m. ASSUME NEW w \in Workers, Miss(w) PROVE TypeOK'
  <2>1. 0 \in 0 .. Len(items) BY <1>l
  <2>2. task' = [task EXCEPT ![w] = Call(w, 0, FALSE, FALSE, FALSE)] /\ UNCHANGED items
    BY <1>m DEF Miss
  <2>3. CallsOK' BY <2>1, <2>2, <1>h
  <2>4. wait' \in [Workers -> {"no", "call", "race"}] BY <1>m DEF Miss, TypeOK
  <2> QED BY <1>m, <2>3, <2>4 DEF Miss, TypeOK, CallsOK
<1>6. ASSUME NEW w \in Workers, Hit(w) PROVE TypeOK'
  <2> DEFINE i == Found(w)
  <2>1. i \in 1 .. Len(items) /\ i \in 0 .. Len(items) /\ i # 0 BY <1>6, FoundTyped, <1>l DEF Hit
  <2>2. i \in DOMAIN items BY <2>1, ItemFacts
  <2>3. refreshing' \subseteq DOMAIN items BY <1>6, <2>2 DEF Hit, TypeOK
  <2>4. \/ task' = [task EXCEPT ![w] = Call(w, i, FALSE, TRUE, TRUE)]
        \/ task' = [task EXCEPT ![w] = NoTask]
    BY <1>6 DEF Hit
  <2>5. UNCHANGED items BY <1>6 DEF Hit
  <2> HIDE DEF i
  <2>6. CallsOK'
    BY <2>1, <2>4, <2>5, <1>h, <1>k
  <2> QED BY <1>6, <2>3, <2>6 DEF Hit, TypeOK, CallsOK
<1>7. ASSUME NEW w \in Workers, HitStale(w) PROVE TypeOK'
  <2> DEFINE i == Found(w)
             track == cfg.recheck > 0
             quiet == cfg.mode = "timeout"
  <2>1. i \in 1 .. Len(items) /\ i \in 0 .. Len(items) /\ i # 0
    BY <1>7, FoundTyped, <1>l DEF HitStale
  <2>2. i \in DOMAIN items BY <2>1, ItemFacts
  <2>3. refreshing' \subseteq DOMAIN items BY <1>7, <2>2 DEF HitStale, TypeOK
  <2>4. \/ task' = [task EXCEPT ![w] = Call(w, i, TRUE, TRUE, TRUE)]
        \/ task' = [task EXCEPT ![w] = Call(w, i, TRUE, track, quiet)]
        \/ task' = [task EXCEPT ![w] = NoTask]
    BY <1>7 DEF HitStale
  <2>5. UNCHANGED items BY <1>7 DEF HitStale
  <2>6. wait' \in [Workers -> {"no", "call", "race"}] BY <1>7 DEF HitStale, TypeOK
  <2>7. track \in BOOLEAN /\ quiet \in BOOLEAN OBVIOUS
  <2> HIDE DEF i, track, quiet
  <2>8. CallsOK'
    <3>1. CASE task' = [task EXCEPT ![w] = Call(w, i, TRUE, TRUE, TRUE)]
      BY <2>1, <2>5, <3>1, <1>h
    <3>2. CASE task' = [task EXCEPT ![w] = Call(w, i, TRUE, track, quiet)]
      <4>1. track => i # 0 BY <2>1
      <4> QED BY <2>1, <2>5, <2>7, <3>2, <4>1, <1>h
    <3>3. CASE task' = [task EXCEPT ![w] = NoTask] BY <2>5, <3>3, <1>k
    <3> QED BY <2>4, <3>1, <3>2, <3>3
  <2> QED BY <1>7, <2>3, <2>6, <2>8 DEF HitStale, TypeOK, CallsOK
<1>8. ASSUME NEW w \in Workers, Timeout(w) PROVE TypeOK'
  BY <1>8 DEF Timeout, TypeOK
<1>9. ASSUME NEW w \in Workers, NEW kind \in cfg.answers, NEW t \in TTLs, Backend(w, kind, t)
      PROVE  TypeOK'
  <2> DEFINE ans == [kind |-> kind, scope |-> policy[remote(w)], ver |-> data,
                     unsaid |-> unsaid, ttl |-> t]
             x   == [task[w] EXCEPT !.pc = "peek", !.ans = ans]
  <2>1. policy[remote(w)] \in Scopes BY <1>t DEF remote, Calls, TypeOK
  <2>2. ans \in Answers BY <2>1, CacheAssumption DEF Answers, TypeOK
  <2>3. task' = [task EXCEPT ![w] = x] BY <1>9 DEF Backend
  <2> HIDE DEF ans
  <2>4. /\ x \in Calls /\ x.item = task[w].item /\ x.lkg = task[w].lkg
        /\ x.track = task[w].track
    BY <2>2, <1>t DEF Calls
  <2>5. /\ x.item \in 0 .. Len(items) /\ x.lkg \in 0 .. Len(items) /\ (x.track => x.item # 0)
    BY <2>4 DEF TypeOK
  <2>6. UNCHANGED items BY <1>9 DEF Backend
  <2> HIDE DEF x
  <2>7. CallsOK'
    BY <2>3, <2>4, <2>5, <2>6, Zenon, TaskTypedHere
  <2> QED BY <1>9, <2>7 DEF Backend, TypeOK, CallsOK
<1>z. ASSUME NEW w \in Workers, NEW r \in BOOLEAN, Settle(w, r),
             Len(items') \in Nat, Len(items) <= Len(items')
      PROVE  CallsOK' /\ wait' \in [Workers -> {"no", "call", "race"}]
  <2>1. 0 \in 0 .. Len(items) /\ task[w].item \in 0 .. Len(items)
        /\ (task[w].track => task[w].item # 0)
    BY <1>l DEF TypeOK
  <2>l. Len(items') \in Nat /\ Len(items) <= Len(items') BY <1>z
  <2>2. /\ Ending(w, r) \in Calls /\ Ending(w, r).item = task[w].item /\ Ending(w, r).lkg = 0
    BY EndingTyped
  <2>5. CallsOK'
    <3>1. CASE task[w].track /\ task' = [task EXCEPT ![w] = Ending(w, r)]
      <4>1. PICK x : x = Ending(w, r) OBVIOUS
      <4>2. /\ x \in Calls /\ x.item \in 0 .. Len(items) /\ x.lkg \in 0 .. Len(items)
            /\ (x.track => x.item # 0) /\ task' = [task EXCEPT ![w] = x]
        BY <2>1, <2>2, <3>1, <4>1
      <4> QED BY <2>l, <4>2, Zenon, TaskTyped
    <3>2. CASE task' = [task EXCEPT ![w] = NoTask]
      BY <2>l, <2>1, <3>2, NoTaskTyped, Zenon, TaskTyped
    <3> QED BY <1>z, <3>1, <3>2, SettleTask
  <2>6. wait' \in [Workers -> {"no", "call", "race"}] BY <1>z DEF Settle, TypeOK
  <2> QED BY <2>5, <2>6
<1>10. ASSUME NEW w \in Workers, Peek(w) PROVE TypeOK'
  <2> DEFINE l == IF cfg.preferPositive THEN answeringItem(pcache[KeyNow(task[w].src)]) ELSE 0
             r == task[w].stale => Refreshes(task[w].ans.kind)
             x == [task[w] EXCEPT !.pc = "store", !.ep = epoch, !.refreshed = r, !.lkg = l]
  <2>1. task[w].src \in Scopes BY <1>t DEF Calls
  <2>2. pcache[KeyNow(task[w].src)] \in 0 .. Len(items) BY <2>1, KeyTyped DEF TypeOK
  <2>3. l \in 0 .. Len(items) /\ l \in Nat BY <2>2, <1>l, AnsweringTyped
  <2>4. r \in BOOLEAN BY DEF Refreshes
  <2>5. (task' = [task EXCEPT ![w] = x] /\ UNCHANGED wait) \/ Settle(w, r) BY <1>10 DEF Peek
  <2>6. epoch \in 0 .. MaxEpoch BY CacheAssumption DEF TypeOK
  <2> HIDE DEF l, r
  <2>7. /\ x \in Calls /\ x.item = task[w].item /\ x.lkg = l /\ x.track = task[w].track
    BY <2>3, <2>4, <2>6, <1>t DEF Calls
  <2>8. x.item \in 0 .. Len(items) /\ x.lkg \in 0 .. Len(items) /\ (x.track => x.item # 0)
    BY <2>3, <2>7 DEF TypeOK
  <2>9. UNCHANGED items BY <1>10 DEF Peek
  <2> HIDE DEF x
  <2>10. CASE task' = [task EXCEPT ![w] = x] /\ UNCHANGED wait
    <3>1. CallsOK' BY <2>7, <2>8, <2>9, <2>10, Zenon, TaskTypedHere
    <3> QED BY <1>10, <2>10, <3>1 DEF Peek, TypeOK, CallsOK
  <2>11. CASE Settle(w, r)
    <3>1. CallsOK' /\ wait' \in [Workers -> {"no", "call", "race"}]
      BY <2>4, <2>9, <2>11, <1>l, <1>z
    <3> QED BY <1>10, <3>1 DEF Peek, TypeOK, CallsOK
  <2> QED BY <2>5, <2>10, <2>11
<1>11. ASSUME NEW w \in Workers, Store(w) PROVE TypeOK'
  <2>0. set(w) /\ UNCHANGED <<clock, cfg, refreshing, asked, events>> /\ UNCHANGED world
    BY <1>11 DEF Store
  <2>1. /\ items' \in Seq(Items) /\ Len(items') = Len(items) + 1 /\ Len(items') \in Nat
        /\ Len(items) <= Len(items') /\ DOMAIN items \subseteq DOMAIN items'
    <3>1. 1 .. Len(items) \subseteq 1 .. Len(items) + 1 BY <1>l
    <3> QED BY <2>0, <3>1, <1>l, ItemFacts, SetItems
  <2>2. /\ \A i \in DOMAIN items' : items'[i].lkg < i
        /\ pcache' \in [Keys -> 0 .. Len(items')] /\ ncache' \in [Keys -> 0 .. Len(items')]
        /\ best' \in [Keys -> 0 .. Len(items')]
    BY <2>0, SetTyped
  <2>3. retryAfter' \in Seq(Nat) /\ Len(retryAfter') = Len(items')
    <3>1. retryAfter \in Seq(Nat) /\ Len(retryAfter) = Len(items) BY DEF TypeOK
    <3>2. retryAfter' = Append(retryAfter, 0) BY <2>0 DEF set
    <3> QED BY <2>1, <3>1, <3>2
  <2>4. CallsOK' /\ wait' \in [Workers -> {"no", "call", "race"}]
    <3> DEFINE x == [task[w] EXCEPT !.pc = "drop"]
    <3>1. /\ x \in Calls /\ x.item = task[w].item /\ x.lkg = task[w].lkg
          /\ x.track = task[w].track
      BY <1>t DEF Calls
    <3>2. x.item \in 0 .. Len(items) /\ x.lkg \in 0 .. Len(items) /\ (x.track => x.item # 0)
      BY <3>1 DEF TypeOK
    <3>3. \/ task' = [task EXCEPT ![w] = x] /\ UNCHANGED wait
          \/ Settle(w, task[w].refreshed)
      BY <1>11 DEF Store
    <3> HIDE DEF x
    <3>4. CASE task' = [task EXCEPT ![w] = x] /\ UNCHANGED wait
      <4>1. CallsOK' BY <2>1, <3>1, <3>2, <3>4, TaskTyped
      <4> QED BY <3>4, <4>1 DEF TypeOK
    <3>5. CASE Settle(w, task[w].refreshed)
      <4>1. task[w].refreshed \in BOOLEAN BY <1>t DEF Calls
      <4> QED BY <2>1, <3>5, <4>1, <1>z
    <3> QED BY <3>3, <3>4, <3>5
  <2> QED BY <2>0, <2>1, <2>2, <2>3, <2>4 DEF world, TypeOK, CallsOK
<1>12. ASSUME NEW w \in Workers, Drop(w) PROVE TypeOK'
  <2>0. UNCHANGED items BY <1>12 DEF Drop
  <2>1. task[w].refreshed \in BOOLEAN BY <1>t DEF Calls
  <2>2. CallsOK' /\ wait' \in [Workers -> {"no", "call", "race"}]
    BY <1>12, <2>0, <2>1, <1>l, <1>z DEF Drop
  <2>3. ncache' \in [Keys -> 0 .. Len(items)]
    <3>1. 0 \in 0 .. Len(items) BY <1>l
    <3> QED BY <1>12, <3>1 DEF Drop, TypeOK
  <2> QED BY <1>12, <2>2, <2>3 DEF Drop, TypeOK, CallsOK
<1>13. ASSUME NEW w \in Workers, Return(w) PROVE TypeOK'
  <2>1. refreshing' \subseteq DOMAIN items /\ retryAfter' \in Seq(Nat)
        /\ Len(retryAfter') = Len(items)
    BY <1>13, EndRefreshTyped DEF Return
  <2>2. CallsOK' BY <1>13, <1>k DEF Return
  <2>3. wait' \in [Workers -> {"no", "call", "race"}] BY <1>13 DEF Return, TypeOK
  <2> QED BY <1>13, <2>1, <2>2, <2>3 DEF Return, TypeOK, CallsOK
<1>14. ASSUME UNCHANGED vars PROVE TypeOK' BY <1>14 DEF vars, TypeOK
<1> QED
  BY <1>1, <1>2, <1>s, <1>3, <1>4, <1>5, <1>m, <1>6, <1>7, <1>8, <1>9, <1>10, <1>11, <1>12,
     <1>13, <1>14
  DEF Next, Work

(* The caches, the items and the calls keep their types: what a cache      *)
(* holds was made, and an item covers only an older one (set).             *)
THEOREM TypeCorrect == Spec => []TypeOK
BY InitTyped, TypeStep, PTL DEF Spec

----------------------------------------------------------------------------
(* The refreshing flag.  A goroutine that has not yet looked holds none;   *)
(* that is what lets a query take one.  One that is to end holds one.      *)

Rest == \A w \in Workers : /\ task[w].pc \in {"idle", "look"} => ~task[w].track
                           /\ task[w].pc = "end" => task[w].track

FlagInv == TypeOK /\ FlagHeld /\ OneRefresh /\ Rest

LEMMA FlagSet ==
  FlagHeld <=> \A i : i \in refreshing <=> \E w \in Workers : task[w].track /\ task[w].item = i
BY DEF FlagHeld

LEMMA FlagSetPrimed ==
  FlagHeld' <=> \A i : i \in refreshing' <=> \E w \in Workers : task'[w].track /\ task'[w].item = i
BY DEF FlagHeld

(* No flag is touched.                                                     *)
LEMMA FlagKept ==
  ASSUME FlagInv, TypeOK', UNCHANGED refreshing,
         \A w \in Workers : /\ task'[w].track = task[w].track
                            /\ task[w].track => task'[w].item = task[w].item
                            /\ task'[w].pc \in {"idle", "look"} => ~task[w].track
                            /\ task'[w].pc = "end" => task[w].track
  PROVE  FlagInv'
<1>1. FlagHeld' BY FlagSet, FlagSetPrimed DEF FlagInv
<1>2. OneRefresh' BY DEF FlagInv, OneRefresh
<1>3. Rest' BY DEF FlagInv, Rest
<1> QED BY <1>1, <1>2, <1>3 DEF FlagInv

(* A goroutine that has looked starts a call: with the flag of an item     *)
(* that nobody refreshes, or without one.                                  *)
LEMMA FlagTaken ==
  ASSUME FlagInv, TypeOK', NEW w \in Workers, task[w].pc = "look",
         \A u \in Workers \ {w} : task'[u] = task[u], task'[w].pc = "ask",
         \/ ~task'[w].track /\ UNCHANGED refreshing
         \/ /\ task'[w].track /\ task'[w].item \notin refreshing
            /\ refreshing' = refreshing \cup {task'[w].item}
  PROVE  FlagInv'
<1>1. ~task[w].track BY DEF FlagInv, Rest
<1>2. \A u \in Workers : task[u].track => u # w /\ task[u].item \in refreshing
  BY <1>1, FlagSet DEF FlagInv
<1>3. FlagHeld' BY <1>1, FlagSet, FlagSetPrimed DEF FlagInv
<1>4. OneRefresh'
  <2> SUFFICES ASSUME NEW u \in Workers, NEW v \in Workers, u # v, task'[u].track, task'[v].track,
                      task'[u].item = task'[v].item
               PROVE  FALSE
    BY DEF OneRefresh
  <2>1. CASE u = w BY <2>1, <1>2
  <2>2. CASE v = w BY <2>2, <1>2
  <2>3. CASE u # w /\ v # w BY <2>3 DEF FlagInv, OneRefresh
  <2> QED BY <2>1, <2>2, <2>3
<1>5. Rest' BY DEF FlagInv, Rest
<1> QED BY <1>3, <1>4, <1>5 DEF FlagInv

LEMMA FlagStep == FlagInv /\ [Next]_vars => FlagInv'
<1> SUFFICES ASSUME FlagInv, [Next]_vars PROVE FlagInv' OBVIOUS
<1>t. TypeOK /\ TypeOK' BY TypeStep DEF FlagInv
<1>f. task \in [Workers -> Calls] BY <1>t DEF TypeOK
<1>1. ASSUME UNCHANGED <<task, refreshing>> PROVE FlagInv'
  BY <1>1, <1>t, FlagKept DEF FlagInv, Rest
<1>c. ASSUME NEW w \in Workers, NEW i \in 0 .. Len(items),
             NEW stale \in BOOLEAN, NEW track \in BOOLEAN, NEW quiet \in BOOLEAN,
             task' = [task EXCEPT ![w] = Call(w, i, stale, track, quiet)], task[w].pc = "look",
             track => i \notin refreshing,
             refreshing' = IF track THEN refreshing \cup {i} ELSE refreshing
      PROVE  FlagInv'
  <2>1. task'[w] = Call(w, i, stale, track, quiet) /\ \A u \in Workers \ {w} : task'[u] = task[u]
    BY <1>c, <1>f
  <2>2. task'[w].pc = "ask" /\ task'[w].track = track /\ task'[w].item = i
    BY <2>1, <1>t, CallTyped
  <2> QED BY <1>c, <2>1, <2>2, <1>t, FlagTaken
<1>n. ASSUME NEW w \in Workers, task' = [task EXCEPT ![w] = NoTask], ~task[w].track,
             UNCHANGED refreshing
      PROVE  FlagInv'
  <2>1. \A u \in Workers : task'[u] = IF u = w THEN NoTask ELSE task[u] BY <1>n, <1>f
  <2>2. \A u \in Workers : /\ task'[u].track = task[u].track
                           /\ task[u].track => task'[u].item = task[u].item
                           /\ task'[u].pc \in {"idle", "look"} => ~task[u].track
                           /\ task'[u].pc = "end" => task[u].track
    BY <1>n, <2>1, NoTaskTyped, <1>t DEF FlagInv, Rest, TypeOK, Calls
  <2> QED BY <1>n, <2>2, <1>t, FlagKept
<1>r. ASSUME NEW w \in Workers, task[w].pc = "look" PROVE ~task[w].track
  BY <1>r DEF FlagInv, Rest
<1>a. ASSUME NEW w \in Workers, NEW c \in Clients, Arrive(w, c) PROVE FlagInv'
  <2> DEFINE x == [NoTask EXCEPT !.pc = "look", !.client = c, !.src = keySrc(c), !.began = epoch]
  <2>1. x \in Calls /\ x.pc = "look" /\ ~x.track BY <1>t, ArriveTyped
  <2>2. \A u \in Workers : task'[u] = IF u = w THEN x ELSE task[u] BY <1>a, <1>f DEF Arrive
  <2>3. ~task[w].track /\ UNCHANGED refreshing BY <1>a DEF Arrive, FlagInv, Rest
  <2> HIDE DEF x
  <2>4. \A u \in Workers : /\ task'[u].track = task[u].track
                           /\ task[u].track => task'[u].item = task[u].item
                           /\ task'[u].pc \in {"idle", "look"} => ~task[u].track
                           /\ task'[u].pc = "end" => task[u].track
    BY <2>1, <2>2, <2>3, <1>f DEF FlagInv, Rest, Calls
  <2> QED BY <2>3, <2>4, <1>t, FlagKept
<1>2. ASSUME NEW w \in Workers, Miss(w) PROVE FlagInv'
  <2>1. task[w].pc = "look" /\ 0 \in 0 .. Len(items) BY <1>2, <1>t, ItemFacts DEF Miss
  <2>2. task' = [task EXCEPT ![w] = Call(w, 0, FALSE, FALSE, FALSE)] /\ UNCHANGED refreshing
    BY <1>2 DEF Miss
  <2> QED BY <2>1, <2>2, <1>c
<1>3. ASSUME NEW w \in Workers, Hit(w) PROVE FlagInv'
  <2> DEFINE i == Found(w)
  <2>1. task[w].pc = "look" BY <1>3 DEF Hit
  <2>2. i \in 0 .. Len(items) BY <1>t, FoundTyped
  <2>3. \/ /\ i \notin refreshing /\ refreshing' = refreshing \cup {i}
           /\ task' = [task EXCEPT ![w] = Call(w, i, FALSE, TRUE, TRUE)]
        \/ task' = [task EXCEPT ![w] = NoTask] /\ UNCHANGED refreshing
    BY <1>3 DEF Hit, beginRefresh
  <2> HIDE DEF i
  <2> QED BY <2>1, <2>2, <2>3, <1>n, <1>r, <1>c
<1>4. ASSUME NEW w \in Workers, HitStale(w) PROVE FlagInv'
  <2> DEFINE i == Found(w)
             track == cfg.recheck > 0
             quiet == cfg.mode = "timeout"
  <2>1. task[w].pc = "look" BY <1>4 DEF HitStale
  <2>2. i \in 0 .. Len(items) BY <1>t, FoundTyped
  <2>3. \/ /\ i \notin refreshing /\ refreshing' = refreshing \cup {i}
           /\ task' = [task EXCEPT ![w] = Call(w, i, TRUE, TRUE, TRUE)]
        \/ /\ track => i \notin refreshing
           /\ refreshing' = IF track THEN refreshing \cup {i} ELSE refreshing
           /\ task' = [task EXCEPT ![w] = Call(w, i, TRUE, track, quiet)]
        \/ task' = [task EXCEPT ![w] = NoTask] /\ UNCHANGED refreshing
    BY <1>4 DEF HitStale, beginRefresh
  <2>4. track \in BOOLEAN /\ quiet \in BOOLEAN OBVIOUS
  <2> HIDE DEF i, track, quiet
  <2> QED BY <2>1, <2>2, <2>3, <2>4, <1>n, <1>r, <1>c
<1>k. ASSUME NEW w \in Workers, NEW x, task' = [task EXCEPT ![w] = x],
             x.track = task[w].track, x.item = task[w].item, x.pc \notin {"idle", "look", "end"},
             UNCHANGED refreshing
      PROVE  FlagInv'
  <2>1. \A u \in Workers : task'[u] = IF u = w THEN x ELSE task[u] BY <1>k, <1>f
  <2>2. \A u \in Workers : /\ task'[u].track = task[u].track /\ task'[u].item = task[u].item
                           /\ task'[u].pc \in {"idle", "look"} => ~task[u].track
                           /\ task'[u].pc = "end" => task[u].track
    BY <1>k, <2>1 DEF FlagInv, Rest
  <2> QED BY <1>k, <2>2, <1>t, FlagKept
<1>z. ASSUME NEW w \in Workers, NEW r \in BOOLEAN, Settle(w, r), UNCHANGED refreshing
      PROVE  FlagInv'
  <2>1. CASE ~task[w].track /\ task' = [task EXCEPT ![w] = NoTask] BY <1>z, <2>1, <1>n
  <2>2. CASE task[w].track /\ task' = [task EXCEPT ![w] = Ending(w, r)]
    <3>1. /\ Ending(w, r).pc = "end" /\ Ending(w, r).item = task[w].item /\ Ending(w, r).track
          /\ Ending(w, r) \in Calls
      BY <1>t, EndingTyped
    <3>2. \A u \in Workers : task'[u] = IF u = w THEN Ending(w, r) ELSE task[u] BY <2>2, <1>f
    <3>3. \A u \in Workers : /\ task'[u].track = task[u].track /\ task'[u].item = task[u].item
                             /\ task'[u].pc \in {"idle", "look"} => ~task[u].track
                             /\ task'[u].pc = "end" => task[u].track
      BY <2>2, <3>1, <3>2, <1>f DEF FlagInv, Rest, Calls
    <3> QED BY <1>z, <3>3, <1>t, FlagKept
  <2> QED BY <1>z, <2>1, <2>2, SettleTask
<1>5. ASSUME NEW w \in Workers, NEW kind, NEW t, Backend(w, kind, t) PROVE FlagInv'
  <2>1. PICK x : x = task'[w] OBVIOUS
  <2>2. /\ x.track = task[w].track /\ x.item = task[w].item /\ x.pc = "peek"
        /\ task' = [task EXCEPT ![w] = x] /\ UNCHANGED refreshing
    BY <1>5, <1>f, <2>1 DEF Backend, Calls
  <2> QED BY <2>2, <1>k
<1>6. ASSUME NEW w \in Workers, Peek(w) PROVE FlagInv'
  <2> DEFINE r == task[w].stale => Refreshes(task[w].ans.kind)
  <2>1. r \in BOOLEAN BY DEF Refreshes
  <2>2. UNCHANGED refreshing BY <1>6 DEF Peek
  <2>3. CASE ~HandedOn(w)
    <3>1. Settle(w, r) BY <1>6, <2>3 DEF Peek
    <3> HIDE DEF r
    <3> QED BY <2>1, <2>2, <3>1, <1>z
  <2>4. CASE HandedOn(w)
    <3>1. PICK x : x = task'[w] OBVIOUS
    <3>2. /\ x.track = task[w].track /\ x.item = task[w].item /\ x.pc = "store"
          /\ task' = [task EXCEPT ![w] = x]
      BY <1>6, <1>f, <2>4, <3>1 DEF Peek, Calls
    <3> QED BY <2>2, <3>2, <1>k
  <2> QED BY <2>3, <2>4
<1>7. ASSUME NEW w \in Workers, Store(w) PROVE FlagInv'
  <2>1. task[w].refreshed \in BOOLEAN BY <1>f DEF Calls
  <2>2. UNCHANGED refreshing BY <1>7 DEF Store
  <2>3. CASE Settle(w, task[w].refreshed) BY <2>1, <2>2, <2>3, <1>z
  <2>4. CASE task' = [task EXCEPT ![w].pc = "drop"]
    <3>1. PICK x : x = [task[w] EXCEPT !.pc = "drop"] OBVIOUS
    <3>2. /\ x.track = task[w].track /\ x.item = task[w].item /\ x.pc = "drop"
          /\ task' = [task EXCEPT ![w] = x]
      BY <1>f, <2>4, <3>1 DEF Calls
    <3> QED BY <2>2, <3>2, <1>k
  <2> QED BY <1>7, <2>3, <2>4 DEF Store
<1>d. ASSUME NEW w \in Workers, Drop(w) PROVE FlagInv'
  <2>1. task[w].refreshed \in BOOLEAN BY <1>f DEF Calls
  <2> QED BY <1>d, <2>1, <1>z DEF Drop
<1>e. ASSUME NEW w \in Workers, Return(w) PROVE FlagInv'
  <2>0. task[w].track BY <1>e DEF Return, FlagInv, Rest
  <2>1. /\ task'[w] = NoTask /\ \A u \in Workers \ {w} : task'[u] = task[u]
        /\ refreshing' = refreshing \ {task[w].item}
    BY <1>e, <1>f DEF Return, endRefresh
  <2>2. ~task'[w].track BY <2>1, NoTaskTyped
  <2>3. OneRefresh' BY <2>1, <2>2 DEF FlagInv, OneRefresh
  <2>4. Rest' BY <2>1, <2>2, NoTaskTyped DEF FlagInv, Rest
  <2>5. \A u \in Workers \ {w} : task[u].track => task[u].item # task[w].item
    BY <2>0 DEF FlagInv, OneRefresh
  <2>6. FlagHeld' BY <2>0, <2>1, <2>2, <2>5, FlagSet, FlagSetPrimed DEF FlagInv
  <2> QED BY <2>3, <2>4, <2>6, <1>t DEF FlagInv
<1>8. ASSUME Tick \/ Bump \/ MutateSilently \/ (\E p \in Policies : Mutate(p))
             \/ (\E k \in Keys : Evict(k)) \/ (\E w \in Workers : Timeout(w)) \/ UNCHANGED vars
      PROVE  UNCHANGED <<task, refreshing>>
  BY <1>8 DEF Tick, Bump, MutateSilently, Mutate, Evict, Timeout, vars
<1> QED
  BY <1>1, <1>a, <1>2, <1>3, <1>4, <1>5, <1>6, <1>7, <1>d, <1>e, <1>8 DEF Next, Work

LEMMA FlagInvariant == Spec => []FlagInv
<1>1. Init => FlagInv
  <2> SUFFICES ASSUME Init PROVE FlagInv OBVIOUS
  <2>1. \A w \in Workers : ~task[w].track /\ task[w].pc = "idle" BY NoTaskTyped DEF Init
  <2>2. refreshing = {} BY DEF Init
  <2> QED BY <2>1, <2>2, InitTyped, FlagSet DEF FlagInv, OneRefresh, Rest
<1> QED BY <1>1, FlagStep, PTL DEF Spec

(* However many queries find an item due, one goroutine refreshes it       *)
(* (beginRefresh, endRefresh).                                             *)
THEOREM OneRefreshAtATime == Spec => []OneRefresh
<1>1. FlagInv => OneRefresh BY DEF FlagInv
<1> QED BY <1>1, FlagInvariant, PTL

(* A flag is set exactly while a goroutine is at work that will clear it,  *)
(* whether the refresh goes well or not: no item is lost to refreshing     *)
(* (tryPrefetch, doRefresh, endRefresh).                                   *)
THEOREM FlagIsHeld == Spec => []FlagHeld
<1>1. FlagInv => FlagHeld BY DEF FlagInv
<1> QED BY <1>1, FlagInvariant, PTL

----------------------------------------------------------------------------
(* What an epoch promises.  Data and ACLs are at version epoch + unbumped. *)
(* An answer made by a call that began in epoch n is of version n at       *)
(* least; if it is of version n exactly, nothing has changed since the     *)
(* call took its scope, so that is the scope the backend saw.  The answer  *)
(* is in force only while the epoch is the one it is filed under, and then *)
(* it was made after the Bump that began the epoch: it knows of the        *)
(* changes without a Bump that came before.                                *)

Fits(k, ans) ==
    /\ k[2] <= ans.ver /\ ans.ver <= data
    /\ ans.ver = k[2] => ans.scope = k[1]
    /\ k[2] = epoch => told <= ans.unsaid

Filed(k, i) == i # 0 => k[2] <= epoch /\ (items[i].late \/ Fits(k, items[i].ans))

Held(k, i) == Filed(k, i) /\ (i # 0 => Filed(k, items[i].lkg))

CallFits(x) ==
    /\ x.pc \notin {"idle", "end"} =>
         x.began <= epoch /\ (data = x.began => x.src = policy[x.client])
    /\ x.pc \in {"peek", "store"} => Fits(<<x.src, x.began>>, x.ans)
    /\ x.pc = "store" => x.ep <= epoch /\ Filed(<<x.src, x.ep>>, x.lkg)

EpochInv ==
    /\ TypeOK
    /\ data = epoch + unbumped
    /\ \A w \in Workers : CallFits(task[w])
    /\ \A k \in Keys : Held(k, pcache[k]) /\ Held(k, ncache[k])

(* Time goes on: data and epoch grow, and what is told changes with the    *)
(* epoch only.                                                             *)
Onward ==
    /\ data' \in Nat /\ data <= data' /\ epoch' \in Nat /\ epoch <= epoch'
    /\ epoch' = epoch => told' = told

LEMMA StandingStill ==
  ASSUME TypeOK, UNCHANGED <<data, epoch, told>>
  PROVE  Onward
BY DEF TypeOK, Onward

LEMMA FitsKept ==
  ASSUME TypeOK, Onward, NEW k, k[2] \in Nat, k[2] <= epoch, NEW ans \in Answers, Fits(k, ans)
  PROVE  /\ k[2] <= ans.ver /\ ans.ver <= data' /\ (ans.ver = k[2] => ans.scope = k[1])
         /\ k[2] = epoch' => told' <= ans.unsaid
<1>1. ans.ver \in Nat /\ ans.unsaid \in Nat BY DEF Answers
<1>2. data \in Nat /\ epoch \in Nat BY DEF TypeOK
<1> QED BY <1>1, <1>2 DEF Fits, Onward

LEMMA FiledKept ==
  ASSUME TypeOK, NEW k, NEW i \in 0 .. Len(items), Onward, k[2] \in Nat,
         \A n \in 1 .. Len(items) : items'[n] = items[n]
  PROVE  /\ Filed(k, i) => Filed(k, i)'
         /\ Held(k, i) => Held(k, i)'
<1>1. \A n \in 1 .. Len(items) : items[n].ans \in Answers /\ items[n].lkg \in 0 .. Len(items)
  BY ItemFacts
<1>2. epoch \in Nat /\ Len(items) \in Nat BY ItemFacts DEF TypeOK
<1>3. \A n \in 0 .. Len(items) : Filed(k, n) => Filed(k, n)'
  <2> SUFFICES ASSUME NEW n \in 1 .. Len(items), Filed(k, n) PROVE Filed(k, n)'
    BY <1>2 DEF Filed
  <2>1. n # 0 /\ items'[n] = items[n] /\ items[n].ans \in Answers BY <1>1, <1>2
  <2>2. k[2] <= epoch /\ k[2] <= epoch' BY <1>2, <2>1 DEF Filed, Onward
  <2>3. CASE items[n].late BY <2>1, <2>2, <2>3 DEF Filed
  <2>4. CASE Fits(k, items[n].ans)
    <3>1. /\ k[2] <= items[n].ans.ver /\ items[n].ans.ver <= data'
          /\ (items[n].ans.ver = k[2] => items[n].ans.scope = k[1])
          /\ k[2] = epoch' => told' <= items[n].ans.unsaid
      BY <2>1, <2>2, <2>4, FitsKept
    <3> QED BY <2>1, <2>2, <3>1 DEF Filed, Fits
  <2> QED BY <2>1, <2>3, <2>4 DEF Filed
<1>4. i # 0 => items'[i] = items[i] /\ items[i].lkg \in 0 .. Len(items) BY <1>1, <1>2
<1> QED BY <1>3, <1>4 DEF Held

(* A call that is left alone, while data and ACLs may change.              *)
LEMMA CallKept ==
  ASSUME TypeOK, NEW w \in Workers, CallFits(task[w]), task'[w] = task[w],
         Onward, epoch <= data, data' = data => UNCHANGED policy,
         \A n \in 1 .. Len(items) : items'[n] = items[n]
  PROVE  CallFits(task[w])'
<1> DEFINE x == task[w]
<1>1. /\ x \in Calls /\ x.lkg \in 0 .. Len(items)
      /\ data \in Nat /\ epoch \in Nat /\ data' \in Nat /\ epoch' \in Nat
      /\ data <= data' /\ epoch <= epoch'
  BY DEF TypeOK, Onward
<1>2. x.began \in Nat /\ x.ep \in Nat /\ x.ans \in Answers BY <1>1, CacheAssumption DEF Calls
<1>3. <<x.src, x.ep>>[2] \in Nat /\ <<x.src, x.began>>[2] \in Nat BY <1>2
<1>4. Filed(<<x.src, x.ep>>, x.lkg) => Filed(<<x.src, x.ep>>, x.lkg)'
  BY <1>1, <1>3, FiledKept
<1>5. x.began <= epoch /\ Fits(<<x.src, x.began>>, x.ans) => Fits(<<x.src, x.began>>, x.ans)'
  <2> SUFFICES ASSUME x.began <= epoch, Fits(<<x.src, x.began>>, x.ans)
               PROVE  Fits(<<x.src, x.began>>, x.ans)'
    OBVIOUS
  <2> DEFINE k == <<x.src, x.began>>
  <2>1. k[2] = x.began /\ k[1] = x.src OBVIOUS
  <2> HIDE DEF k
  <2>2. Fits(k, x.ans) BY DEF k
  <2>3. /\ k[2] <= x.ans.ver /\ x.ans.ver <= data' /\ (x.ans.ver = k[2] => x.ans.scope = k[1])
        /\ k[2] = epoch' => told' <= x.ans.unsaid
    BY <1>2, <2>1, <2>2, FitsKept
  <2>4. x' = x OBVIOUS
  <2> HIDE DEF x
  <2> QED BY <2>1, <2>3, <2>4 DEF Fits
<1>6. x.pc \notin {"idle", "end"} =>
        x.began <= epoch' /\ (data' = x.began => x.src = policy'[x.client])
  BY <1>1, <1>2 DEF CallFits
<1>7. x.pc = "store" => x.ep <= epoch' BY <1>1, <1>2 DEF CallFits
<1>8. CallFits(x)' <=>
        /\ x'.pc \notin {"idle", "end"} =>
             x'.began <= epoch' /\ (data' = x'.began => x'.src = policy'[x'.client])
        /\ x'.pc \in {"peek", "store"} => Fits(<<x.src, x.began>>, x.ans)'
        /\ x'.pc = "store" => x'.ep <= epoch' /\ Filed(<<x.src, x.ep>>, x.lkg)'
  BY DEF CallFits
<1> QED BY <1>4, <1>5, <1>6, <1>7, <1>8 DEF CallFits

(* A call with nothing to file.                                            *)
LEMMA CallOver ==
  ASSUME NEW w \in Workers, task'[w].pc \in {"idle", "end"}
  PROVE  CallFits(task[w])'
BY DEF CallFits

LEMMA CachesKept ==
  ASSUME EpochInv, Onward, UNCHANGED <<items, pcache, ncache>>
  PROVE  (\A k \in Keys : Held(k, pcache[k]) /\ Held(k, ncache[k]))'
<1> SUFFICES ASSUME NEW k \in Keys PROVE Held(k, pcache[k])' /\ Held(k, ncache[k])'
  OBVIOUS
<1>1. k[2] \in Nat BY DEF Keys
<1>2. pcache[k] \in 0 .. Len(items) /\ ncache[k] \in 0 .. Len(items) BY DEF EpochInv, TypeOK
<1>3. Held(k, pcache[k]) /\ Held(k, ncache[k]) BY DEF EpochInv
<1>4. /\ \A i \in 0 .. Len(items) : Held(k, i) => Held(k, i)'
  BY <1>1, FiledKept DEF EpochInv
<1>5. /\ Held(k, pcache[k])' <=> \E i \in 0 .. Len(items) : i = pcache[k] /\ Held(k, i)'
      /\ Held(k, ncache[k])' <=> \E i \in 0 .. Len(items) : i = ncache[k] /\ Held(k, i)'
  BY <1>2 DEF Held, Filed, Fits
<1> QED BY <1>2, <1>3, <1>4, <1>5

(* The part of the invariant that is about calls, when one call changes    *)
(* and the data and the ACLs do not.                                       *)
LEMMA OneCall ==
  ASSUME EpochInv, TypeOK', NEW w \in Workers, \A u \in Workers \ {w} : task'[u] = task[u],
         CallFits(task[w])', UNCHANGED world,
         \A n \in 1 .. Len(items) : items'[n] = items[n],
         (\A k \in Keys : Held(k, pcache[k]) /\ Held(k, ncache[k]))'
  PROVE  EpochInv'
<1>1. Onward /\ epoch <= data BY StandingStill DEF EpochInv, TypeOK, world
<1>2. \A u \in Workers : CallFits(task[u])'
  <2> SUFFICES ASSUME NEW u \in Workers, u # w PROVE CallFits(task[u])'
    OBVIOUS
  <2>1. task'[u] = task[u] /\ CallFits(task[u]) BY DEF EpochInv
  <2> QED BY <2>1, <1>1, CallKept DEF EpochInv, world
<1>3. (data = epoch + unbumped)' BY DEF EpochInv, world
<1> QED BY <1>2, <1>3 DEF EpochInv

LEMMA OneCallHere ==
  ASSUME EpochInv, TypeOK', NEW w \in Workers, \A u \in Workers \ {w} : task'[u] = task[u],
         CallFits(task[w])', UNCHANGED world, UNCHANGED <<items, pcache, ncache>>
  PROVE  EpochInv'
<1>1. Onward BY StandingStill DEF EpochInv, world
<1> QED BY <1>1, CachesKept, OneCall

(* A query that has looked and starts a call.                              *)
LEMMA CallStarts ==
  ASSUME EpochInv, TypeOK', NEW w \in Workers, NEW i \in 0 .. Len(items),
         NEW stale \in BOOLEAN, NEW track \in BOOLEAN, NEW quiet \in BOOLEAN,
         task[w].pc = "look", task' = [task EXCEPT ![w] = Call(w, i, stale, track, quiet)],
         UNCHANGED world, UNCHANGED <<items, pcache, ncache>>
  PROVE  EpochInv'
<1>1. TypeOK /\ task \in [Workers -> Calls] BY DEF EpochInv, TypeOK
<1>2. task'[w] = Call(w, i, stale, track, quiet) /\ \A u \in Workers \ {w} : task'[u] = task[u]
  BY <1>1
<1>3. /\ task'[w].pc = "ask" /\ task'[w].src = task[w].src /\ task'[w].client = task[w].client
      /\ task'[w].began = task[w].began
  BY <1>1, <1>2, CallTyped
<1>4. task[w].began <= epoch /\ (data = task[w].began => task[w].src = policy[task[w].client])
  BY DEF EpochInv, CallFits
<1>5. CallFits(task[w])' BY <1>3, <1>4 DEF CallFits, world
<1> QED BY <1>2, <1>5, OneCallHere

(* A call that is over.                                                    *)
LEMMA CallEnds ==
  ASSUME EpochInv, TypeOK', NEW w \in Workers, task' = [task EXCEPT ![w] = NoTask],
         UNCHANGED world, UNCHANGED <<items, pcache, ncache>>
  PROVE  EpochInv'
<1>1. task \in [Workers -> Calls] BY DEF EpochInv, TypeOK
<1>2. task'[w].pc = "idle" /\ \A u \in Workers \ {w} : task'[u] = task[u] BY <1>1, NoTaskTyped
<1> QED BY <1>2, CallOver, OneCallHere

LEMMA SettleOver ==
  ASSUME EpochInv, NEW w \in Workers, NEW r \in BOOLEAN, Settle(w, r)
  PROVE  CallFits(task[w])' /\ \A u \in Workers \ {w} : task'[u] = task[u]
<1>1. TypeOK /\ task \in [Workers -> Calls] BY DEF EpochInv, TypeOK
<1>2. task'[w] \in {NoTask, Ending(w, r)} /\ \A u \in Workers \ {w} : task'[u] = task[u]
  BY <1>1, SettleTask
<1>3. task'[w].pc \in {"idle", "end"} BY <1>1, <1>2, NoTaskTyped, EndingTyped
<1> QED BY <1>2, <1>3, CallOver

LEMMA ArriveFits ==
  ASSUME EpochInv, TypeOK', NEW w \in Workers, NEW c \in Clients, Arrive(w, c)
  PROVE  EpochInv'
<1> DEFINE x == [NoTask EXCEPT !.pc = "look", !.client = c, !.src = keySrc(c), !.began = epoch]
<1>1. TypeOK /\ task \in [Workers -> Calls] /\ epoch \in Nat BY DEF EpochInv, TypeOK
<1>2. task'[w] = x /\ \A u \in Workers \ {w} : task'[u] = task[u] BY <1>1 DEF Arrive
<1>3. x.pc = "look" /\ x.client = c /\ x.src = policy[c] /\ x.began = epoch
  BY <1>1, ArriveTyped
<1>4. UNCHANGED world /\ UNCHANGED <<items, pcache, ncache>> BY DEF Arrive, caches
<1> HIDE DEF x
<1>5. CallFits(task[w])' BY <1>1, <1>2, <1>3, <1>4 DEF CallFits, world
<1> QED BY <1>2, <1>4, <1>5, OneCallHere

(* Nothing but the clock, the world or the waiting changes.                *)
LEMMA WorldMoves ==
  ASSUME EpochInv, TypeOK', UNCHANGED <<task, items, pcache, ncache>>, Onward,
         data' = data => UNCHANGED policy, data' = epoch' + unbumped'
  PROVE  EpochInv'
<1>1. epoch <= data BY DEF EpochInv, TypeOK
<1>2. \A u \in Workers : CallFits(task[u])'
  <2> SUFFICES ASSUME NEW u \in Workers PROVE CallFits(task[u])' OBVIOUS
  <2>1. task'[u] = task[u] /\ CallFits(task[u]) BY DEF EpochInv
  <2> QED BY <2>1, <1>1, CallKept DEF EpochInv
<1>3. (\A k \in Keys : Held(k, pcache[k]) /\ Held(k, ncache[k]))' BY CachesKept
<1> QED BY <1>2, <1>3 DEF EpochInv

LEMMA BackendFits ==
  ASSUME EpochInv, TypeOK', NEW w \in Workers, NEW kind, NEW t, Backend(w, kind, t)
  PROVE  EpochInv'
<1>1. TypeOK /\ task \in [Workers -> Calls] BY DEF EpochInv, TypeOK
<1> DEFINE x == task[w]
<1>2. /\ task'[w] = [x EXCEPT !.pc = "peek", !.ans =
           [kind |-> kind, scope |-> policy[x.client], ver |-> data, unsaid |-> unsaid, ttl |-> t]]
      /\ \A u \in Workers \ {w} : task'[u] = task[u]
  BY <1>1 DEF Backend, remote
<1>3. x \in Calls /\ x.pc = "ask" BY <1>1 DEF Backend
<1>4. /\ task'[w].pc = "peek" /\ task'[w].src = x.src /\ task'[w].client = x.client
      /\ task'[w].began = x.began /\ task'[w].ans.ver = data
      /\ task'[w].ans.scope = policy[x.client] /\ task'[w].ans.unsaid = unsaid
  BY <1>2, <1>3 DEF Calls
<1>5. UNCHANGED world /\ UNCHANGED <<items, pcache, ncache>>
  BY DEF Backend, caches
<1>6. x.began <= epoch /\ (data = x.began => x.src = policy[x.client])
  BY <1>3 DEF EpochInv, CallFits
<1>7. /\ data \in Nat /\ epoch \in Nat /\ epoch <= data /\ x.began \in Nat /\ told <= unsaid
  BY <1>1, <1>3, CacheAssumption DEF EpochInv, TypeOK, Calls
<1>8. CallFits(task[w])' BY <1>4, <1>5, <1>6, <1>7 DEF CallFits, Fits, world
<1> QED BY <1>2, <1>5, <1>8, OneCallHere

(* What covers an item that is held was filed under the same key.          *)
LEMMA AnsweringFiled ==
  ASSUME NEW k, NEW i, Held(k, i)
  PROVE  Filed(k, answeringItem(i))
BY DEF Held, Filed, answeringItem

LEMMA PeekFits ==
  ASSUME EpochInv, TypeOK', NEW w \in Workers, Peek(w)
  PROVE  EpochInv'
<1>1. TypeOK /\ task \in [Workers -> Calls] /\ epoch \in Nat BY DEF EpochInv, TypeOK
<1> DEFINE x == task[w]
           k == KeyNow(x.src)
           l == IF cfg.preferPositive THEN answeringItem(pcache[k]) ELSE 0
           r == x.stale => Refreshes(x.ans.kind)
<1>2. UNCHANGED world /\ UNCHANGED <<items, pcache, ncache>> BY DEF Peek, caches
<1>3. r \in BOOLEAN BY DEF Refreshes
<1>4. CASE ~HandedOn(w)
  <2>1. Settle(w, r) BY <1>4 DEF Peek
  <2> HIDE DEF r
  <2> QED BY <1>2, <1>3, <2>1, SettleOver, OneCallHere
<1>5. CASE HandedOn(w)
  <2>1. /\ task'[w] = [x EXCEPT !.pc = "store", !.ep = epoch, !.refreshed = r, !.lkg = l]
        /\ \A u \in Workers \ {w} : task'[u] = task[u]
    BY <1>1, <1>5 DEF Peek
  <2>2. x \in Calls /\ x.pc = "peek" BY <1>1 DEF Peek
  <2>3. k \in Keys /\ k = <<x.src, epoch>> BY <1>1, <2>2, KeyTyped DEF KeyNow, Calls
  <2>4. Held(k, pcache[k]) BY <2>3 DEF EpochInv
  <2>5. Filed(k, l) BY <2>4, AnsweringFiled DEF Filed
  <2> HIDE DEF l, r
  <2>6. /\ task'[w].pc = "store" /\ task'[w].src = x.src /\ task'[w].client = x.client
        /\ task'[w].began = x.began /\ task'[w].ans = x.ans /\ task'[w].ep = epoch
        /\ task'[w].lkg = l
    BY <2>1, <2>2 DEF Calls
  <2>7. /\ x.began <= epoch /\ (data = x.began => x.src = policy[x.client])
        /\ Fits(<<x.src, x.began>>, x.ans)
    BY <2>2 DEF EpochInv, CallFits
  <2>8. CallFits(task[w])' BY <1>1, <1>2, <2>3, <2>5, <2>6, <2>7 DEF CallFits, Fits, Filed, world
  <2> QED BY <1>2, <2>1, <2>8, OneCallHere
<1> QED BY <1>4, <1>5

(* set files the new item under the call's key; what a cache held before   *)
(* it holds, or it is replaced by that item.                               *)
LEMMA NewItemHeld ==
  ASSUME EpochInv, NEW w \in Workers, task[w].pc = "store", set(w), UNCHANGED world,
         NEW kx, kx = <<task[w].src, task[w].ep>>, NEW id, id = Len(items) + 1
  PROVE  Held(kx, id)'
<1> DEFINE x == task[w]
           new == NewItem(w)
<1>1. TypeOK BY DEF EpochInv
<1>2. x \in Calls /\ x.lkg \in 0 .. Len(items) BY <1>1 DEF TypeOK
<1>3. /\ Len(items) \in Nat /\ \A i \in 1 .. Len(items) : items'[i] = items[i]
      /\ items'[id] = new
  BY <1>1, SetItems, ItemFacts
<1>4. /\ new.ans = x.ans /\ new.late = (x.began # x.ep) /\ new.lkg \in {0, x.lkg}
  BY DEF NewItem, lastKnownGood
<1>5. Fits(<<x.src, x.began>>, x.ans) /\ Filed(kx, x.lkg) /\ kx[2] <= epoch
  BY DEF EpochInv, CallFits
<1>6. new.late \/ Fits(kx, new.ans) BY <1>4, <1>5
<1>7. Filed(kx, new.lkg) BY <1>4, <1>5 DEF Filed
<1> HIDE DEF new
<1>8. Filed(kx, id)' BY <1>3, <1>5, <1>6 DEF Filed, Fits, world
<1>9. (Filed(kx, items[id].lkg))'
  <2>1. new.lkg \in 0 .. Len(items) BY <1>2, <1>3, <1>4
  <2>2. new.lkg # 0 => items'[new.lkg] = items[new.lkg] BY <1>3, <2>1
  <2> QED BY <1>3, <1>7, <2>2 DEF Filed, Fits, world
<1> QED BY <1>8, <1>9 DEF Held

LEMMA SetFits ==
  ASSUME EpochInv, NEW w \in Workers, task[w].pc = "store", set(w), UNCHANGED world
  PROVE  (\A k \in Keys : Held(k, pcache[k]) /\ Held(k, ncache[k]))'
<1>1. TypeOK BY DEF EpochInv
<1>2. PICK kx : kx = <<task[w].src, task[w].ep>> OBVIOUS
<1>3. PICK id : id = Len(items) + 1 OBVIOUS
<1>4. Held(kx, id)' BY <1>2, <1>3, NewItemHeld
<1>5. task[w] \in Calls BY <1>1 DEF TypeOK
<1>6. kx \in Keys BY <1>2, <1>5 DEF Calls, Keys
<1>7. \A k \in Keys : /\ pcache'[k] = pcache[k] \/ (k = kx /\ pcache'[k] = id)
                      /\ ncache'[k] = ncache[k] \/ (k = kx /\ ncache'[k] = id)
  BY <1>1, <1>2, <1>3, <1>6 DEF set, TypeOK
<1>8. \A n \in 1 .. Len(items) : items'[n] = items[n] BY <1>1, SetItems
<1>9. Onward BY <1>1, StandingStill DEF world
<1> SUFFICES ASSUME NEW k \in Keys PROVE Held(k, pcache[k])' /\ Held(k, ncache[k])'
  OBVIOUS
<1>10. k[2] \in Nat BY DEF Keys
<1>11. \A i \in 0 .. Len(items) : Held(k, i) => Held(k, i)'
  BY <1>1, <1>8, <1>9, <1>10, FiledKept
<1>12. /\ pcache[k] \in 0 .. Len(items) /\ ncache[k] \in 0 .. Len(items)
       /\ Held(k, pcache[k]) /\ Held(k, ncache[k])
  BY DEF EpochInv, TypeOK
<1>13. PICK p : p = pcache'[k] OBVIOUS
<1>14. PICK n : n = ncache'[k] OBVIOUS
<1>15. Held(k, p)' BY <1>4, <1>7, <1>11, <1>12, <1>13
<1>16. Held(k, n)' BY <1>4, <1>7, <1>11, <1>12, <1>14
<1> QED BY <1>13, <1>14, <1>15, <1>16 DEF Held, Filed, Fits

LEMMA StoreFits ==
  ASSUME EpochInv, TypeOK', NEW w \in Workers, Store(w)
  PROVE  EpochInv'
<1>1. TypeOK /\ task \in [Workers -> Calls] BY DEF EpochInv, TypeOK
<1>2. set(w) /\ UNCHANGED world /\ task[w].pc = "store" BY DEF Store
<1>3. \A n \in 1 .. Len(items) : items'[n] = items[n] BY <1>1, <1>2, SetItems
<1>4. (\A k \in Keys : Held(k, pcache[k]) /\ Held(k, ncache[k]))' BY <1>2, SetFits
<1>5. CallFits(task[w])' /\ \A u \in Workers \ {w} : task'[u] = task[u]
  <2>1. CASE Settle(w, task[w].refreshed)
    <3>1. task[w].refreshed \in BOOLEAN BY <1>1 DEF Calls
    <3> QED BY <2>1, <3>1, SettleOver
  <2>2. CASE task' = [task EXCEPT ![w].pc = "drop"]
    <3>1. task'[w] = [task[w] EXCEPT !.pc = "drop"] /\ \A u \in Workers \ {w} : task'[u] = task[u]
      BY <2>2, <1>1
    <3>2. /\ task'[w].pc = "drop" /\ task'[w].src = task[w].src
          /\ task'[w].client = task[w].client /\ task'[w].began = task[w].began
      BY <3>1, <1>1 DEF Calls
    <3>3. task[w].began <= epoch /\ (data = task[w].began => task[w].src = policy[task[w].client])
      BY <1>2 DEF EpochInv, CallFits
    <3>4. CallFits(task[w])' BY <1>2, <3>2, <3>3 DEF CallFits, world
    <3> QED BY <3>1, <3>4
  <2> QED BY <2>1, <2>2 DEF Store
<1> QED BY <1>2, <1>3, <1>4, <1>5, OneCall

(* A cache is emptied at a key, or not.                                    *)
LEMMA Emptied ==
  ASSUME EpochInv, UNCHANGED <<data, epoch, told, items>>,
         \A k \in Keys : pcache'[k] \in {0, pcache[k]} /\ ncache'[k] \in {0, ncache[k]}
  PROVE  (\A k \in Keys : Held(k, pcache[k]) /\ Held(k, ncache[k]))'
<1> SUFFICES ASSUME NEW k \in Keys PROVE Held(k, pcache[k])' /\ Held(k, ncache[k])'
  OBVIOUS
<1>1. Held(k, pcache[k]) /\ Held(k, ncache[k]) BY DEF EpochInv
<1> QED BY <1>1 DEF Held, Filed, Fits

LEMMA DropFits ==
  ASSUME EpochInv, TypeOK', NEW w \in Workers, Drop(w)
  PROVE  EpochInv'
<1>1. TypeOK BY DEF EpochInv
<1>2. task[w].refreshed \in BOOLEAN BY <1>1 DEF Calls, TypeOK
<1>3. CallFits(task[w])' /\ \A u \in Workers \ {w} : task'[u] = task[u]
  BY <1>2, SettleOver DEF Drop
<1>4. UNCHANGED world /\ UNCHANGED items BY DEF Drop
<1>5. \A k \in Keys : pcache'[k] \in {0, pcache[k]} /\ ncache'[k] \in {0, ncache[k]}
  BY <1>1 DEF Drop, TypeOK
<1>6. (\A k \in Keys : Held(k, pcache[k]) /\ Held(k, ncache[k]))' BY <1>4, <1>5, Emptied DEF world
<1> QED BY <1>3, <1>4, <1>6, OneCall

LEMMA EvictFits ==
  ASSUME EpochInv, TypeOK', NEW q \in Keys, Evict(q)
  PROVE  EpochInv'
<1>1. UNCHANGED world /\ UNCHANGED <<items, task>> BY DEF Evict
<1>2. Onward /\ epoch <= data
  <2>1. Onward BY <1>1, StandingStill DEF EpochInv, world
  <2>2. epoch <= data BY DEF EpochInv, TypeOK
  <2> QED BY <2>1, <2>2
<1>3. \A u \in Workers : CallFits(task[u])'
  <2> SUFFICES ASSUME NEW u \in Workers PROVE CallFits(task[u])' OBVIOUS
  <2>1. task'[u] = task[u] /\ CallFits(task[u]) BY <1>1 DEF EpochInv
  <2> QED BY <2>1, <1>1, <1>2, CallKept DEF EpochInv, world
<1>4. \A k \in Keys : pcache'[k] \in {0, pcache[k]} /\ ncache'[k] \in {0, ncache[k]}
  BY DEF Evict, EpochInv, TypeOK
<1>5. (\A k \in Keys : Held(k, pcache[k]) /\ Held(k, ncache[k]))' BY <1>1, <1>4, Emptied DEF world
<1>6. (data = epoch + unbumped)' BY <1>1 DEF EpochInv, world
<1> QED BY <1>3, <1>5, <1>6 DEF EpochInv

LEMMA EpochStep == EpochInv /\ [Next]_vars => EpochInv'
<1> SUFFICES ASSUME EpochInv, [Next]_vars PROVE EpochInv' OBVIOUS
<1>t. TypeOK /\ TypeOK' BY TypeStep DEF EpochInv
<1>l. 0 \in 0 .. Len(items) BY <1>t, ItemFacts
<1>n. data \in Nat /\ epoch \in Nat /\ unbumped \in Nat /\ data = epoch + unbumped
  BY <1>t DEF TypeOK, EpochInv
<1>1. ASSUME Tick \/ MutateSilently \/ (\E w \in Workers : Timeout(w)) \/ UNCHANGED vars
      PROVE  EpochInv'
  <2>1. UNCHANGED <<task, items, pcache, ncache, data, epoch, policy, unbumped, told>>
    BY <1>1 DEF Tick, MutateSilently, Timeout, vars, caches, world
  <2>2. Onward BY <2>1, <1>t, StandingStill
  <2> QED BY <2>1, <2>2, <1>t, <1>n, WorldMoves
<1>2. ASSUME NEW p \in Policies, Mutate(p) PROVE EpochInv'
  <2>1. /\ UNCHANGED <<task, items, pcache, ncache, epoch, told>>
        /\ data' = data + 1 /\ unbumped' = unbumped + 1
    BY <1>2 DEF Mutate, caches
  <2>2. Onward /\ data' # data /\ data' = epoch' + unbumped'
    BY <2>1, <1>n DEF Onward
  <2> QED BY <2>1, <2>2, <1>t, WorldMoves
<1>3. ASSUME Bump PROVE EpochInv'
  <2>1. /\ UNCHANGED <<task, items, pcache, ncache, data, policy>>
        /\ epoch' = epoch + 1 /\ unbumped' = unbumped - 1 /\ unbumped > 0
    BY <1>3 DEF Bump, caches
  <2>2. Onward /\ data' = epoch' + unbumped'
    BY <2>1, <1>n DEF Onward
  <2> QED BY <2>1, <2>2, <1>t, WorldMoves
<1>4. ASSUME NEW w \in Workers, Miss(w) PROVE EpochInv'
  <2>1. /\ task' = [task EXCEPT ![w] = Call(w, 0, FALSE, FALSE, FALSE)] /\ task[w].pc = "look"
        /\ UNCHANGED world /\ UNCHANGED <<items, pcache, ncache>>
    BY <1>4 DEF Miss, caches
  <2>2. FALSE \in BOOLEAN OBVIOUS
  <2> QED BY <2>1, <2>2, <1>l, <1>t, CallStarts
<1>5. ASSUME NEW w \in Workers, Hit(w) PROVE EpochInv'
  <2> DEFINE i == Found(w)
  <2>1. i \in 0 .. Len(items) BY <1>t, FoundTyped
  <2>2. UNCHANGED world /\ UNCHANGED <<items, pcache, ncache>> /\ task[w].pc = "look"
    BY <1>5 DEF Hit, caches
  <2>3. \/ task' = [task EXCEPT ![w] = Call(w, i, FALSE, TRUE, TRUE)]
        \/ task' = [task EXCEPT ![w] = NoTask]
    BY <1>5 DEF Hit
  <2>4. FALSE \in BOOLEAN /\ TRUE \in BOOLEAN OBVIOUS
  <2> HIDE DEF i
  <2> QED BY <2>1, <2>2, <2>3, <2>4, <1>t, CallStarts, CallEnds
<1>6. ASSUME NEW w \in Workers, HitStale(w) PROVE EpochInv'
  <2> DEFINE i == Found(w)
             track == cfg.recheck > 0
             quiet == cfg.mode = "timeout"
  <2>1. i \in 0 .. Len(items) BY <1>t, FoundTyped
  <2>2. UNCHANGED world /\ UNCHANGED <<items, pcache, ncache>> /\ task[w].pc = "look"
    BY <1>6 DEF HitStale, caches
  <2>3. \/ task' = [task EXCEPT ![w] = Call(w, i, TRUE, TRUE, TRUE)]
        \/ task' = [task EXCEPT ![w] = Call(w, i, TRUE, track, quiet)]
        \/ task' = [task EXCEPT ![w] = NoTask]
    BY <1>6 DEF HitStale
  <2>4. TRUE \in BOOLEAN /\ track \in BOOLEAN /\ quiet \in BOOLEAN OBVIOUS
  <2> HIDE DEF i, track, quiet
  <2> QED BY <2>1, <2>2, <2>3, <2>4, <1>t, CallStarts, CallEnds
<1>7. ASSUME NEW w \in Workers, Return(w) PROVE EpochInv'
  BY <1>7, <1>t, CallEnds DEF Return
<1> QED
  BY <1>1, <1>2, <1>3, <1>4, <1>5, <1>6, <1>7, <1>t, ArriveFits, BackendFits, PeekFits,
     StoreFits, DropFits, EvictFits
  DEF Next, Work

LEMMA EpochInvariant == Spec => []EpochInv
<1>1. Init => EpochInv
  <2> SUFFICES ASSUME Init PROVE EpochInv OBVIOUS
  <2>1. \A w \in Workers : CallFits(task[w]) BY NoTaskTyped DEF Init, CallFits
  <2>2. \A k \in Keys : Held(k, pcache[k]) /\ Held(k, ncache[k]) BY DEF Init, Held, Filed
  <2>3. data = epoch + unbumped BY DEF Init
  <2> QED BY <2>1, <2>2, <2>3, InitTyped DEF EpochInv
<1> QED BY <1>1, EpochStep, PTL DEF Spec

(* What is in force fits the epoch, which is the version of the data when  *)
(* every change has its Bump.                                              *)
LEMMA InForceFits ==
  ASSUME EpochInv, unbumped = 0, NEW src \in Scopes, NEW i \in InForce(src)
  PROVE  items[i].ans.ver = data /\ items[i].ans.scope = src /\ items[i].ans.unsaid >= told
<1> DEFINE k == KeyNow(src)
<1>1. TypeOK BY DEF EpochInv
<1>2. k \in Keys /\ k = <<src, epoch>> BY <1>1, KeyTyped DEF KeyNow
<1>3. Held(k, pcache[k]) /\ Held(k, ncache[k]) BY <1>2 DEF EpochInv
<1>4. pcache[k] \in 0 .. Len(items) /\ ncache[k] \in 0 .. Len(items) BY <1>1, <1>2 DEF TypeOK
<1>5. PICK h \in {pcache[k], ncache[k]} \ {0} : i = h \/ (i = items[h].lkg /\ i # 0)
  BY DEF InForce, Given
<1>6. i # 0 /\ ~items[i].late /\ Filed(k, i) BY <1>3, <1>5 DEF InForce, Held
<1>7. Fits(k, items[i].ans) BY <1>6 DEF Filed
<1>8. items[i].ans.ver \in Nat /\ items[i].ans.unsaid \in Nat /\ told \in Nat /\ epoch \in Nat
  <2>1. h \in 1 .. Len(items) BY <1>4, <1>5, <1>1, ItemFacts
  <2>2. i \in 1 .. Len(items) BY <1>1, <1>5, <1>6, <2>1, ItemFacts
  <2> QED BY <1>1, <2>2, ItemFacts DEF Answers, TypeOK
<1>9. data = epoch /\ data \in Nat BY <1>1 DEF EpochInv, TypeOK
<1> QED BY <1>2, <1>7, <1>8, <1>9 DEF Fits

(* Once every change that is to have a Bump has it, what a client can be   *)
(* given was made for its scope as the ACLs define it now, whoever caused  *)
(* it to be stored (keySrc, newPrefetchResponseWriter, hash).              *)
THEOREM ScopesStayApart == Spec => []ScopeKept
<1>1. EpochInv => ScopeKept BY InForceFits DEF ScopeKept
<1> QED BY <1>1, EpochInvariant, PTL

(* No answer outlives the next Bump.  What a client can be given knows of  *)
(* every change that had a Bump, and of every change without one that came *)
(* before the last Bump, whatever other changes there are (hash,           *)
(* cachegen.Bump); only a call that a Bump overtook may file an older one. *)
THEOREM BumpOutdates == Spec => []NothingOutlives
<1>1. EpochInv => NothingOutlives BY InForceFits DEF NothingOutlives
<1> QED BY <1>1, EpochInvariant, PTL

----------------------------------------------------------------------------
(* The last good answer.                                                   *)

(* Whatever the settings, the last answering item stored under a key is    *)
(* the one its entry leads to.                                             *)
KeptAt(k)  == best[k] # 0 => answeringItem(pcache[k]) = best[k]
KeptInv    == TypeOK /\ \A k \in Keys : KeptAt(k)

(* An item that is held, or covered by one, is the same item after set.    *)
LEMMA AnsweringKept ==
  ASSUME TypeOK, NEW w \in Workers, set(w), NEW i \in 0 .. Len(items)
  PROVE  answeringItem(i)' = answeringItem(i)
<1>1. /\ Len(items) \in Nat
      /\ \A n \in 1 .. Len(items) : items'[n] = items[n] /\ items[n].lkg \in 0 .. Len(items)
  BY SetItems, ItemFacts
<1>2. CASE i = 0 BY <1>2 DEF answeringItem
<1>3. CASE i # 0
  <2>1. items'[i] = items[i] /\ items[i].lkg \in 0 .. Len(items) BY <1>1, <1>3
  <2>2. items[i].lkg # 0 => items'[items[i].lkg] = items[items[i].lkg] BY <1>1, <2>1
  <2> QED BY <1>3, <2>1, <2>2 DEF answeringItem, answering
<1> QED BY <1>2, <1>3

(* The new item leads to itself, or to the good one it was told to cover.  *)
LEMMA NewItemLeads ==
  ASSUME TypeOK, NEW w \in Workers, set(w), NEW id, id = Len(items) + 1
  PROVE  /\ task[w].ans.kind = "answer" => answeringItem(id)' = id
         /\ task[w].ans.kind = "empty" /\ task[w].lkg # 0 /\ answering(task[w].lkg)
              => answeringItem(id)' = task[w].lkg
<1>1. /\ Len(items) \in Nat /\ items'[id] = NewItem(w)
      /\ \A n \in 1 .. Len(items) : items'[n] = items[n]
  BY SetItems, ItemFacts
<1>2. id # 0 BY <1>1
<1>3. NewItem(w).ans = task[w].ans
      /\ NewItem(w).lkg = IF task[w].ans.kind = "empty" THEN task[w].lkg ELSE 0
  BY DEF NewItem, lastKnownGood
<1>4. task[w].lkg \in 0 .. Len(items) BY DEF TypeOK
<1>5. task[w].lkg # 0 => items'[task[w].lkg] = items[task[w].lkg] BY <1>1, <1>4
<1> QED BY <1>1, <1>2, <1>3, <1>5 DEF answeringItem, answering

LEMMA SetKeeps ==
  ASSUME KeptInv, NEW w \in Workers, set(w), NEW k \in Keys
  PROVE  KeptAt(k)'
<1>1. TypeOK BY DEF KeptInv
<1>2. PICK kx : kx = <<task[w].src, task[w].ep>> OBVIOUS
<1>3. PICK id : id = Len(items) + 1 OBVIOUS
<1>4. task[w] \in Calls BY <1>1 DEF TypeOK
<1>5. kx \in Keys BY <1>2, <1>4 DEF Calls, Keys
<1>6. pcache[k] \in 0 .. Len(items) /\ best[k] \in 0 .. Len(items) /\ KeptAt(k)
  BY <1>1 DEF KeptInv, TypeOK
<1>7. CASE k # kx
  <2>1. pcache'[k] = pcache[k] /\ best'[k] = best[k]
    BY <1>1, <1>2, <1>7 DEF set, TypeOK
  <2>2. answeringItem(pcache[k])' = answeringItem(pcache[k])
    <3>1. PICK p : p = pcache[k] OBVIOUS
    <3>2. answeringItem(p)' = answeringItem(p) BY <3>1, <1>1, <1>6, AnsweringKept
    <3> QED BY <2>1, <3>1, <3>2 DEF answeringItem, answering
  <2> QED BY <1>6, <2>1, <2>2 DEF KeptAt
<1>8. CASE k = kx
  <2>1. CASE task[w].ans.kind = "answer"
    <3>1. pcache'[k] = id /\ best'[k] = id
      BY <1>1, <1>2, <1>3, <1>5, <1>8, <2>1 DEF set, TypeOK
    <3>2. answeringItem(id)' = id BY <1>1, <1>3, <2>1, NewItemLeads
    <3> QED BY <3>1, <3>2 DEF KeptAt, answeringItem, answering
  <2>2. CASE task[w].ans.kind = "empty"
    <3>1. pcache'[k] = id /\ best'[k] = IF task[w].lkg # best[k] THEN 0 ELSE best[k]
      BY <1>1, <1>2, <1>3, <1>5, <1>8, <2>2 DEF set, TypeOK
    <3>2. CASE best'[k] = 0 BY <3>2 DEF KeptAt
    <3>3. CASE best'[k] # 0
      <4>1. task[w].lkg = best[k] /\ best[k] # 0 /\ best'[k] = best[k] BY <3>1, <3>3
      <4>2. answering(task[w].lkg) BY <1>6, <4>1 DEF KeptAt, answeringItem
      <4>3. answeringItem(id)' = task[w].lkg BY <1>1, <1>3, <2>2, <4>1, <4>2, NewItemLeads
      <4> QED BY <3>1, <4>1, <4>3 DEF KeptAt, answeringItem, answering
    <3> QED BY <3>2, <3>3
  <2>3. CASE task[w].ans.kind \in {"denial", "servfail"}
    <3>1. pcache'[k] = pcache[k] /\ best'[k] = best[k]
      BY <1>1, <1>2, <1>8, <2>3 DEF set, TypeOK
    <3>2. PICK p : p = pcache[k] OBVIOUS
    <3>3. answeringItem(p)' = answeringItem(p) BY <3>2, <1>1, <1>6, AnsweringKept
    <3> QED BY <1>6, <3>1, <3>2, <3>3 DEF KeptAt, answeringItem, answering
  <2> QED BY <2>1, <2>2, <2>3 DEF set
<1> QED BY <1>7, <1>8

LEMMA KeptStep == KeptInv /\ [Next]_vars => KeptInv'
<1> SUFFICES ASSUME KeptInv, [Next]_vars PROVE KeptInv' OBVIOUS
<1>t. TypeOK /\ TypeOK' BY TypeStep DEF KeptInv
<1>1. ASSUME UNCHANGED <<items, pcache, best>> PROVE \A k \in Keys : KeptAt(k)'
  BY <1>1 DEF KeptInv, KeptAt, answeringItem, answering
<1>2. ASSUME NEW q \in Keys, Evict(q) PROVE \A k \in Keys : KeptAt(k)'
  <2>1. \A k \in Keys : best'[k] # 0 => pcache'[k] = pcache[k] /\ best'[k] = best[k]
    BY <1>2, <1>t DEF Evict, TypeOK
  <2>2. UNCHANGED items BY <1>2 DEF Evict
  <2> QED BY <2>1, <2>2 DEF KeptInv, KeptAt, answeringItem, answering
<1>3. ASSUME NEW w \in Workers, Store(w) PROVE \A k \in Keys : KeptAt(k)'
  BY <1>3, SetKeeps DEF Store
<1>4. ASSUME Tick \/ Bump \/ MutateSilently \/ (\E p \in Policies : Mutate(p))
      PROVE  UNCHANGED <<items, pcache, best>>
  BY <1>4 DEF Tick, Bump, MutateSilently, Mutate, caches
<1>5. ASSUME NEW w \in Workers,
             \/ Peek(w) \/ Timeout(w) \/ Miss(w) \/ Hit(w) \/ HitStale(w) \/ Drop(w) \/ Return(w)
             \/ \E kind \in cfg.answers, t \in TTLs : Backend(w, kind, t)
             \/ \E c \in Clients : Arrive(w, c)
      PROVE  UNCHANGED <<items, pcache, best>>
  BY <1>5 DEF Peek, Timeout, Backend, Miss, Hit, HitStale, Drop, Return, Arrive, caches
<1>6. ASSUME UNCHANGED vars PROVE UNCHANGED <<items, pcache, best>> BY <1>6 DEF vars
<1>7. \A k \in Keys : KeptAt(k)'
  BY <1>1, <1>2, <1>3, <1>4, <1>5, <1>6 DEF Next, Work
<1> QED BY <1>7, <1>t DEF KeptInv

LEMMA KeptInvariant == Spec => []KeptInv
<1>1. Init => KeptInv BY InitTyped DEF Init, KeptInv, KeptAt
<1> QED BY <1>1, KeptStep, PTL DEF Spec

(* Under prefer_positive a stored answer stays what its entry leads to:    *)
(* no refresh that brings an empty answer, a denial or a failure destroys  *)
(* the last good one (set, answeringItem).                                 *)
THEOREM AnswerSurvives == Spec => []GoodAnswerKept
<1>1. KeptInv => GoodAnswerKept BY DEF KeptInv, KeptAt, GoodAnswerKept
<1> QED BY <1>1, KeptInvariant, PTL

(* What the client gets of it: while that answer is fresh, or stale for    *)
(* less than stale_up_to, a lookup finds it and nothing else, whatever     *)
(* denial or failure has been stored since.                                *)
GoodAnswerFound ==
    cfg.preferPositive /\ cfg.staleUpTo > 0 =>
      \A k \in Keys : best[k] # 0 /\ InTime(best[k], clock)
                       => getIfNotStale(k, clock) = best[k]

(* Under prefer_positive the last good answer is what a client is given    *)
(* for as long as it is in time (getIfNotStale).                           *)
THEOREM AnswerServed == Spec => []GoodAnswerFound
<1>1. KeptInv => GoodAnswerFound BY DEF KeptInv, KeptAt, GoodAnswerFound, getIfNotStale
<1> QED BY <1>1, KeptInvariant, PTL
-----------------------------------------------------------------------------
(* How a message is classified.                                            *)
LEMMA KindFacts ==
  ASSUME NEW m \in Messages
  PROVE  /\ Kind(m) = "answer" => answersQuestion(m)
         /\ Kind(m) = "empty" => m.answer = {}
         /\ Kind(m) = "denial" => m.soa
<1>t. /\ m.rcode \in {"NOERROR", "NXDOMAIN", "SERVFAIL", "REFUSED"} /\ m.soa \in BOOLEAN
      /\ m.truncated \in BOOLEAN /\ m.referral \in BOOLEAN
  BY DEF Messages
<1> DEFINE t == cacheResponseType(m)
<1>1. /\ m.rcode = "NXDOMAIN" => Typify(m) = "NameError"
      /\ m.rcode = "SERVFAIL" => Typify(m) = "ServerError"
      /\ m.rcode = "REFUSED" => Typify(m) = "OtherError"
      /\ m.rcode = "NOERROR" /\ m.answer # {} => Typify(m) = "NoError"
      /\ m.rcode = "NOERROR" /\ m.answer = {} =>
           Typify(m) = IF m.soa THEN "NoData" ELSE IF m.referral THEN "Delegation" ELSE "NoError"
  BY <1>t DEF Typify
<1>2. /\ t = "NameError" => m.rcode = "NXDOMAIN"
      /\ t = "NoData" => m.soa
      /\ t \notin {"NameError", "NoData", "ServerError", "OtherError"} /\ m.answer # {} =>
           t = "NoError" /\ ~(m.soa /\ isNODATA(m))
  BY <1>1, <1>t DEF cacheResponseType
<1>3. CASE Cacheable(m)
  <2>1. /\ t # "OtherError"
        /\ t = "NameError" => m.soa
        /\ ~(t = "NoError" /\ ~m.soa /\ isNODATA(m))
    BY <1>3 DEF Cacheable
  <2>2. Kind(m) = IF t \in {"NameError", "NoData"} THEN "denial"
                  ELSE IF t = "ServerError" THEN "servfail"
                  ELSE IF answersQuestion(m) THEN "answer" ELSE "empty"
    BY <1>3 DEF Kind
  <2>3. Kind(m) = "empty" => m.answer = {}
    <3> SUFFICES ASSUME Kind(m) = "empty", m.answer # {} PROVE FALSE OBVIOUS
    <3>1. isNODATA(m) BY <2>2 DEF isNODATA
    <3> QED BY <1>2, <2>1, <2>2, <3>1
  <2> QED BY <1>2, <2>1, <2>2, <2>3
<1>4. CASE ~Cacheable(m)
  <2>1. Kind(m) \in {"bare", "other"} BY <1>4 DEF Kind
  <2> QED BY <2>1
<1> QED BY <1>3, <1>4

LEMMA TargetFacts ==
  ASSUME NEW A \in SUBSET Records, NEW n
  PROVE  /\ CNAMETargets(A, n) \subseteq Names /\ IsFiniteSet(CNAMETargets(A, n))
         /\ Cardinality(CNAMETargets(A, n)) \in Nat
         /\ \/ CNAMETargets(A, n) = {} /\ Cardinality(CNAMETargets(A, n)) = 0
            \/ /\ Cardinality(CNAMETargets(A, n)) = 1
               /\ \E t \in Names : CNAMETargets(A, n) = {t}
            \/ CNAMETargets(A, n) # {} /\ Cardinality(CNAMETargets(A, n)) > 1
<1> DEFINE T == CNAMETargets(A, n)
<1>1. T \subseteq Names BY QuestionAssumption DEF CNAMETargets, Records
<1>2. IsFiniteSet(T) BY <1>1, QuestionAssumption, FS_Subset
<1> HIDE DEF T
<1>3. Cardinality(T) \in Nat /\ (Cardinality(T) = 0 <=> T = {}) BY <1>2, FS_CardinalityType, FS_EmptySet
<1>4. Cardinality(T) = 1 => \E t : T = {t} BY <1>2, FS_Singleton
<1> QED BY <1>1, <1>2, <1>3, <1>4 DEF T

(* Where the CNAMEs lead from a name with no target, and with one.         *)
LEMMA BeyondFacts ==
  ASSUME NEW A \in SUBSET Records, NEW n \in Names
  PROVE  /\ CNAMETargets(A, n) = {} => Beyond(A, n) = {}
         /\ \A t \in Names : CNAMETargets(A, n) = {t} => Beyond(A, n) = {t} \cup Beyond(A, t)
<1> DEFINE T(x) == CNAMETargets(A, x)
           Closed(S) == \A x \in S : T(x) \subseteq S
<1>1. \A x, m : m \in Beyond(A, x) <=>
        m \in Names /\ \A S \in SUBSET Names : T(x) \subseteq S /\ Closed(S) => m \in S
  BY DEF Beyond
<1>t. \A x : T(x) \subseteq Names BY TargetFacts
<1> HIDE DEF T
<1>2. ASSUME T(n) = {} PROVE Beyond(A, n) = {} BY <1>1, <1>2
<1>3. ASSUME NEW t \in Names, T(n) = {t} PROVE Beyond(A, n) = {t} \cup Beyond(A, t)
  <2> DEFINE R == {t} \cup Beyond(A, t)
  <2>1. R \in SUBSET Names BY <1>1
  <2>2. Closed(R)
    <3> SUFFICES ASSUME NEW x \in R, NEW m \in T(x) PROVE m \in Beyond(A, t) OBVIOUS
    <3>1. m \in Names BY <1>t
    <3>2. ASSUME NEW S \in SUBSET Names, T(t) \subseteq S, Closed(S) PROVE m \in S
      <4>1. CASE x = t BY <3>2, <4>1
      <4>2. CASE x \in Beyond(A, t)
        <5>1. x \in S BY <1>1, <3>2, <4>2
        <5> QED BY <3>2, <5>1
      <4> QED BY <4>1, <4>2
    <3> QED BY <1>1, <3>1, <3>2
  <2>3. T(n) \subseteq R BY <1>3
  <2>4. Beyond(A, n) \subseteq R
    <3> HIDE DEF R
    <3> QED BY <1>1, <2>1, <2>2, <2>3
  <2>5. ASSUME NEW m \in R PROVE m \in Beyond(A, n)
    <3>1. ASSUME NEW S \in SUBSET Names, T(n) \subseteq S, Closed(S) PROVE m \in S
      <4>1. t \in S /\ T(t) \subseteq S BY <1>3, <3>1
      <4> QED BY <1>1, <3>1, <4>1
    <3> QED BY <1>1, <2>1, <3>1
  <2> QED BY <2>4, <2>5
<1> QED BY <1>2, <1>3 DEF T

(* What the loop comes to, said without a loop.                            *)
Sound(A, v, n) ==
    \A m \in {n} \cup Beyond(A, n) :
      m \notin v /\ m \notin Beyond(A, m) /\ Cardinality(CNAMETargets(A, m)) <= 1
Ends(A, v, n) ==
    IF Sound(A, v, n) THEN {m \in {n} \cup Beyond(A, n) : CNAMETargets(A, m) = {}} ELSE {}

LEMMA EndsLoop ==
  ASSUME NEW A \in SUBSET Records, NEW v \in SUBSET Names, NEW n \in Names
  PROVE  LET T == CNAMETargets(A, n)
         IN  Ends(A, v, n) = IF n \in v \/ Cardinality(T) > 1 THEN {}
                             ELSE IF T = {} THEN {n}
                             ELSE Ends(A, v \cup {n}, CHOOSE t \in T : TRUE)
<1> DEFINE T == CNAMETargets(A, n)
<1>1. CASE n \in v \/ Cardinality(T) > 1
  <2>0. Cardinality(T) \in Nat BY TargetFacts
  <2>1. ~Sound(A, v, n) BY <1>1, <2>0 DEF Sound
  <2> QED BY <1>1, <2>1 DEF Ends
<1>2. CASE n \notin v /\ T = {}
  <2>1. Beyond(A, n) = {} /\ Cardinality(T) = 0 BY <1>2, BeyondFacts, TargetFacts
  <2>2. Sound(A, v, n) BY <1>2, <2>1 DEF Sound
  <2> QED BY <1>2, <2>1, <2>2 DEF Ends
<1>3. CASE n \notin v /\ T # {} /\ ~(Cardinality(T) > 1)
  <2>1. PICK t \in Names : T = {t} BY <1>3, TargetFacts
  <2>2. Beyond(A, n) = {t} \cup Beyond(A, t) /\ Cardinality(T) = 1 BY <1>3, <2>1, BeyondFacts, TargetFacts
  <2>3. (CHOOSE u \in T : TRUE) = t BY <2>1
  <2>4. Sound(A, v, n) <=> Sound(A, v \cup {n}, t) BY <1>3, <2>2 DEF Sound
  <2>5. Ends(A, v, n) = Ends(A, v \cup {n}, t) BY <1>3, <2>2, <2>4 DEF Ends
  <2> QED BY <1>3, <2>3, <2>5
<1> QED BY <1>1, <1>2, <1>3

(* The loop as a function of its two variables, a round at a time.         *)
Round(A, f, v, n) ==
    LET targets == CNAMETargets(A, n) IN
      IF n \in v \/ Cardinality(targets) > 1 THEN {}
      ELSE IF targets = {} THEN {n}
      ELSE f[Loop(v \cup {n}, CHOOSE t \in targets : TRUE)]
Walks(A, f) == f = [at \in Loops |-> Round(A, f, at.visited, at.name)]

LEMMA WalksFacts ==
  ASSUME NEW A, NEW f
  PROVE  Walks(A, f) <=>
           /\ f = [at \in Loops |-> f[at]]
           /\ \A v \in SUBSET Names, n \in Names : f[Loop(v, n)] = Round(A, f, v, n)
<1> DEFINE R(v, n) == Round(A, f, v, n)
<1> HIDE DEF R
<1>1. \A v \in SUBSET Names, n \in Names : /\ Loop(v, n) \in Loops
                                           /\ Loop(v, n).visited = v /\ Loop(v, n).name = n
  BY DEF Loop, Loops
<1>2. \A at \in Loops : /\ at.visited \in SUBSET Names /\ at.name \in Names
                         /\ at = Loop(at.visited, at.name)
  BY DEF Loop, Loops
<1>3. Walks(A, f) <=> f = [at \in Loops |-> R(at.visited, at.name)] BY DEF Walks, R
<1>4. ASSUME f = [at \in Loops |-> R(at.visited, at.name)],
             NEW v \in SUBSET Names, NEW n \in Names
      PROVE  f[Loop(v, n)] = R(v, n)
  <2>1. f[Loop(v, n)] = R(Loop(v, n).visited, Loop(v, n).name) BY <1>1, <1>4
  <2> QED BY <1>1, <2>1
<1>5. ASSUME f = [at \in Loops |-> f[at]],
             \A v \in SUBSET Names, n \in Names : f[Loop(v, n)] = R(v, n)
      PROVE  f = [at \in Loops |-> R(at.visited, at.name)]
  <2>1. ASSUME NEW at \in Loops PROVE f[at] = R(at.visited, at.name)
    <3>1. f[Loop(at.visited, at.name)] = R(at.visited, at.name) BY <1>2, <1>5
    <3> QED BY <1>2, <3>1
  <2> QED BY <1>5, <2>1
<1>6. f = [at \in Loops |-> R(at.visited, at.name)] => f = [at \in Loops |-> f[at]] OBVIOUS
<1>7. (\A v \in SUBSET Names, n \in Names : f[Loop(v, n)] = R(v, n))
        <=> \A v \in SUBSET Names, n \in Names : f[Loop(v, n)] = Round(A, f, v, n)
  BY DEF R
<1> QED BY <1>3, <1>4, <1>5, <1>6, <1>7

LEMMA WalkExists ==
  ASSUME NEW A \in SUBSET Records
  PROVE  \E f : Walks(A, f)
<1> DEFINE f == [at \in Loops |-> Ends(A, at.visited, at.name)]
<1>1. ASSUME NEW v \in SUBSET Names, NEW n \in Names PROVE f[Loop(v, n)] = Ends(A, v, n)
  BY DEF Loop, Loops
<1>2. f = [at \in Loops |-> f[at]] OBVIOUS
<1> HIDE DEF f
<1>3. ASSUME NEW v \in SUBSET Names, NEW n \in Names
      PROVE  f[Loop(v, n)] = Round(A, f, v, n)
  <2> DEFINE t == CHOOSE t \in CNAMETargets(A, n) : TRUE
  <2>1. CNAMETargets(A, n) # {} => t \in Names BY TargetFacts
  <2> HIDE DEF t
  <2>2. CNAMETargets(A, n) # {} => f[Loop(v \cup {n}, t)] = Ends(A, v \cup {n}, t) BY <1>1, <2>1
  <2>3. Ends(A, v, n) = IF n \in v \/ Cardinality(CNAMETargets(A, n)) > 1 THEN {}
                        ELSE IF CNAMETargets(A, n) = {} THEN {n} ELSE Ends(A, v \cup {n}, t)
    BY EndsLoop DEF t
  <2>4. Round(A, f, v, n) = IF n \in v \/ Cardinality(CNAMETargets(A, n)) > 1 THEN {}
                            ELSE IF CNAMETargets(A, n) = {} THEN {n} ELSE f[Loop(v \cup {n}, t)]
    BY DEF Round, t
  <2> QED BY <1>1, <2>2, <2>3, <2>4
<1>4. Walks(A, f) BY <1>2, <1>3, WalksFacts
<1> QED BY <1>4

(* Every round visits one more name.                                       *)
LEMMA WalkEnds ==
  ASSUME NEW A \in SUBSET Records, NEW f, Walks(A, f), NEW v \in SUBSET Names, NEW n \in Names
  PROVE  f[Loop(v, n)] = Ends(A, v, n)
<1> DEFINE Left(w) == Cardinality(Names \ w)
           Apart(w, m) == f[Loop(w, m)] # Ends(A, w, m)
           Bad == {k \in Nat : \E w \in SUBSET Names, m \in Names : k = Left(w) /\ Apart(w, m)}
<1>1. \A w : Left(w) \in Nat /\ IsFiniteSet(Names \ w)
  <2>1. \A w : IsFiniteSet(Names \ w) BY QuestionAssumption, FS_Subset
  <2> QED BY <2>1, FS_CardinalityType
<1>2. ASSUME Bad # {} PROVE FALSE
  <2>1. PICK k \in Bad : \A j \in Bad : k <= j
    <3>1. Bad \in SUBSET Nat OBVIOUS
    <3> HIDE DEF Bad
    <3>2. PICK m \in Bad : \A j \in Bad : ~(<<j, m>> \in OpToRel(<, Nat))
      BY <1>2, <3>1, NatLessThanWellFounded, WFMin
    <3>3. \A j \in Bad : ~(j < m) BY <3>1, <3>2 DEF OpToRel
    <3> QED BY <3>1, <3>3
  <2>2. PICK w \in SUBSET Names, m \in Names : k = Left(w) /\ Apart(w, m) BY <2>1
  <2> DEFINE T == CNAMETargets(A, m)
             t == CHOOSE t \in T : TRUE
  <2>3. f[Loop(w, m)] = IF m \in w \/ Cardinality(T) > 1 THEN {}
                        ELSE IF T = {} THEN {m} ELSE f[Loop(w \cup {m}, t)]
    <3>1. f[Loop(w, m)] = Round(A, f, w, m) BY WalksFacts
    <3> QED BY <3>1 DEF Round
  <2>4. Ends(A, w, m) = IF m \in w \/ Cardinality(T) > 1 THEN {}
                        ELSE IF T = {} THEN {m} ELSE Ends(A, w \cup {m}, t)
    BY EndsLoop
  <2>5. m \notin w /\ T # {} /\ f[Loop(w \cup {m}, t)] # Ends(A, w \cup {m}, t)
    BY <2>2, <2>3, <2>4
  <2>6. t \in Names BY <2>5, TargetFacts
  <2>7. Left(w \cup {m}) < Left(w)
    <3>1. Names \ (w \cup {m}) = (Names \ w) \ {m} OBVIOUS
    <3>2. Cardinality((Names \ w) \ {m}) = Cardinality(Names \ w) - 1
      BY <1>1, <2>5, FS_RemoveElement
    <3>3. Left(w) \in Nat BY <1>1
    <3>4. Left(w \cup {m}) = Left(w) - 1 BY <3>1, <3>2
    <3> HIDE DEF Left
    <3> QED BY <3>3, <3>4
  <2> HIDE DEF t, T, Left
  <2>8. Left(w \cup {m}) \in Bad BY <1>1, <2>5, <2>6
  <2> QED BY <1>1, <2>1, <2>2, <2>7, <2>8
<1>3. Apart(v, n) => Left(v) \in Bad
  <2> HIDE DEF Left
  <2> QED BY <1>1
<1> HIDE DEF Bad
<1> QED BY <1>2, <1>3

LEMMA CanonicalEnds ==
  ASSUME NEW A \in SUBSET Records
  PROVE  canonicalName(A) = Ends(A, {}, QName)
<1> DEFINE f == CHOOSE g : Walks(A, g)
<1>1. Walks(A, f) BY WalkExists
<1>2. canonicalName(A) = f[Loop({}, QName)] BY DEF canonicalName, Walks, Round
<1> HIDE DEF f
<1> QED BY <1>1, <1>2, QuestionAssumption, WalkEnds

LEMMA ChainFacts ==
  ASSUME NEW A \in SUBSET Records, QType \notin {"ANY", "CNAME"}
  PROVE  answerHasType(A) <=>
           /\ \A n \in {QName} \cup Beyond(A, QName) :
                n \notin Beyond(A, n) /\ Cardinality(CNAMETargets(A, n)) <= 1
           /\ \E n \in {QName} \cup Beyond(A, QName) :
                CNAMETargets(A, n) = {} /\ \E r \in A : r.type = QType /\ r.owner = n
<1>1. answerHasType(A) <=> \E r \in A : r.type = QType /\ r.owner \in Ends(A, {}, QName)
  BY CanonicalEnds DEF answerHasType
<1>2. Sound(A, {}, QName) <=>
        \A n \in {QName} \cup Beyond(A, QName) :
          n \notin Beyond(A, n) /\ Cardinality(CNAMETargets(A, n)) <= 1
  BY DEF Sound
<1> QED BY <1>1, <1>2 DEF Ends

(* Nothing that does not answer the question is kept as an answer to it,   *)
(* and nothing is denied without an SOA, for any question, any names and   *)
(* any records (key, cacheResponseType, answersQuestion).                  *)
THEOREM KindsStayHonest == Spec => []KindsHonest
<1>1. KindsHonest BY KindFacts DEF KindsHonest
<1> QED BY <1>1, PTL

(* For every question that follows CNAMEs, and however long the chain, the *)
(* name-by-name walk of canonicalName answers exactly the questions that   *)
(* the CNAMEs, taken as a relation, answer.                                *)
THEOREM ChainsFollowed ==
  ASSUME QType \notin {"ANY", "CNAME"}
  PROVE  Spec => []ChainFollowed
<1>1. ChainFollowed BY ChainFacts DEF ChainFollowed
<1> QED BY <1>1, PTL
=============================================================================
