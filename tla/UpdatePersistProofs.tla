------------------------ MODULE UpdatePersistProofs ------------------------
(***************************************************************************)
(* Theorems about UpdatePersist, for every zone, every set of requests,    *)
(* every history and every number of commits.                              *)
(***************************************************************************)
EXTENDS UpdatePersist, ZoneLemmas

-----------------------------------------------------------------------------
(* Types.  The invariant adds to TypeOK that what the handler still has to *)
(* apply has passed the prescan, that zones are finite, and that a handler *)
(* at work leaves room for one more commit.                                *)

TypeInv ==
    /\ TypeOK
    /\ todo \in Seq(Admitted)
    /\ IsFiniteSet(mem) /\ IsFiniteSet(store) /\ IsFiniteSet(work) /\ IsFiniteSet(current)
    /\ pc = "apply" => commits < MaxCommits

(* A request the front door lets through has only admitted records, and    *)
(* one it turns away gets an rcode.                                        *)
LEMMA AdmissionType ==
    ASSUME NEW r \in WireRequests
    PROVE  /\ Admission(r) \in Rcodes
           /\ Admission(r) = "NOERROR" => r.updates \in Seq(Admitted)
PROOF
<1>1. r.updates \in Seq(UpdateRR) /\ r.prereqs \in Seq(UpdateRR)
  BY PrimaryAssumption DEF WireRequest
<1>2. checkPrereqs(mem, r.prereqs) \in {"NOERROR", "FORMERR", "NOTZONE", "NXDOMAIN", "NXRRSET",
                                       "YXDOMAIN", "YXRRSET"}
  BY <1>1, PrereqsType
<1>3. /\ prescan(r.updates, TRUE) = "NOERROR" => r.updates \in Seq(Admitted)
      /\ prescan(r.updates, TRUE) \in {"NOERROR", "NOTZONE", "FORMERR", "REFUSED"}
  BY <1>1, PrescanAdmits
<1> QED
  BY <1>2, <1>3 DEF Admission, Rcodes

(* Reading a zone back from its rows gives a zone.                         *)
LEMMA ReadBackType ==
    ASSUME NEW z \in SUBSET RR, IsFiniteSet(z)
    PROVE  ReadBack(z) \in SUBSET RR /\ IsFiniteSet(ReadBack(z))
PROOF
<1> DEFINE f == [rr \in z |-> IF rr.ttl = 0 THEN [rr EXCEPT !.ttl = DefaultTTL] ELSE rr]
<1>1. ReadBack(z) = {f[rr] : rr \in z}
  BY DEF ReadBack
<1>2. \A rr \in z : f[rr] \in RR
  BY PrimaryAssumption DEF RR
<1>3. f \in Surjection(z, {f[rr] : rr \in z})
  BY DEF Surjection
<1>4. IsFiniteSet({f[rr] : rr \in z})
  BY <1>3, FS_Surjection
<1> QED
  BY <1>1, <1>2, <1>4

(* A secondary that applies an answer holds records of the zone.           *)
LEMMA TransferredType ==
    ASSUME TypeOK
    PROVE  Transferred(answer(incs, current, serialOf(replica))) \in SUBSET RR
PROOF
<1> DEFINE a == answer(incs, current, serialOf(replica))
<1>1. current \in SUBSET RR /\ replica \in SUBSET RR /\ incs \in Seq(Increment)
  BY DEF TypeOK
<1>2. ASSUME a.kind = "ixfr"
      PROVE  a.incs = ixfrFrom(incs, current, serialOf(replica)) /\ a.incs # << >>
  BY <1>2 DEF answer
<1>3. ASSUME a.kind = "ixfr"
      PROVE  a.incs \in Seq(Increment)
  <2> DEFINE starts == {i \in DOMAIN incs : incs[i].oldSerial = serialOf(replica)}
             start  == CHOOSE i \in starts : \A j \in starts : i <= j
  <2>1. Len(incs) \in Nat /\ DOMAIN incs = 1 .. Len(incs)
        /\ \A i \in 1 .. Len(incs) : incs[i] \in Increment
    BY <1>1, LenProperties, ElementOfSeq
  <2>2. starts # {} /\ a.incs = SubSeq(incs, start, Len(incs))
    BY <1>2, <1>3 DEF ixfrFrom
  <2>3. start \in 1 .. Len(incs)
    <3>1. starts \in SUBSET Nat
      BY <2>1
    <3>2. \E i \in starts : \A j \in starts : i <= j
      <4> HIDE DEF starts
      <4> QED
        BY <2>2, <3>1, LeastNatural
    <3> QED
      BY <2>1, <3>2
  <2> HIDE DEF start, a
  <2>4. start \in Int /\ Len(incs) \in Int /\ \A i \in start .. Len(incs) : incs[i] \in Increment
    BY <2>1, <2>3
  <2> QED
    BY <2>2, <2>4, SubSeqProperties
<1>4. ASSUME a.kind = "ixfr"
      PROVE  Transferred(a) \in SUBSET RR
  <2>1. \A i \in DOMAIN a.incs : a.incs[i] \in Increment
    BY <1>3, <1>4, ElementOfSeq, LenProperties
  <2>2. \A i \in DOMAIN a.incs : a.incs[i].added \in SUBSET RR
    BY <2>1 DEF Increment
  <2>3. Replay(replica, a.incs) \in SUBSET RR
    BY <1>1, <2>2 DEF Replay
  <2> QED
    BY <1>1, <1>4, <2>3 DEF Transferred, SOAs
<1>5. a.kind \in {"axfr", "uptodate", "ixfr"}
  BY DEF answer
<1>6. ASSUME a.kind # "ixfr"
      PROVE  Transferred(a) \in SUBSET RR
  BY <1>1, <1>5, <1>6 DEF Transferred
<1> QED
  BY <1>4, <1>6

LEMMA TypeInit == Init => TypeInv
PROOF
<1> SUFFICES ASSUME Init PROVE TypeInv
  OBVIOUS
<1>1. IsFiniteSet({})
  BY FS_EmptySet
<1>2. << >> \in Seq(UpdateRR) /\ << >> \in Seq(Increment) /\ << >> \in Seq(Admitted)
  BY EmptySeq
<1>3. Seed \in SUBSET RR /\ IsFiniteSet(Seed) /\ 0 \in 0 .. MaxCommits
  BY PrimaryAssumption
<1> QED
  BY <1>1, <1>2, <1>3 DEF Init, TypeInv, TypeOK, Rcodes

(* The invariant spelled out, for the steps below.                         *)
LEMMA TypeInvFacts ==
    ASSUME TypeInv
    PROVE  /\ pc \in {"down", "skipped", "idle", "apply", "journal", "swap"}
           /\ rcode \in Rcodes
           /\ mem \in SUBSET RR /\ store \in SUBSET RR /\ work \in SUBSET RR
           /\ current \in SUBSET RR /\ replica \in SUBSET RR
           /\ todo \in Seq(UpdateRR) /\ todo \in Seq(Admitted)
           /\ changed \in BOOLEAN
           /\ incs \in Seq(Increment) /\ jstore \in Seq(Increment)
           /\ commits \in 0 .. MaxCommits
           /\ IsFiniteSet(mem) /\ IsFiniteSet(store) /\ IsFiniteSet(work) /\ IsFiniteSet(current)
           /\ pc = "apply" => commits < MaxCommits
PROOF
  BY DEF TypeInv, TypeOK

(* A reply leaves the handler's variables empty.                           *)
LEMMA ReplyType ==
    ASSUME NEW rc \in Rcodes, Reply(rc)
    PROVE  /\ pc' = "idle" /\ rcode' \in Rcodes
           /\ work' \in SUBSET RR /\ IsFiniteSet(work')
           /\ todo' \in Seq(UpdateRR) /\ todo' \in Seq(Admitted)
           /\ changed' \in BOOLEAN
PROOF
  BY FS_EmptySet, EmptySeq DEF Reply

(* Starting on an update: the copy is what is served.                      *)
LEMMA BeginType ==
    ASSUME TypeInv, NEW us \in Seq(Admitted), Begin(us)
    PROVE  /\ pc' = "apply" /\ rcode' \in Rcodes
           /\ work' \in SUBSET RR /\ IsFiniteSet(work')
           /\ todo' \in Seq(UpdateRR) /\ todo' \in Seq(Admitted)
           /\ changed' \in BOOLEAN
PROOF
<1>1. Admitted \subseteq UpdateRR
  BY DEF Admitted
<1>2. us \in Seq(UpdateRR)
  BY <1>1, SeqMonotonic
<1> QED
  BY <1>2, TypeInvFacts DEF Begin

(* A generation's increment is one.                                        *)
LEMMA SerialOfType ==
    ASSUME NEW z \in SUBSET RR
    PROVE  serialOf(z) \in Serials
PROOF
<1>1. CASE hasSOA(z)
  BY <1>1, SoaOfIsTheSOA, BumpedRecord DEF serialOf
<1>2. CASE ~hasSOA(z)
  BY <1>2, HalfAssumption DEF serialOf, Serials
<1> QED
  BY <1>1, <1>2

LEMMA NewIncrementType ==
    ASSUME NEW old \in SUBSET RR, NEW new \in SUBSET RR
    PROVE  NewIncrement(old, new) \in Increment
PROOF
  BY SerialOfType DEF NewIncrement, Increment, diffMissing

(* The increments of an extended journal are its own and the new one,      *)
(* whether or not it chains.                                               *)
LEMMA ExtendType ==
    ASSUME NEW S, NEW s \in Seq(S), NEW inc \in S, NEW history \in Nat \ {0}
    PROVE  Extend(s, inc, history) \in Seq(S)
PROOF
<1> DEFINE long == Append(s, inc)
<1>1. /\ long \in Seq(S) /\ Len(long) \in Nat
      /\ \A i \in 1 .. Len(long) : long[i] \in S
  <2>1. long \in Seq(S)
    BY AppendProperties
  <2> HIDE DEF long
  <2> QED
    BY <2>1, LenProperties, ElementOfSeq
<1>2. Extend(s, inc, history) =
        IF Len(long) > history THEN SubSeq(long, Len(long) - history + 1, Len(long)) ELSE long
  BY DEF Extend
<1> HIDE DEF long
<1>3. CASE Len(long) > history
  <2> DEFINE m == Len(long) - history + 1
  <2>1. m \in Int /\ Len(long) \in Int /\ \A i \in m .. Len(long) : long[i] \in S
    BY <1>1, <1>3
  <2> HIDE DEF m
  <2>2. SubSeq(long, m, Len(long)) \in Seq(S)
    BY <2>1, SubSeqProperties
  <2> QED
    BY <1>2, <1>3, <2>2 DEF m
<1>4. CASE ~(Len(long) > history)
  BY <1>1, <1>2, <1>4
<1> QED
  BY <1>3, <1>4

LEMMA TypeStep == TypeInv /\ [Next]_vars => TypeInv'
PROOF
<1> SUFFICES ASSUME TypeInv, [Next]_vars PROVE TypeInv'
  OBVIOUS
<1> USE TypeInvFacts
<1>1. ASSUME NEW r \in WireRequests, ServeUpdate(r) PROVE TypeInv'
  <2>1. CASE Admission(r) # "NOERROR" /\ Reply(Admission(r))
    BY <1>1, <2>1, AdmissionType, ReplyType DEF ServeUpdate, journal, TypeInv, TypeOK
  <2>2. CASE Admission(r) = "NOERROR" /\ Begin(r.updates)
    BY <1>1, <2>2, AdmissionType, BeginType DEF ServeUpdate, journal, TypeInv, TypeOK
  <2> QED
    BY <1>1, <2>1, <2>2 DEF ServeUpdate
<1>2. ASSUME NEW q \in HttpRequests, HttpApply(q) PROVE TypeInv'
  <2>0. q \in HttpRequest
    BY PrimaryAssumption
  <2>1. CASE Reply("REFUSED")
    <3>1. "REFUSED" \in Rcodes
      BY DEF Rcodes
    <3> QED
      BY <1>2, <2>1, <3>1, ReplyType DEF HttpApply, journal, TypeInv, TypeOK
  <2>2. ASSUME ~httpRefused(mem, q), NEW us \in httpUpdates(mem, q),
               prescan(us, FALSE) # "NOERROR", Reply(prescan(us, FALSE))
        PROVE  TypeInv'
    <3>1. us \in Seq(UpdateRR)
      BY <2>0, <2>2, HttpUpdatesType
    <3>2. prescan(us, FALSE) \in Rcodes
      BY <3>1, PrescanAdmits DEF Rcodes
    <3> QED
      BY <1>2, <2>2, <3>2, ReplyType DEF HttpApply, journal, TypeInv, TypeOK
  <2>3. ASSUME ~httpRefused(mem, q), NEW us \in httpUpdates(mem, q),
               prescan(us, FALSE) = "NOERROR", Begin(us)
        PROVE  TypeInv'
    <3>1. us \in Seq(UpdateRR)
      BY <2>0, <2>3, HttpUpdatesType
    <3>2. us \in Seq(Admitted)
      BY <2>3, <3>1, PrescanAdmits
    <3> QED
      BY <1>2, <2>3, <3>2, BeginType DEF HttpApply, journal, TypeInv, TypeOK
  <2> QED
    BY <1>2, <2>1, <2>2, <2>3 DEF HttpApply
<1>3. ASSUME ApplyNext PROVE TypeInv'
  <2>1. Head(todo) \in Admitted /\ Tail(todo) \in Seq(Admitted) /\ Tail(todo) \in Seq(UpdateRR)
    BY <1>3, HeadTailProperties DEF ApplyNext
  <2>2. ApplyRR(work, Head(todo)) \in SUBSET RR /\ IsFiniteSet(ApplyRR(work, Head(todo)))
    BY <2>1, ApplyType
  <2> QED
    BY <1>3, <2>1, <2>2 DEF ApplyNext, journal, TypeInv, TypeOK
<1>4. ASSUME NothingChanged PROVE TypeInv'
  <2>1. "NOERROR" \in Rcodes
    BY DEF Rcodes
  <2> QED
    BY <1>4, <2>1, ReplyType DEF NothingChanged, journal, TypeInv, TypeOK
<1>5. ASSUME PersistFails \/ CommitJournalFails PROVE TypeInv'
  <2>1. "SERVFAIL" \in Rcodes
    BY DEF Rcodes
  <2> QED
    BY <1>5, <2>1, ReplyType DEF PersistFails, CommitJournalFails, journal, TypeInv, TypeOK
<1>6. ASSUME Persist PROVE TypeInv'
  <2>1. bumpSerial(work) \in SUBSET RR /\ IsFiniteSet(bumpSerial(work))
    BY BumpType
  <2>2. commits + 1 \in 0 .. MaxCommits
    BY <1>6, PrimaryAssumption DEF Persist
  <2>3. CASE hasSOA(work)
    BY <1>6, <2>1, <2>2, <2>3 DEF Persist, journal, TypeInv, TypeOK
  <2>4. CASE ~hasSOA(work)
    <3>1. "SERVFAIL" \in Rcodes
      BY DEF Rcodes
    <3>2. Reply("SERVFAIL")
      BY <1>6, <2>4 DEF Persist
    <3> QED
      BY <1>6, <2>1, <2>2, <3>1, <3>2, ReplyType DEF Persist, journal, TypeInv, TypeOK
  <2> QED
    BY <2>3, <2>4
<1>7. ASSUME CommitJournal PROVE TypeInv'
  <2>1. Extend(incs, NewIncrement(mem, work), History) \in Seq(Increment)
    BY NewIncrementType, ExtendType, PrimaryAssumption
  <2> QED
    BY <1>7, <2>1 DEF CommitJournal, handler, TypeInv, TypeOK
<1>8. ASSUME Swap PROVE TypeInv'
  <2>1. "SERVFAIL" \in Rcodes /\ "NOERROR" \in Rcodes
    BY DEF Rcodes
  <2> QED
    BY <1>8, <2>1, ReplyType DEF Swap, journal, TypeInv, TypeOK
<1>9. ASSUME Transfer PROVE TypeInv'
  <2>1. replica' \in SUBSET RR
    BY <1>9, TransferredType DEF Transfer, TypeInv
  <2> QED
    BY <1>9, <2>1 DEF Transfer, handler, journal, TypeInv, TypeOK
<1>10. ASSUME Crash PROVE TypeInv'
  <2>1. "none" \in Rcodes
    BY DEF Rcodes
  <2> QED
    BY <1>10, <2>1, FS_EmptySet, EmptySeq DEF Crash, journal, TypeInv, TypeOK
<1>11. ASSUME Restart PROVE TypeInv'
  <2>1. ReadBack(store) \in SUBSET RR /\ IsFiniteSet(ReadBack(store))
    BY ReadBackType
  <2>2. reconcile(jstore, serialOf(store)) \in Seq(Increment) /\ << >> \in Seq(Increment)
    BY ReconcileChains, EmptySeq
  <2> QED
    BY <1>11, <2>1, <2>2 DEF Restart, handler, journal, TypeInv, TypeOK
<1>12. ASSUME UNCHANGED vars PROVE TypeInv'
  BY <1>12 DEF vars, handler, journal, TypeInv, TypeOK
<1> QED
  BY <1>1, <1>2, <1>3, <1>4, <1>5, <1>6, <1>7, <1>8, <1>9, <1>10, <1>11, <1>12 DEF Next

(* Every variable keeps its type, for every instance of the constants: the *)
(* handler never commits more than it may, never holds a record that did   *)
(* not pass the prescan, and the serials never leave 32 bits.              *)
THEOREM TypeCorrect == Spec => []TypeOK
PROOF
<1>1. TypeInv => TypeOK
  BY DEF TypeInv
<1> QED
  BY <1>1, TypeInit, TypeStep, PTL DEF Spec

-----------------------------------------------------------------------------
(* Safety.  Each property is proved from a statement about all copies of   *)
(* the zone: a step only makes a new copy by applying one admitted record, *)
(* by bumping the serial or by reading the rows back, and each of the      *)
(* three keeps the rule.                                                   *)

(* Where the copies of the zone after a step come from.                    *)
LEMMA CopiesStep ==
    ASSUME TypeInv, [Next]_vars
    PROVE  \A z \in Copies' : \/ z \in Copies
                              \/ pc = "apply" /\ todo # << >> /\ z = ApplyRR(work, Head(todo))
                              \/ pc = "apply" /\ z = bumpSerial(work)
                              \/ z = ReadBack(store)
PROOF
<1> DEFINE P(z) == \/ z \in Copies
                   \/ pc = "apply" /\ todo # << >> /\ z = ApplyRR(work, Head(todo))
                   \/ pc = "apply" /\ z = bumpSerial(work)
                   \/ z = ReadBack(store)
<1> SUFFICES \A z \in Copies' : P(z)
  OBVIOUS
<1> USE DEF Copies, handler, journal
<1>1. ASSUME NEW r \in WireRequests, ServeUpdate(r) PROVE \A z \in Copies' : P(z)
  BY <1>1 DEF ServeUpdate, Reply, Begin
<1>2. ASSUME NEW q \in HttpRequests, HttpApply(q) PROVE \A z \in Copies' : P(z)
  BY <1>2 DEF HttpApply, Reply, Begin
<1>3. ASSUME ApplyNext PROVE \A z \in Copies' : P(z)
  BY <1>3 DEF ApplyNext
<1>4. ASSUME NothingChanged \/ PersistFails \/ CommitJournalFails PROVE \A z \in Copies' : P(z)
  BY <1>4 DEF NothingChanged, PersistFails, CommitJournalFails, Reply
<1>5. ASSUME Persist PROVE \A z \in Copies' : P(z)
  BY <1>5 DEF Persist, Reply
<1>6. ASSUME CommitJournal PROVE \A z \in Copies' : P(z)
  BY <1>6 DEF CommitJournal
<1>7. ASSUME Swap PROVE \A z \in Copies' : P(z)
  BY <1>7 DEF Swap, Reply
<1>8. ASSUME Transfer PROVE \A z \in Copies' : P(z)
  BY <1>8 DEF Transfer
<1>9. ASSUME Crash PROVE \A z \in Copies' : P(z)
  BY <1>9 DEF Crash
<1>10. ASSUME Restart PROVE \A z \in Copies' : P(z)
  BY <1>10 DEF Restart
<1>11. ASSUME UNCHANGED vars PROVE \A z \in Copies' : P(z)
  BY <1>11 DEF vars
<1> QED
  BY <1>1, <1>2, <1>3, <1>4, <1>5, <1>6, <1>7, <1>8, <1>9, <1>10, <1>11 DEF Next

(* Every copy is a finite set of records, and the one being worked on is a *)
(* copy.                                                                   *)
LEMMA CopiesFacts ==
    ASSUME TypeInv
    PROVE  /\ \A z \in Copies : z \in SUBSET RR /\ IsFiniteSet(z)
           /\ mem \in Copies /\ store \in Copies /\ current \in Copies
           /\ pc \in {"apply", "journal", "swap"} => work \in Copies
           /\ pc = "apply" /\ todo # << >> => Head(todo) \in Admitted
PROOF
<1>1. pc = "apply" /\ todo # << >> => Head(todo) \in Admitted
  BY TypeInvFacts, HeadTailProperties
<1> QED
  BY <1>1, TypeInvFacts DEF Copies

-----------------------------------------------------------------------------
(* Reading rows back changes TTLs only.                                    *)

readBack(rr) == IF rr.ttl = 0 THEN [rr EXCEPT !.ttl = DefaultTTL] ELSE rr

LEMMA ReadBackFields ==
    ASSUME NEW z \in SUBSET RR
    PROVE  /\ ReadBack(z) = {readBack(rr) : rr \in z}
           /\ \A rr \in z : sameRR(readBack(rr), rr)
PROOF
<1>1. ReadBack(z) = {readBack(rr) : rr \in z}
  BY DEF ReadBack, readBack
<1>2. ASSUME NEW rr \in z PROVE sameRR(readBack(rr), rr)
  BY DEF readBack, sameRR, RR
<1> QED
  BY <1>1, <1>2

LEMMA ReadBackKeepsRules ==
    ASSUME NEW z \in SUBSET RR, NoTwins(z)
    PROVE  /\ NoTwins(ReadBack(z))
           /\ OneSOA(z) => OneSOA(ReadBack(z))
           /\ HasApexNS(z) => HasApexNS(ReadBack(z))
           /\ KeepsApex(z) => KeepsApex(ReadBack(z))
           /\ CNAMEAlone(z) => CNAMEAlone(ReadBack(z))
PROOF
<1> DEFINE y == ReadBack(z)
<1>1. \A b \in y : \E a \in z : b = readBack(a) /\ sameRR(b, a)
  BY ReadBackFields
<1>2. \A a \in z : readBack(a) \in y /\ sameRR(readBack(a), a)
  BY ReadBackFields
<1>3. NoTwins(y)
  BY <1>1 DEF NoTwins, sameRR
<1>4. OneSOA(z) => OneSOA(y)
  BY <1>1 DEF OneSOA, sameRR
<1>5. HasApexNS(z) => HasApexNS(y)
  BY <1>2 DEF HasApexNS, rrsetOf, sameRR
<1>6. hasSOA(z) => hasSOA(y)
  BY <1>2 DEF hasSOA, SOAs, sameRR
<1>7. SOAAtApex(z) => SOAAtApex(y)
  BY <1>1 DEF SOAAtApex, sameRR
<1>8. CNAMEAlone(z) => CNAMEAlone(y)
  BY <1>1 DEF CNAMEAlone, sameRR
<1> QED
  BY <1>3, <1>4, <1>5, <1>6, <1>7, <1>8 DEF KeepsApex

-----------------------------------------------------------------------------
(* Rules that no request can break.  Without twins the count of name       *)
(* servers that protects the last one is right, and without a second SOA   *)
(* the one that an add replaces is the only one.                           *)

UniqueInv ==
    /\ TypeInv
    /\ \A z \in Copies : OneSOA(z) /\ NoTwins(z)

LEMMA UniqueInit ==
    ASSUME OneSOA(Seed), NoTwins(Seed), Init
    PROVE  UniqueInv
PROOF
  BY TypeInit DEF Init, UniqueInv, Copies

LEMMA UniqueStep == UniqueInv /\ [Next]_vars => UniqueInv'
PROOF
<1> SUFFICES ASSUME UniqueInv, [Next]_vars PROVE UniqueInv'
  OBVIOUS
<1>1. TypeInv
  BY DEF UniqueInv
<1>2. TypeInv'
  BY <1>1, TypeStep
<1>3. ASSUME NEW z \in Copies' PROVE OneSOA(z) /\ NoTwins(z)
  <2>1. CASE z \in Copies
    BY <2>1 DEF UniqueInv
  <2>2. CASE pc = "apply" /\ todo # << >> /\ z = ApplyRR(work, Head(todo))
    BY <1>1, <2>2, CopiesFacts, ApplyOneSOA, ApplyNoTwins DEF UniqueInv
  <2>3. CASE pc = "apply" /\ z = bumpSerial(work)
    BY <1>1, <2>3, CopiesFacts, BumpKeepsRules DEF UniqueInv
  <2>4. CASE z = ReadBack(store)
    BY <1>1, <2>4, CopiesFacts, ReadBackKeepsRules DEF UniqueInv
  <2> QED
    BY <1>1, <1>3, <2>1, <2>2, <2>3, <2>4, CopiesStep
<1> QED
  BY <1>2, <1>3 DEF UniqueInv

(* From a zone that lists each record once under one SOA, no sequence of   *)
(* updates, HTTP edits, failures, crashes and restarts ever lists a record *)
(* twice in any copy of the zone (indexOfRR finds what is already there).  *)
THEOREM RecordsStayUnique ==
    ASSUME OneSOA(Seed), NoTwins(Seed)
    PROVE  Spec => []RecordsUnique
PROOF
<1>1. Init => UniqueInv
  BY UniqueInit
<1>2. UniqueInv => RecordsUnique
  BY DEF UniqueInv, RecordsUnique
<1> QED
  BY <1>1, <1>2, UniqueStep, PTL DEF Spec

NSInv == UniqueInv /\ \A z \in Copies : HasApexNS(z)

LEMMA NSStep == NSInv /\ [Next]_vars => NSInv'
PROOF
<1> SUFFICES ASSUME NSInv, [Next]_vars PROVE NSInv'
  OBVIOUS
<1>1. TypeInv /\ UniqueInv
  BY DEF NSInv, UniqueInv
<1>2. UniqueInv'
  BY <1>1, UniqueStep
<1>3. ASSUME NEW z \in Copies' PROVE HasApexNS(z)
  <2>1. CASE z \in Copies
    BY <2>1 DEF NSInv
  <2>2. CASE pc = "apply" /\ todo # << >> /\ z = ApplyRR(work, Head(todo))
    BY <1>1, <2>2, CopiesFacts, ApplyKeepsNS DEF NSInv, UniqueInv
  <2>3. CASE pc = "apply" /\ z = bumpSerial(work)
    BY <1>1, <2>3, CopiesFacts, BumpKeepsRules DEF NSInv
  <2>4. CASE z = ReadBack(store)
    BY <1>1, <2>4, CopiesFacts, ReadBackKeepsRules DEF NSInv, UniqueInv
  <2> QED
    BY <1>1, <1>3, <2>1, <2>2, <2>3, <2>4, CopiesStep
<1> QED
  BY <1>2, <1>3 DEF NSInv

-----------------------------------------------------------------------------
(* Rules that hold when requests keep to some set of records.  The handler *)
(* then works through records of that set only, provided the set has the   *)
(* single deletes and the raised SOAs that an HTTP edit is rewritten into. *)

RequestsIn(Good) ==
    /\ Good \in SUBSET UpdateRR
    /\ \A u \in UpdateRR : u.class = "NONE" => u \in Good
    /\ \A u \in Good : \A s \in Serials :
           u.class = "IN" /\ u.type = "SOA" => [u EXCEPT !.data = s] \in Good
    /\ \A r \in WireRequests : r.updates \in Seq(Good)
    /\ \A q \in HttpRequests : /\ q.early \in Seq(Good) /\ q.others \in Seq(Good)
                               /\ q.soas \in Seq(Good) /\ q.nss \in Seq(Good)
                               /\ q.nsDels \in Seq(Good)

LEMMA TodoStep ==
    ASSUME NEW Good, RequestsIn(Good), TypeInv, todo \in Seq(Good), [Next]_vars
    PROVE  todo' \in Seq(Good)
PROOF
<1>0. << >> \in Seq(Good)
  BY EmptySeq
<1>1. ASSUME NEW r \in WireRequests, ServeUpdate(r) PROVE todo' \in Seq(Good)
  BY <1>0, <1>1 DEF ServeUpdate, Reply, Begin, RequestsIn
<1>2. ASSUME NEW q \in HttpRequests, HttpApply(q) PROVE todo' \in Seq(Good)
  <2>1. CASE todo' = << >>
    BY <1>0, <2>1
  <2>2. ASSUME ~httpRefused(mem, q), NEW us \in httpUpdates(mem, q), Begin(us)
        PROVE  todo' \in Seq(Good)
    <3>1. mem \in SUBSET RR /\ IsFiniteSet(mem) /\ q \in HttpRequest
      BY TypeInvFacts, PrimaryAssumption
    <3>2. Good \in SUBSET UpdateRR
      BY DEF RequestsIn
    <3>3. us \in Seq(Good)
      BY <2>2, <3>1, <3>2, HttpUpdatesIn DEF RequestsIn
    <3> QED
      BY <2>2, <3>3 DEF Begin
  <2> QED
    BY <1>2, <2>1, <2>2 DEF HttpApply, Reply
<1>3. ASSUME ApplyNext PROVE todo' \in Seq(Good)
  BY <1>3, HeadTailProperties DEF ApplyNext
<1>4. ASSUME \/ NothingChanged \/ Persist \/ PersistFails \/ CommitJournalFails
             \/ Swap \/ Crash
      PROVE  todo' \in Seq(Good)
  BY <1>0, <1>4 DEF NothingChanged, Persist, PersistFails, CommitJournalFails, Swap, Crash, Reply
<1>5. ASSUME CommitJournal \/ Transfer \/ Restart \/ UNCHANGED vars
      PROVE  todo' \in Seq(Good)
  BY <1>5 DEF CommitJournal, Transfer, Restart, vars, handler
<1> QED
  BY <1>1, <1>2, <1>3, <1>4, <1>5 DEF Next

(* Updates that add a SOA at the apex only.                                *)
ApexSOAs == {u \in UpdateRR : u.class = "IN" /\ u.type = "SOA" => u.name = Apex}

(* A narrower set of updates adds SOAs at the apex only, too.              *)
LEMMA ApexRequests ==
    ASSUME NEW Good, Good \subseteq ApexSOAs, RequestsIn(Good)
    PROVE  RequestsIn(ApexSOAs)
PROOF
<1>1. \A s : s \in Seq(Good) => s \in Seq(ApexSOAs)
  BY SeqMonotonic
<1>2. ASSUME NEW u \in ApexSOAs, NEW s \in Serials, u.class = "IN", u.type = "SOA"
      PROVE  [u EXCEPT !.data = s] \in ApexSOAs
  <2>1. u \in [class : {"IN", "NONE"}, name : Names \cup Outside,
               type : {"SOA"}, data : Serials, ttl : TTLs]
    BY <1>2 DEF ApexSOAs, UpdateRR, MetaTypes, Classes
  <2> QED
    BY <1>2, <2>1 DEF ApexSOAs, UpdateRR
<1>3. ASSUME NEW u \in UpdateRR, u.class = "NONE" PROVE u \in ApexSOAs
  BY <1>3 DEF ApexSOAs
<1> QED
  BY <1>1, <1>2, <1>3 DEF RequestsIn, ApexSOAs

ApexInv ==
    /\ UniqueInv
    /\ todo \in Seq(ApexSOAs)
    /\ \A z \in Copies : KeepsApex(z)

LEMMA ApexStep ==
    ASSUME RequestsIn(ApexSOAs)
    PROVE  ApexInv /\ [Next]_vars => ApexInv'
PROOF
<1> SUFFICES ASSUME ApexInv, [Next]_vars PROVE ApexInv'
  OBVIOUS
<1>1. TypeInv /\ UniqueInv
  BY DEF ApexInv, UniqueInv
<1>2. UniqueInv'
  BY <1>1, UniqueStep
<1>3. todo' \in Seq(ApexSOAs)
  BY <1>1, TodoStep DEF ApexInv
<1>4. ASSUME NEW z \in Copies' PROVE KeepsApex(z)
  <2>1. CASE z \in Copies
    BY <2>1 DEF ApexInv
  <2>2. CASE pc = "apply" /\ todo # << >> /\ z = ApplyRR(work, Head(todo))
    <3>1. Head(todo) \in ApexSOAs
      BY <2>2, HeadTailProperties DEF ApexInv
    <3> QED
      BY <1>1, <2>2, <3>1, CopiesFacts, ApplyKeepsApex DEF ApexInv, UniqueInv, ApexSOAs
  <2>3. CASE pc = "apply" /\ z = bumpSerial(work)
    BY <1>1, <2>3, CopiesFacts, BumpKeepsRules DEF ApexInv
  <2>4. CASE z = ReadBack(store)
    BY <1>1, <2>4, CopiesFacts, ReadBackKeepsRules DEF ApexInv, UniqueInv
  <2> QED
    BY <1>1, <1>4, <2>1, <2>2, <2>3, <2>4, CopiesStep
<1> QED
  BY <1>2, <1>3, <1>4 DEF ApexInv

LEMMA ApexInit ==
    ASSUME KeepsApex(Seed), NoTwins(Seed), Init
    PROVE  ApexInv
PROOF
<1>1. UniqueInv
  BY UniqueInit DEF KeepsApex
<1>2. todo \in Seq(ApexSOAs)
  BY EmptySeq DEF Init
<1> QED
  BY <1>1, <1>2 DEF ApexInv, Init, Copies

(* As long as clients add SOAs at the apex only, every copy of the zone    *)
(* keeps exactly one SOA, at its apex, beside a name server ("a zone       *)
(* without them is not a zone").  A SOA added elsewhere is not turned      *)
(* away, and leaves two.                                                   *)
THEOREM ApexStays ==
    ASSUME KeepsApex(Seed), NoTwins(Seed), RequestsIn(ApexSOAs)
    PROVE  Spec => []ApexSurvives
PROOF
<1>1. Init => ApexInv
  BY ApexInit
<1>2. ApexInv => ApexSurvives
  BY DEF ApexInv, ApexSurvives
<1>3. ApexInv /\ [Next]_vars => ApexInv'
  BY ApexStep
<1> QED
  BY <1>1, <1>2, <1>3, PTL DEF Spec

CNAMEInv == ApexInv /\ \A z \in Copies : CNAMEAlone(z)

LEMMA CNAMEStep ==
    ASSUME RequestsIn(ApexSOAs)
    PROVE  CNAMEInv /\ [Next]_vars => CNAMEInv'
PROOF
<1> SUFFICES ASSUME CNAMEInv, [Next]_vars PROVE CNAMEInv'
  OBVIOUS
<1>1. TypeInv /\ UniqueInv /\ ApexInv
  BY DEF CNAMEInv, ApexInv, UniqueInv
<1>2. ApexInv'
  BY <1>1, ApexStep
<1>3. ASSUME NEW z \in Copies' PROVE CNAMEAlone(z)
  <2>1. CASE z \in Copies
    BY <2>1 DEF CNAMEInv
  <2>2. CASE pc = "apply" /\ todo # << >> /\ z = ApplyRR(work, Head(todo))
    <3>1. Head(todo) \in ApexSOAs
      BY <1>1, <2>2, HeadTailProperties DEF ApexInv
    <3> QED
      BY <1>1, <2>2, <3>1, CopiesFacts, ApplyCNAMEAlone DEF CNAMEInv, ApexInv, ApexSOAs
  <2>3. CASE pc = "apply" /\ z = bumpSerial(work)
    BY <1>1, <2>3, CopiesFacts, BumpKeepsRules DEF CNAMEInv
  <2>4. CASE z = ReadBack(store)
    BY <1>1, <2>4, CopiesFacts, ReadBackKeepsRules DEF CNAMEInv, UniqueInv
  <2> QED
    BY <1>1, <1>3, <2>1, <2>2, <2>3, <2>4, CopiesStep
<1> QED
  BY <1>2, <1>3 DEF CNAMEInv

(* Under the same condition no name ever holds a CNAME beside another      *)
(* type, whichever of the two was added first (apply checks both ways; a   *)
(* SOA, which it adds without that check, only ever replaces one at the    *)
(* apex, where the invariant has no CNAME).                                *)
THEOREM CNAMEStaysAlone ==
    ASSUME KeepsApex(Seed), NoTwins(Seed), CNAMEAlone(Seed), RequestsIn(ApexSOAs)
    PROVE  Spec => []CNAMEExclusive
PROOF
<1>1. Init => CNAMEInv
  BY ApexInit DEF CNAMEInv, Init, Copies
<1>2. CNAMEInv => CNAMEExclusive
  BY DEF CNAMEInv, CNAMEExclusive
<1>3. CNAMEInv /\ [Next]_vars => CNAMEInv'
  BY CNAMEStep
<1> QED
  BY <1>1, <1>2, <1>3, PTL DEF Spec

-----------------------------------------------------------------------------
(* Durability.  Records that survive a write and a read of the store: a    *)
(* TTL of 0 comes back changed, a type without a mnemonic does not come    *)
(* back, NSEC3 parameters are stored and then refused.                     *)

PlainRR(rr) == rr.ttl # 0 /\ rr.type \notin {"NSEC3PARAM", "TYPE65280"}
Plain(z)    == \A rr \in z : PlainRR(rr)

PlainUpdates ==
    {u \in UpdateRR : u.class = "IN" => PlainRR(u) /\ (u.type = "SOA" => u.name = Apex)}

LEMMA ApplyRecords ==
    ASSUME NEW z, NEW u
    PROVE  \A rr \in ApplyRR(z, u) : rr \in z \/ (u.class = "IN" /\ rr = AsRR(u))
PROOF
  BY DEF ApplyRR, AddRR, DeleteRR, DeleteRRset

LEMMA PlainZones ==
    ASSUME NEW z \in SUBSET RR, Plain(z)
    PROVE  /\ Plain(bumpSerial(z))
           /\ ReadBack(z) = z
           /\ hasSOA(z) => Restorable(z)
           /\ Builds(z)
           /\ \A u \in PlainUpdates : Plain(ApplyRR(z, u))
PROOF
<1>1. Plain(bumpSerial(z))
  <2>1. \A rr \in z : bumped(rr).ttl = rr.ttl /\ bumped(rr).type = rr.type
    BY DEF bumped, RR
  <2> QED
    BY <2>1, BumpedFields DEF Plain, PlainRR
<1>2. ReadBack(z) = z
  BY DEF ReadBack, Plain, PlainRR
<1>3. Builds(z) /\ (hasSOA(z) => Restorable(z))
  BY DEF Builds, Restorable, Readable, Plain, PlainRR
<1>4. ASSUME NEW u \in PlainUpdates PROVE Plain(ApplyRR(z, u))
  <2>1. u.class = "IN" => AsRR(u).ttl # 0 /\ AsRR(u).type \notin {"NSEC3PARAM", "TYPE65280"}
    BY DEF PlainUpdates, PlainRR, AsRR
  <2> QED
    BY <2>1, ApplyRecords DEF Plain, PlainRR
<1> QED
  BY <1>1, <1>2, <1>3, <1>4

(* The store and the memory are on one generation except between a write   *)
(* and the swap that follows it, where the store is on the handler's.      *)
DurableInv ==
    /\ ApexInv
    /\ todo \in Seq(PlainUpdates)
    /\ \A z \in Copies : Plain(z)
    /\ pc \in {"idle", "apply"} => store = mem
    /\ pc \in {"journal", "swap"} => store = work
    /\ pc = "journal" => WithJournal

LEMMA DurableStep ==
    ASSUME RequestsIn(PlainUpdates), ~(WithJournal /\ JournalMayFail)
    PROVE  DurableInv /\ [Next]_vars => DurableInv'
PROOF
<1> SUFFICES ASSUME DurableInv, [Next]_vars PROVE DurableInv'
  OBVIOUS
<1>1. TypeInv /\ ApexInv
  BY DEF DurableInv, ApexInv, UniqueInv
<1>2. ApexInv'
  <2>1. PlainUpdates \subseteq ApexSOAs
    BY DEF PlainUpdates, ApexSOAs
  <2> QED
    BY <1>1, <2>1, ApexRequests, ApexStep
<1>3. todo' \in Seq(PlainUpdates)
  BY <1>1, TodoStep DEF DurableInv
<1>4. ASSUME NEW z \in Copies' PROVE Plain(z)
  <2>1. CASE z \in Copies
    BY <2>1 DEF DurableInv
  <2>2. CASE pc = "apply" /\ todo # << >> /\ z = ApplyRR(work, Head(todo))
    <3>1. Head(todo) \in PlainUpdates
      BY <2>2, HeadTailProperties DEF DurableInv
    <3> QED
      BY <1>1, <2>2, <3>1, CopiesFacts, PlainZones DEF DurableInv
  <2>3. CASE pc = "apply" /\ z = bumpSerial(work)
    BY <1>1, <2>3, CopiesFacts, PlainZones DEF DurableInv
  <2>4. CASE z = ReadBack(store)
    BY <1>1, <2>4, CopiesFacts, PlainZones DEF DurableInv
  <2> QED
    BY <1>1, <1>4, <2>1, <2>2, <2>3, <2>4, CopiesStep
<1> DEFINE Sync == /\ pc \in {"idle", "apply"} => store = mem
                   /\ pc \in {"journal", "swap"} => store = work
                   /\ pc = "journal" => WithJournal
<1>5. Sync'
  <2> USE DEF DurableInv, handler, journal, Reply
  <2>1. ASSUME NEW r \in WireRequests, ServeUpdate(r) PROVE Sync'
    BY <2>1 DEF ServeUpdate, Begin
  <2>2. ASSUME NEW q \in HttpRequests, HttpApply(q) PROVE Sync'
    BY <2>2 DEF HttpApply, Begin
  <2>3. ASSUME ApplyNext \/ NothingChanged \/ PersistFails PROVE Sync'
    BY <2>3 DEF ApplyNext, NothingChanged, PersistFails
  <2>4. ASSUME Persist PROVE Sync'
    <3>1. hasSOA(work)
      BY <1>1, <2>4, CopiesFacts DEF ApexInv, KeepsApex, Persist
    <3> QED
      BY <2>4, <3>1 DEF Persist
  <2>5. ASSUME CommitJournal \/ Transfer \/ Crash PROVE Sync'
    BY <2>5 DEF CommitJournal, Transfer, Crash
  <2>6. ASSUME CommitJournalFails PROVE Sync'
    BY <2>6 DEF CommitJournalFails
  <2>7. ASSUME Swap PROVE Sync'
    <3>1. Builds(work)
      BY <1>1, <2>7, CopiesFacts, PlainZones DEF Swap
    <3> QED
      BY <2>7, <3>1 DEF Swap
  <2>8. ASSUME Restart PROVE Sync'
    <3>1. ReadBack(store) = store
      BY <1>1, CopiesFacts, PlainZones
    <3> QED
      BY <2>8, <3>1 DEF Restart
  <2>9. ASSUME UNCHANGED vars PROVE Sync'
    BY <2>9 DEF vars
  <2> QED
    BY <2>1, <2>2, <2>3, <2>4, <2>5, <2>6, <2>7, <2>8, <2>9 DEF Next
<1> QED
  BY <1>2, <1>3, <1>4, <1>5 DEF DurableInv

LEMMA DurableInit ==
    ASSUME KeepsApex(Seed), NoTwins(Seed), Plain(Seed), Init
    PROVE  DurableInv
PROOF
<1>1. ApexInv
  BY ApexInit
<1>2. todo \in Seq(PlainUpdates)
  BY EmptySeq DEF Init
<1> QED
  BY <1>1, <1>2 DEF DurableInv, Init, Copies

(* When clients add plain records and the journal, if there is one, can be *)
(* written, a NOERROR means that a restart at that moment would load the   *)
(* zone and serve exactly what is served ("NOERROR therefore means the new *)
(* zone is in SQLite"), whatever failed or crashed before.                 *)
THEOREM NoerrorMeansDurable ==
    ASSUME KeepsApex(Seed), NoTwins(Seed), Plain(Seed),
           RequestsIn(PlainUpdates), ~(WithJournal /\ JournalMayFail)
    PROVE  Spec => []AcknowledgedIsDurable
PROOF
<1>1. Init => DurableInv
  BY DurableInit
<1>2. DurableInv /\ [Next]_vars => DurableInv'
  BY DurableStep
<1>3. DurableInv => AcknowledgedIsDurable
  <2> SUFFICES ASSUME DurableInv, pc = "idle" PROVE Restorable(store) /\ ReadBack(store) = mem
    BY DEF AcknowledgedIsDurable
  <2>1. TypeInv /\ store = mem
    BY DEF DurableInv, ApexInv, UniqueInv
  <2>2. store \in SUBSET RR /\ Plain(store) /\ hasSOA(store)
    BY <2>1, CopiesFacts DEF DurableInv, ApexInv, KeepsApex
  <2> QED
    BY <2>1, <2>2, PlainZones
<1> QED
  BY <1>1, <1>2, <1>3, PTL DEF Spec

-----------------------------------------------------------------------------
(* The journal.  An increment runs from what is served to what will be, so *)
(* it only chains to the last one if the journal's snapshot, which may be  *)
(* ahead of memory between the commit and the swap, is level with it       *)
(* whenever a commit starts.  A zone that is stored and then not built     *)
(* would leave it ahead: the updates add no NSEC3 parameters.              *)

BuildableUpdates == {u \in UpdateRR : u.class = "IN" => u.type # "NSEC3PARAM"}

LEMMA SerialOfTheSOA ==
    ASSUME NEW z, OneSOA(z), NEW rr \in z, rr.type = "SOA"
    PROVE  serialOf(z) = rr.data
PROOF
<1>1. hasSOA(z)
  BY DEF hasSOA, SOAs
<1>2. soaOf(z) = rr
  BY <1>1, SoaOfIsTheSOA DEF OneSOA
<1> QED
  BY <1>1, <1>2 DEF serialOf

LEMMA ReadBackSerial ==
    ASSUME NEW z \in SUBSET RR, OneSOA(z), NoTwins(z), hasSOA(z)
    PROVE  serialOf(ReadBack(z)) = serialOf(z)
PROOF
<1> DEFINE soa == soaOf(z)
<1>1. soa \in z /\ soa.type = "SOA"
  BY SoaOfIsTheSOA
<1>2. readBack(soa) \in ReadBack(z) /\ sameRR(readBack(soa), soa)
  BY <1>1, ReadBackFields
<1>3. OneSOA(ReadBack(z))
  BY ReadBackKeepsRules
<1>4. serialOf(ReadBack(z)) = readBack(soa).data
  BY <1>1, <1>2, <1>3, SerialOfTheSOA DEF sameRR
<1>5. serialOf(z) = soa.data
  BY <1>1, SerialOfTheSOA
<1> QED
  BY <1>2, <1>4, <1>5 DEF sameRR

JournalInv ==
    /\ UniqueInv
    /\ todo \in Seq(BuildableUpdates)
    /\ \A z \in Copies : Builds(z)
    /\ chained(jstore) /\ Len(jstore) <= History
    /\ chained(incs) /\ Len(incs) <= History
    /\ ~WithJournal => incs = << >> /\ jstore = << >> /\ pc # "journal"
    /\ Serving /\ incs # << >> => incs[Len(incs)].newSerial = serialOf(current)
    /\ Serving /\ WithJournal /\ pc # "swap" => serialOf(mem) = serialOf(current)
    /\ WithJournal /\ pc = "swap" => serialOf(work) = serialOf(current)

LEMMA BuildsKept ==
    ASSUME NEW z \in SUBSET RR, Builds(z)
    PROVE  /\ Builds(bumpSerial(z)) /\ Builds(ReadBack(z))
           /\ \A u \in BuildableUpdates : Builds(ApplyRR(z, u))
PROOF
<1>1. Builds(bumpSerial(z))
  BY BumpedFields DEF Builds
<1>2. Builds(ReadBack(z))
  BY ReadBackFields DEF Builds, sameRR
<1>3. ASSUME NEW u \in BuildableUpdates PROVE Builds(ApplyRR(z, u))
  BY ApplyRecords DEF Builds, BuildableUpdates, AsRR
<1> QED
  BY <1>1, <1>2, <1>3

LEMMA JournalInit ==
    ASSUME OneSOA(Seed), NoTwins(Seed), Builds(Seed), Init
    PROVE  JournalInv
PROOF
<1>1. UniqueInv
  BY UniqueInit
<1>2. todo \in Seq(BuildableUpdates)
  BY EmptySeq DEF Init
<1>3. chained(<< >>) /\ Len(<< >>) <= History
  BY PrimaryAssumption DEF chained
<1> QED
  BY <1>1, <1>2, <1>3 DEF JournalInv, Init, Copies

LEMMA JournalStep ==
    ASSUME RequestsIn(BuildableUpdates)
    PROVE  JournalInv /\ [Next]_vars => JournalInv'
PROOF
<1> SUFFICES ASSUME JournalInv, [Next]_vars PROVE JournalInv'
  OBVIOUS
<1>1. TypeInv /\ UniqueInv
  BY DEF JournalInv, UniqueInv
<1>2. UniqueInv'
  BY <1>1, UniqueStep
<1>3. todo' \in Seq(BuildableUpdates)
  BY <1>1, TodoStep DEF JournalInv
<1>4. ASSUME NEW z \in Copies' PROVE Builds(z)
  <2>1. CASE z \in Copies
    BY <2>1 DEF JournalInv
  <2>2. CASE pc = "apply" /\ todo # << >> /\ z = ApplyRR(work, Head(todo))
    <3>1. Head(todo) \in BuildableUpdates
      BY <2>2, HeadTailProperties DEF JournalInv
    <3> QED
      BY <1>1, <2>2, <3>1, CopiesFacts, BuildsKept DEF JournalInv
  <2>3. CASE pc = "apply" /\ z = bumpSerial(work)
    BY <1>1, <2>3, CopiesFacts, BuildsKept DEF JournalInv
  <2>4. CASE z = ReadBack(store)
    BY <1>1, <2>4, CopiesFacts, BuildsKept DEF JournalInv
  <2> QED
    BY <1>1, <1>4, <2>1, <2>2, <2>3, <2>4, CopiesStep
<1> DEFINE Chain == /\ chained(jstore) /\ Len(jstore) <= History
                    /\ chained(incs) /\ Len(incs) <= History
                    /\ ~WithJournal => incs = << >> /\ jstore = << >> /\ pc # "journal"
                    /\ Serving /\ incs # << >> => incs[Len(incs)].newSerial = serialOf(current)
                    /\ Serving /\ WithJournal /\ pc # "swap" => serialOf(mem) = serialOf(current)
                    /\ WithJournal /\ pc = "swap" => serialOf(work) = serialOf(current)
<1>5. Chain'
  <2>0. Chain
    BY DEF JournalInv
  <2> USE <2>0 DEF handler, journal, Reply, Serving
  <2>1. ASSUME NEW r \in WireRequests, ServeUpdate(r) PROVE Chain'
    BY <2>1 DEF ServeUpdate, Begin
  <2>2. ASSUME NEW q \in HttpRequests, HttpApply(q) PROVE Chain'
    BY <2>2 DEF HttpApply, Begin
  <2>3. ASSUME \/ ApplyNext \/ NothingChanged \/ PersistFails \/ Persist
               \/ CommitJournalFails \/ Transfer \/ Crash
        PROVE  Chain'
    BY <2>3 DEF ApplyNext, NothingChanged, PersistFails, Persist, CommitJournalFails,
                Transfer, Crash
  <2>4. ASSUME CommitJournal PROVE Chain'
    <3> DEFINE inc  == NewIncrement(mem, work)
               next == Extend(incs, inc, History)
    <3>1. inc \in Increment /\ incs \in Seq(Increment) /\ History \in Nat \ {0}
      BY <1>1, TypeInvFacts, NewIncrementType, PrimaryAssumption
    <3>2. inc.oldSerial = serialOf(mem) /\ inc.newSerial = serialOf(work)
      BY DEF NewIncrement
    <3>3. incs # << >> => incs[Len(incs)].newSerial = inc.oldSerial
      BY <2>4, <3>2 DEF CommitJournal
    <3>4. /\ chained(next) /\ Len(next) <= History /\ next # << >>
          /\ next[Len(next)] = inc
      <4> HIDE DEF inc
      <4> QED
        BY <3>1, <3>3, ExtendChains
    <3>5. incs' = next /\ jstore' = next /\ current' = work /\ work' = work /\ mem' = mem
          /\ pc' = "swap" /\ WithJournal
      BY <2>4 DEF CommitJournal
    <3> HIDE DEF next, inc
    <3> QED
      BY <3>2, <3>4, <3>5
  <2>5. ASSUME Swap PROVE Chain'
    <3>1. Builds(work)
      BY <1>1, <2>5, CopiesFacts DEF Swap, JournalInv
    <3> QED
      BY <2>5, <3>1 DEF Swap
  <2>6. ASSUME Restart PROVE Chain'
    <3>1. CASE ~Restorable(store)
      BY <2>6, <3>1 DEF Restart
    <3>2. CASE Restorable(store)
      <4> DEFINE kept == reconcile(jstore, serialOf(store))
      <4>1. jstore \in Seq(Increment) /\ store \in SUBSET RR /\ OneSOA(store) /\ NoTwins(store)
            /\ hasSOA(store)
        BY <1>1, <3>2, TypeInvFacts, CopiesFacts DEF UniqueInv, Restorable
      <4>2. serialOf(ReadBack(store)) = serialOf(store)
        BY <4>1, ReadBackSerial
      <4>3. /\ kept \in Seq(Increment) /\ chained(kept) /\ Len(kept) <= Len(jstore)
            /\ kept # << >> => kept[Len(kept)].newSerial = serialOf(store)
        BY <4>1, ReconcileChains
      <4> HIDE DEF kept
      <4>4. Len(kept) \in Nat /\ Len(jstore) \in Nat /\ History \in Nat
        BY <4>1, <4>3, LenProperties, PrimaryAssumption
      <4>5. Len(kept) <= History /\ (jstore = << >> => kept = << >>)
        BY <4>3, <4>4, EmptySeq
      <4>6. chained(<< >>) /\ Len(<< >>) <= History
        BY <4>4 DEF chained
      <4>7. incs' \in {kept, << >>} /\ mem' = ReadBack(store) /\ current' = ReadBack(store)
            /\ jstore' = jstore /\ pc' = "idle"
        BY <2>6, <3>2 DEF Restart, kept
      <4> QED
        BY <4>2, <4>3, <4>5, <4>6, <4>7
    <3> QED
      BY <3>1, <3>2
  <2>7. ASSUME UNCHANGED vars PROVE Chain'
    BY <2>7 DEF vars
  <2> QED
    BY <2>1, <2>2, <2>3, <2>4, <2>5, <2>6, <2>7 DEF Next
<1> QED
  BY <1>2, <1>3, <1>4, <1>5 DEF JournalInv

(* For every history length, and even when journal writes fail, the        *)
(* journal of a zone that is served chains, ends at the generation that    *)
(* transfers are served from and keeps to its history, across crashes      *)
(* between any two writes and reloads of a saved journal (commit,          *)
(* reconcile), as long as no update adds NSEC3 parameters.                 *)
THEOREM JournalStaysFit ==
    ASSUME OneSOA(Seed), NoTwins(Seed), Builds(Seed), RequestsIn(BuildableUpdates)
    PROVE  Spec => []JournalFits
PROOF
<1>1. Init => JournalInv
  BY JournalInit
<1>2. JournalInv /\ [Next]_vars => JournalInv'
  BY JournalStep
<1>3. JournalInv => JournalFits
  BY DEF JournalInv, JournalFits
<1> QED
  BY <1>1, <1>2, <1>3, PTL DEF Spec

-----------------------------------------------------------------------------
(* Serials.  The store is level with memory or one generation ahead of it: *)
(* a write whose journal or swap failed is replaced by the next one, which *)
(* starts from memory again.  The updates add no SOA of their own (one     *)
(* half the number space ahead is accepted, and is no longer ahead after   *)
(* the bump) and no TTL of 0 (it is read back as another).                 *)

ServerSerials == {u \in UpdateRR : u.class = "IN" => u.type # "SOA" /\ u.ttl # 0}
NoZeroTTL(z)  == \A rr \in z : rr.ttl # 0

LEMMA ApplyKeepsSOAs ==
    ASSUME NEW z, SOAAtApex(z), NEW u, u.class = "IN" => u.type # "SOA"
    PROVE  SOAs(ApplyRR(z, u)) = SOAs(z)
PROOF
<1>1. CASE u.class = "IN"
  BY <1>1 DEF ApplyRR, AddRR, SOAs, matching, sameRR, AsRR
<1>2. CASE u.class = "ANY"
  BY <1>2 DEF ApplyRR, DeleteRRset, SOAs, SOAAtApex
<1>3. CASE u.class = "NONE"
  BY <1>3 DEF ApplyRR, DeleteRR, SOAs, SOAAtApex, matching, sameRR
<1>4. CASE u.class \notin {"IN", "ANY", "NONE"}
  BY <1>4 DEF ApplyRR
<1> QED
  BY <1>1, <1>2, <1>3, <1>4

LEMMA ApplyKeepsSerial ==
    ASSUME NEW z, SOAAtApex(z), NEW u \in ServerSerials
    PROVE  serialOf(ApplyRR(z, u)) = serialOf(z)
PROOF
<1>1. SOAs(ApplyRR(z, u)) = SOAs(z)
  BY ApplyKeepsSOAs DEF ServerSerials
<1> QED
  BY <1>1 DEF serialOf, hasSOA, soaOf

LEMMA BumpedSerial ==
    ASSUME NEW z \in SUBSET RR, OneSOA(z), hasSOA(z)
    PROVE  serialOf(bumpSerial(z)) = NextSerial(serialOf(z))
PROOF
<1> DEFINE soa == soaOf(z)
<1>1. soa \in z /\ soa.type = "SOA"
  BY SoaOfIsTheSOA
<1>2. bumped(soa) \in bumpSerial(z) /\ bumped(soa).type = "SOA"
  BY <1>1, BumpedFields
<1>3. bumped(soa).data = NextSerial(soa.data)
  BY <1>1 DEF bumped, RR
<1>4. OneSOA(bumpSerial(z))
  BY BumpKeepsRules
<1>5. serialOf(bumpSerial(z)) = bumped(soa).data
  BY <1>2, <1>4, SerialOfTheSOA
<1>6. serialOf(z) = soa.data
  BY <1>1, SerialOfTheSOA
<1> QED
  BY <1>3, <1>5, <1>6

LEMMA NextSerialGreater ==
    ASSUME NEW s \in Serials
    PROVE  serialGreater(NextSerial(s), s)
PROOF
  BY HalfAssumption DEF Serials, NextSerial, serialGreater

LEMMA NoZeroTTLKept ==
    ASSUME NEW z \in SUBSET RR, NoZeroTTL(z)
    PROVE  /\ NoZeroTTL(bumpSerial(z)) /\ ReadBack(z) = z
           /\ \A u \in ServerSerials : NoZeroTTL(ApplyRR(z, u))
PROOF
<1>1. NoZeroTTL(bumpSerial(z))
  <2>1. \A rr \in z : bumped(rr).ttl = rr.ttl
    BY DEF bumped, RR
  <2> QED
    BY <2>1, BumpedFields DEF NoZeroTTL
<1>2. ReadBack(z) = z
  BY DEF ReadBack, NoZeroTTL
<1>3. ASSUME NEW u \in ServerSerials PROVE NoZeroTTL(ApplyRR(z, u))
  BY ApplyRecords DEF NoZeroTTL, ServerSerials, AsRR
<1> QED
  BY <1>1, <1>2, <1>3

SerialInv ==
    /\ ApexInv
    /\ todo \in Seq(ServerSerials)
    /\ \A z \in Copies : NoZeroTTL(z)
    /\ store = mem \/ serialOf(store) = NextSerial(serialOf(mem))
    /\ pc = "apply" => serialOf(work) = serialOf(mem)
    /\ pc \in {"journal", "swap"} => /\ store = work
                                     /\ serialOf(work) = NextSerial(serialOf(mem))

LEMMA SerialStep ==
    ASSUME RequestsIn(ServerSerials)
    PROVE  SerialInv /\ [Next]_vars => SerialInv'
PROOF
<1> SUFFICES ASSUME SerialInv, [Next]_vars PROVE SerialInv'
  OBVIOUS
<1>1. TypeInv /\ UniqueInv /\ ApexInv
  BY DEF SerialInv, ApexInv, UniqueInv
<1>2. ApexInv'
  <2>1. ServerSerials \subseteq ApexSOAs
    BY DEF ServerSerials, ApexSOAs
  <2> QED
    BY <1>1, <2>1, ApexRequests, ApexStep
<1>3. todo' \in Seq(ServerSerials)
  BY <1>1, TodoStep DEF SerialInv
<1>4. ASSUME NEW z \in Copies' PROVE NoZeroTTL(z)
  <2>1. CASE z \in Copies
    BY <2>1 DEF SerialInv
  <2>2. CASE pc = "apply" /\ todo # << >> /\ z = ApplyRR(work, Head(todo))
    <3>1. Head(todo) \in ServerSerials
      BY <2>2, HeadTailProperties DEF SerialInv
    <3> QED
      BY <1>1, <2>2, <3>1, CopiesFacts, NoZeroTTLKept DEF SerialInv
  <2>3. CASE pc = "apply" /\ z = bumpSerial(work)
    BY <1>1, <2>3, CopiesFacts, NoZeroTTLKept DEF SerialInv
  <2>4. CASE z = ReadBack(store)
    BY <1>1, <2>4, CopiesFacts, NoZeroTTLKept DEF SerialInv
  <2> QED
    BY <1>1, <1>4, <2>1, <2>2, <2>3, <2>4, CopiesStep
<1> DEFINE Ahead == /\ store = mem \/ serialOf(store) = NextSerial(serialOf(mem))
                    /\ pc = "apply" => serialOf(work) = serialOf(mem)
                    /\ pc \in {"journal", "swap"} =>
                           /\ store = work
                           /\ serialOf(work) = NextSerial(serialOf(mem))
<1>5. Ahead'
  <2>0. Ahead
    BY DEF SerialInv
  <2> USE <2>0 DEF handler, journal, Reply
  <2>1. ASSUME NEW r \in WireRequests, ServeUpdate(r) PROVE Ahead'
    BY <2>1 DEF ServeUpdate, Begin
  <2>2. ASSUME NEW q \in HttpRequests, HttpApply(q) PROVE Ahead'
    BY <2>2 DEF HttpApply, Begin
  <2>3. ASSUME ApplyNext PROVE Ahead'
    <3>1. Head(todo) \in ServerSerials /\ SOAAtApex(work)
      BY <1>1, <2>3, CopiesFacts, HeadTailProperties
         DEF ApplyNext, SerialInv, ApexInv, KeepsApex
    <3>2. serialOf(ApplyRR(work, Head(todo))) = serialOf(work)
      BY <3>1, ApplyKeepsSerial
    <3> QED
      BY <2>3, <3>2 DEF ApplyNext
  <2>4. ASSUME \/ NothingChanged \/ PersistFails \/ CommitJournal \/ CommitJournalFails
               \/ Swap \/ Transfer \/ Crash
        PROVE  Ahead'
    BY <2>4 DEF NothingChanged, PersistFails, CommitJournal, CommitJournalFails, Swap,
                Transfer, Crash
  <2>5. ASSUME Persist PROVE Ahead'
    <3>1. work \in SUBSET RR /\ hasSOA(work) /\ OneSOA(work)
      BY <1>1, <2>5, CopiesFacts DEF ApexInv, KeepsApex, Persist
    <3>2. serialOf(bumpSerial(work)) = NextSerial(serialOf(mem))
      BY <2>5, <3>1, BumpedSerial DEF Persist
    <3> QED
      BY <2>5, <3>1, <3>2 DEF Persist
  <2>6. ASSUME Restart PROVE Ahead'
    <3>1. ReadBack(store) = store
      BY <1>1, CopiesFacts, NoZeroTTLKept DEF SerialInv
    <3> QED
      BY <2>6, <3>1 DEF Restart
  <2>7. ASSUME UNCHANGED vars PROVE Ahead'
    BY <2>7 DEF vars
  <2> QED
    BY <2>1, <2>2, <2>3, <2>4, <2>5, <2>6, <2>7 DEF Next
<1> QED
  BY <1>2, <1>3, <1>4, <1>5 DEF SerialInv

(* What is served changes in a swap and in a restart only, and then for    *)
(* the next generation.                                                    *)
LEMMA ServedStep ==
    ASSUME SerialInv, [Next]_vars, mem' # mem
    PROVE  serialGreater(serialOf(mem'), serialOf(mem))
PROOF
<1>0. TypeInv
  BY DEF SerialInv, ApexInv, UniqueInv
<1>1. serialOf(mem) \in Serials
  BY <1>0, TypeInvFacts, SerialOfType
<1>2. serialOf(mem') = NextSerial(serialOf(mem))
  <2> USE DEF handler, journal, Reply
  <2>1. CASE Swap
    BY <2>1 DEF Swap, SerialInv
  <2>2. CASE Restart
    <3>1. ReadBack(store) = store
      BY <1>0, CopiesFacts, NoZeroTTLKept DEF SerialInv
    <3> QED
      BY <2>2, <3>1 DEF Restart, SerialInv
  <2>3. ASSUME NEW r \in WireRequests, ServeUpdate(r) PROVE FALSE
    BY <2>3 DEF ServeUpdate
  <2>4. ASSUME NEW q \in HttpRequests, HttpApply(q) PROVE FALSE
    BY <2>4 DEF HttpApply
  <2>5. ASSUME \/ ApplyNext \/ NothingChanged \/ Persist \/ PersistFails \/ CommitJournal
               \/ CommitJournalFails \/ Transfer \/ Crash \/ UNCHANGED vars
        PROVE  FALSE
    BY <2>5 DEF ApplyNext, NothingChanged, Persist, PersistFails, CommitJournal,
                CommitJournalFails, Transfer, Crash, vars
  <2> QED
    BY <2>1, <2>2, <2>3, <2>4, <2>5 DEF Next
<1> QED
  BY <1>1, <1>2, NextSerialGreater

(* Whatever fails or crashes, journal writes too, and also where the       *)
(* serial wraps, the serial that queries see only ever moves forward, and  *)
(* contents never change without it, as long as clients leave the serial   *)
(* to the server and give every record a TTL.                              *)
THEOREM SerialOnlyMovesForward ==
    ASSUME KeepsApex(Seed), NoTwins(Seed), NoZeroTTL(Seed), RequestsIn(ServerSerials)
    PROVE  Spec => SerialMovesForward
PROOF
<1>1. Init => SerialInv
  <2> SUFFICES ASSUME Init PROVE SerialInv
    OBVIOUS
  <2>1. ApexInv
    BY ApexInit
  <2>2. todo \in Seq(ServerSerials)
    BY EmptySeq DEF Init
  <2> QED
    BY <2>1, <2>2 DEF SerialInv, Init, Copies
<1>2. SerialInv /\ [Next]_vars => SerialInv'
  BY SerialStep
<1>3. SerialInv /\ [Next]_vars =>
          [mem' # mem => serialGreater(serialOf(mem'), serialOf(mem))]_vars
  BY ServedStep
<1> QED
  BY <1>1, <1>2, <1>3, PTL DEF Spec, SerialMovesForward

(* The same invariant with the journal beside it: its snapshot is level    *)
(* with memory until a commit replaces it.                                 *)
LeadInv ==
    /\ SerialInv /\ JournalInv
    /\ WithJournal => /\ pc \in {"idle", "apply", "journal"} => current = mem
                      /\ pc = "swap" => current = work

LEMMA LeadStep ==
    ASSUME RequestsIn(ServerSerials), RequestsIn(BuildableUpdates)
    PROVE  LeadInv /\ [Next]_vars => LeadInv'
PROOF
<1> SUFFICES ASSUME LeadInv, [Next]_vars PROVE LeadInv'
  OBVIOUS
<1>1. SerialInv /\ JournalInv /\ TypeInv
  BY DEF LeadInv, SerialInv, ApexInv, UniqueInv
<1>2. SerialInv' /\ JournalInv'
  BY <1>1, SerialStep, JournalStep
<1> DEFINE Beside == WithJournal => /\ pc \in {"idle", "apply", "journal"} => current = mem
                                    /\ pc = "swap" => current = work
<1>3. Beside'
  <2>0. Beside
    BY DEF LeadInv
  <2> USE <2>0 DEF handler, journal, Reply
  <2>1. ASSUME NEW r \in WireRequests, ServeUpdate(r) PROVE Beside'
    BY <2>1 DEF ServeUpdate, Begin
  <2>2. ASSUME NEW q \in HttpRequests, HttpApply(q) PROVE Beside'
    BY <2>2 DEF HttpApply, Begin
  <2>3. ASSUME ApplyNext \/ NothingChanged \/ Persist \/ PersistFails PROVE Beside'
    BY <2>3 DEF ApplyNext, NothingChanged, Persist, PersistFails
  <2>4. ASSUME CommitJournal \/ CommitJournalFails \/ Transfer \/ Crash PROVE Beside'
    BY <2>4 DEF CommitJournal, CommitJournalFails, Transfer, Crash
  <2>5. ASSUME Swap PROVE Beside'
    <3>1. Builds(work)
      BY <1>1, <2>5, CopiesFacts DEF Swap, JournalInv
    <3> QED
      BY <2>5, <3>1 DEF Swap
  <2>6. ASSUME Restart PROVE Beside'
    BY <2>6 DEF Restart
  <2>7. ASSUME UNCHANGED vars PROVE Beside'
    BY <2>7 DEF vars
  <2> QED
    BY <2>1, <2>2, <2>3, <2>4, <2>5, <2>6, <2>7 DEF Next
<1> QED
  BY <1>2, <1>3 DEF LeadInv

(* For every sequence of failed writes, failed journal entries, crashes    *)
(* and retries: between requests the journal is level with what is served  *)
(* and SQLite is level with it or one generation ahead, as long as clients *)
(* leave the serial to the server, give every record a TTL and add no      *)
(* NSEC3 parameters.  That the store may be ahead is what a SERVFAIL for a *)
(* journal entry leaves behind (commitLocked returns between persist and   *)
(* swap).                                                                  *)
THEOREM StoreLeadsByOne ==
    ASSUME KeepsApex(Seed), NoTwins(Seed), NoZeroTTL(Seed), Builds(Seed),
           RequestsIn(ServerSerials), RequestsIn(BuildableUpdates)
    PROVE  Spec => []StoreOneAhead
PROOF
<1>1. Init => LeadInv
  <2> SUFFICES ASSUME Init PROVE LeadInv
    OBVIOUS
  <2>1. ApexInv
    BY ApexInit
  <2>2. todo \in Seq(ServerSerials)
    BY EmptySeq DEF Init
  <2>3. SerialInv
    BY <2>1, <2>2 DEF SerialInv, Init, Copies
  <2>4. JournalInv
    BY JournalInit DEF KeepsApex
  <2> QED
    BY <2>3, <2>4 DEF LeadInv, Init
<1>2. LeadInv /\ [Next]_vars => LeadInv'
  BY LeadStep
<1>3. LeadInv => StoreOneAhead
  BY DEF LeadInv, SerialInv, StoreOneAhead
<1> QED
  BY <1>1, <1>2, <1>3, PTL DEF Spec

-----------------------------------------------------------------------------
(* Secondaries.  A serial names one generation: whatever transfers have    *)
(* seen, or a restart would read, agrees with one assignment G of contents *)
(* to serials.  Only a write to the store gives a serial contents, and the *)
(* serial it uses may have had others (of a write whose journal failed),   *)
(* so the invariant also says how far what was seen can have come, counted *)
(* from the seed, and that a write starts one generation further.  Fewer   *)
(* than half the serials are used: further on, RFC 1982 has no order.      *)

Generations == {z \in SUBSET RR : IsFiniteSet(z) /\ NoTwins(z) /\ KeepsApex(z)}

Offset(s) ==
    IF s >= serialOf(Seed) THEN s - serialOf(Seed) ELSE s - serialOf(Seed) + 2 * Half

(* How far the generations that transfers can have seen, and those that    *)
(* the next start would serve, can have come.                              *)
Reached ==
    IF pc \in {"idle", "apply", "journal"} THEN Offset(serialOf(mem)) ELSE Offset(serialOf(store))

Seen(G, n) == {z \in SUBSET RR : Offset(serialOf(z)) <= n /\ G[serialOf(z)] = z}

Told(G, n) ==
    {inc \in Increment : /\ Offset(inc.oldSerial) <= n /\ Offset(inc.newSerial) <= n
                         /\ inc.deleted = diffMissing(G[inc.oldSerial], G[inc.newSerial])
                         /\ inc.added = diffMissing(G[inc.newSerial], G[inc.oldSerial])}

Contents(G) ==
    /\ G[serialOf(store)] = store
    /\ mem \in Seen(G, Reached) /\ current \in Seen(G, Reached)
    /\ replica # {} => replica \in Seen(G, Reached)
    /\ incs \in Seq(Told(G, Reached)) /\ jstore \in Seq(Told(G, Reached))

Level ==
    /\ Offset(serialOf(mem)) <= Offset(serialOf(store))
    /\ Offset(serialOf(store)) <= commits

ReplicaInv ==
    /\ SerialInv /\ JournalInv
    /\ MaxCommits < Half
    /\ Level
    /\ \E G \in [Serials -> Generations] : Contents(G)

LEMMA OffsetFacts ==
    /\ serialOf(Seed) \in Serials
    /\ Offset(serialOf(Seed)) = 0
    /\ \A s \in Serials : Offset(s) \in 0 .. (2 * Half - 1)
    /\ \A s, t \in Serials : Offset(s) = Offset(t) => s = t
    /\ \A s \in Serials : Offset(s) < 2 * Half - 1 => Offset(NextSerial(s)) = Offset(s) + 1
    /\ \A s, t \in Serials :
           Offset(s) <= Offset(t) /\ Offset(t) < Half => ~serialNewer(s, t)
PROOF
<1>1. serialOf(Seed) \in Serials
  BY PrimaryAssumption, SerialOfType
<1> DEFINE o == serialOf(Seed)
<1>2. o \in Int /\ 0 <= o /\ o <= 2 * Half - 1
  BY <1>1, HalfAssumption DEF Serials
<1>3. \A s : Offset(s) = IF s >= o THEN s - o ELSE s - o + 2 * Half
  BY DEF Offset
<1>4. \A s \in Serials : s \in Int /\ 0 <= s /\ s <= 2 * Half - 1
  BY HalfAssumption DEF Serials
<1>5. Half \in Int /\ Half > 1
  BY HalfAssumption
<1> HIDE DEF o
<1>6. Offset(o) = 0
  BY <1>2, <1>3
<1>7. \A s \in Serials : Offset(s) \in 0 .. (2 * Half - 1)
  BY <1>2, <1>3, <1>4, <1>5
<1>8. \A s, t \in Serials : Offset(s) = Offset(t) => s = t
  BY <1>2, <1>3, <1>4, <1>5
<1>9. \A s \in Serials : Offset(s) < 2 * Half - 1 => Offset(NextSerial(s)) = Offset(s) + 1
  BY <1>2, <1>3, <1>4, <1>5 DEF NextSerial
<1>10. \A s, t \in Serials :
           Offset(s) <= Offset(t) /\ Offset(t) < Half => ~serialNewer(s, t)
  BY <1>2, <1>3, <1>4, <1>5 DEF serialNewer
<1> QED
  BY <1>1, <1>6, <1>7, <1>8, <1>9, <1>10 DEF o

(* What was seen stays seen when transfers can have come further, and when *)
(* a generation further on is written.                                     *)
LEMMA SeenOn ==
    ASSUME NEW G \in [Serials -> Generations], NEW H \in [Serials -> Generations],
           NEW n \in Int, NEW m \in Int, n <= m,
           \A s \in Serials : Offset(s) <= n => H[s] = G[s]
    PROVE  /\ Seen(G, n) \subseteq Seen(H, m) /\ Told(G, n) \subseteq Told(H, m)
           /\ Seq(Told(G, n)) \subseteq Seq(Told(H, m))
PROOF
<1>0. \A s \in Serials : Offset(s) \in Int
  BY OffsetFacts
<1>1. ASSUME NEW z \in Seen(G, n) PROVE z \in Seen(H, m)
  <2>1. serialOf(z) \in Serials
    BY SerialOfType DEF Seen
  <2> QED
    BY <1>0, <2>1 DEF Seen
<1>2. ASSUME NEW inc \in Told(G, n) PROVE inc \in Told(H, m)
  <2>1. inc.oldSerial \in Serials /\ inc.newSerial \in Serials
    BY DEF Told, Increment
  <2>2. H[inc.oldSerial] = G[inc.oldSerial] /\ H[inc.newSerial] = G[inc.newSerial]
    BY <2>1 DEF Told
  <2>3. Offset(inc.oldSerial) <= m /\ Offset(inc.newSerial) <= m
    BY <1>0, <2>1 DEF Told
  <2> QED
    BY <2>2, <2>3 DEF Told
<1>3. \A s : s \in Seq(Told(G, n)) => s \in Seq(Told(H, m))
  BY <1>2, SeqMonotonic
<1> QED
  BY <1>1, <1>2, <1>3

(* What a transfer leaves a secondary with is a generation that was seen:  *)
(* the current one whole, its own, or the current one pieced together from *)
(* the increments since its own.                                           *)
LEMMA TransferSeen ==
    ASSUME TypeInv, chained(incs),
           NEW n, NEW G \in [Serials -> Generations],
           current \in Seen(G, n),
           replica # {} => replica \in Seen(G, n),
           incs \in Seq(Told(G, n))
    PROVE  Transferred(answer(incs, current, serialOf(replica))) \in Seen(G, n)
PROOF
<1> DEFINE a == answer(incs, current, serialOf(replica))
<1>1. a.kind \in {"axfr", "uptodate", "ixfr"}
  BY DEF answer
<1>2. CASE a.kind = "axfr"
  BY <1>2 DEF Transferred
<1>3. CASE replica = {}
  <2>1. serialOf(replica) = 0
    BY <1>3 DEF serialOf, hasSOA, SOAs
  <2>2. a.kind = "axfr"
    BY <2>1 DEF answer
  <2> QED
    BY <1>2, <2>2
<1>4. CASE a.kind = "uptodate"
  BY <1>3, <1>4 DEF Transferred
<1>5. CASE a.kind = "ixfr" /\ replica # {}
  <2> DEFINE starts == {i \in DOMAIN incs : incs[i].oldSerial = serialOf(replica)}
             k      == CHOOSE i \in starts : \A j \in starts : i <= j
             L      == Len(incs)
             s      == a.incs
  <2>1. /\ L \in Nat /\ DOMAIN incs = 1 .. L
        /\ \A i \in 1 .. L : incs[i] \in Told(G, n)
    BY LenProperties, ElementOfSeq
  <2>2. s = ixfrFrom(incs, current, serialOf(replica)) /\ s # << >>
    BY <1>5 DEF answer
  <2>3. starts # {} /\ s = SubSeq(incs, k, L) /\ incs[L].newSerial = serialOf(current)
    BY <2>2 DEF ixfrFrom
  <2>4. k \in 1 .. L /\ incs[k].oldSerial = serialOf(replica)
    <3>1. starts \in SUBSET Nat
      BY <2>1
    <3>2. \E i \in starts : \A j \in starts : i <= j
      <4> HIDE DEF starts
      <4> QED
        BY <2>3, <3>1, LeastNatural
    <3> QED
      BY <2>1, <3>2
  <2> HIDE DEF k, L, s, starts
  <2> DEFINE N == L - k + 1
  <2>5. /\ N \in Nat /\ N >= 1 /\ DOMAIN s = 1 .. N
        /\ \A i \in 1 .. N : s[i] = incs[k + i - 1]
    <3>1. k \in Int /\ L \in Int /\ k <= L /\ \A i \in k .. L : incs[i] \in Told(G, n)
      BY <2>1, <2>4
    <3>2. /\ s \in Seq(Told(G, n)) /\ Len(s) = L - k + 1
          /\ \A i \in 1 .. L - k + 1 : s[i] = incs[k + i - 1]
      BY <2>3, <3>1, SubSeqProperties
    <3> QED
      BY <3>1, <3>2, LenProperties
  <2>6. /\ \A i \in 1 .. N : s[i] \in Told(G, n)
        /\ s[1].oldSerial = serialOf(replica)
        /\ s[N].newSerial = serialOf(current)
    <3>1. \A i \in 1 .. N : k + i - 1 \in 1 .. L
      BY <2>1, <2>4
    <3>2. 1 \in 1 .. N /\ N \in 1 .. N /\ k + 1 - 1 = k /\ k + N - 1 = L
      BY <2>1, <2>4, <2>5
    <3> HIDE DEF N
    <3> QED
      BY <2>1, <2>3, <2>4, <2>5, <3>1, <3>2
  <2>7. \A i \in 1 .. N : i > 1 => s[i].oldSerial = s[i - 1].newSerial
    <3> SUFFICES ASSUME NEW i \in 1 .. N, i > 1 PROVE s[i].oldSerial = s[i - 1].newSerial
      OBVIOUS
    <3>1. i - 1 \in 1 .. N /\ k + i - 1 \in 1 .. L /\ k + i - 1 > 1
          /\ (k + i - 1) - 1 = k + (i - 1) - 1
      BY <2>1, <2>4, <2>5
    <3>2. s[i] = incs[k + i - 1] /\ s[i - 1] = incs[k + (i - 1) - 1]
      BY <2>5, <3>1
    <3> QED
      BY <2>1, <3>1, <3>2 DEF chained
  <2> DEFINE T == [j \in 0 .. N |-> IF j = 0 THEN replica ELSE G[s[j].newSerial]]
  <2>8. T \in [0 .. N -> SUBSET RR] /\ T[0] = replica /\ T[N] = current
    <3>1. \A i \in 1 .. N : G[s[i].newSerial] \in SUBSET RR
      BY <2>6 DEF Told, Increment, Generations
    <3>2. replica \in SUBSET RR /\ G[serialOf(current)] = current
      BY TypeInvFacts DEF Seen
    <3> QED
      BY <2>5, <2>6, <3>1, <3>2
  <2>9. \A j \in 1 .. N : G[s[j].oldSerial] = T[j - 1] /\ G[s[j].newSerial] = T[j]
    <3> SUFFICES ASSUME NEW j \in 1 .. N
                 PROVE  G[s[j].oldSerial] = T[j - 1] /\ G[s[j].newSerial] = T[j]
      OBVIOUS
    <3>1. j - 1 \in 0 .. N /\ j \in 0 .. N /\ j # 0
      BY <2>5
    <3>2. CASE j = 1
      <4>1. G[serialOf(replica)] = replica
        BY <1>5 DEF Seen
      <4> QED
        BY <2>6, <3>1, <3>2, <4>1
    <3>3. CASE j # 1
      BY <2>7, <3>1, <3>3
    <3> QED
      BY <3>2, <3>3
  <2>10. \A j \in 1 .. N : /\ s[j].deleted = diffMissing(T[j - 1], T[j])
                           /\ s[j].added = diffMissing(T[j], T[j - 1])
    <3> HIDE DEF T
    <3> QED
      BY <2>6, <2>9 DEF Told
  <2> HIDE DEF T, N
  <2>11. Replay(replica, s) = current \ SOAs(current)
    BY <2>5, <2>8, <2>10, ReplayReaches
  <2>12. Transferred(a) = Replay(replica, s) \cup SOAs(current)
    BY <1>5 DEF Transferred, s
  <2>13. Transferred(a) = current
    BY <2>11, <2>12 DEF SOAs
  <2> QED
    BY <2>13
<1> QED
  BY <1>1, <1>2, <1>3, <1>4, <1>5

LEMMA LevelFacts ==
    ASSUME TypeInv, MaxCommits < Half, Level
    PROVE  /\ serialOf(mem) \in Serials /\ serialOf(store) \in Serials
           /\ Offset(serialOf(mem)) \in Int /\ Offset(serialOf(store)) \in Int
           /\ Offset(serialOf(mem)) >= 0
           /\ Offset(serialOf(store)) < Half
           /\ Reached \in Int /\ Reached <= Offset(serialOf(store))
PROOF
<1>1. serialOf(mem) \in Serials /\ serialOf(store) \in Serials
  BY TypeInvFacts, SerialOfType
<1>2. /\ Offset(serialOf(mem)) \in Int /\ Offset(serialOf(store)) \in Int
      /\ Offset(serialOf(mem)) >= 0
  BY <1>1, OffsetFacts, HalfAssumption
<1>3. commits \in Int /\ commits <= MaxCommits /\ MaxCommits \in Int /\ Half \in Int
  BY TypeInvFacts, PrimaryAssumption, HalfAssumption
<1> QED
  BY <1>1, <1>2, <1>3 DEF Level, Reached

LEMMA LevelStep ==
    ASSUME SerialInv, JournalInv, MaxCommits < Half, Level, RequestsIn(ServerSerials), [Next]_vars
    PROVE  Level'
PROOF
<1> USE DEF handler, journal, Reply
<1>0. TypeInv
  BY DEF SerialInv, ApexInv, UniqueInv
<1>1. ASSUME NEW r \in WireRequests, ServeUpdate(r) PROVE Level'
  BY <1>1 DEF ServeUpdate, Level
<1>2. ASSUME NEW q \in HttpRequests, HttpApply(q) PROVE Level'
  BY <1>2 DEF HttpApply, Level
<1>3. ASSUME \/ ApplyNext \/ NothingChanged \/ PersistFails \/ CommitJournal
             \/ CommitJournalFails \/ Transfer \/ Crash \/ UNCHANGED vars
      PROVE  Level'
  BY <1>3 DEF ApplyNext, NothingChanged, PersistFails, CommitJournal, CommitJournalFails,
              Transfer, Crash, vars, Level
<1>4. ASSUME Persist PROVE Level'
  <2>1. hasSOA(work)
    BY <1>0, <1>4, CopiesFacts DEF SerialInv, ApexInv, KeepsApex, Persist
  <2>2. mem' = mem /\ commits' = commits + 1 /\ pc' \in {"journal", "swap"}
    BY <1>4, <2>1 DEF Persist
  <2>3. SerialInv'
    BY SerialStep
  <2>4. serialOf(store') = NextSerial(serialOf(mem))
    BY <2>2, <2>3 DEF SerialInv
  <2>5. Offset(serialOf(mem)) < 2 * Half - 1
    BY <1>0, LevelFacts, HalfAssumption DEF Level
  <2>6. Offset(serialOf(store')) = Offset(serialOf(mem)) + 1
    BY <1>0, <2>4, <2>5, OffsetFacts, LevelFacts
  <2>7. commits \in Int
    BY <1>0, TypeInvFacts
  <2> QED
    BY <1>0, <2>2, <2>6, <2>7, LevelFacts DEF Level
<1>5. ASSUME Swap PROVE Level'
  <2>1. mem' \in {mem, store} /\ store' = store /\ commits' = commits
    BY <1>5 DEF Swap, SerialInv
  <2> QED
    BY <1>0, <2>1, LevelFacts DEF Level
<1>6. ASSUME Restart PROVE Level'
  <2>1. ReadBack(store) = store
    BY <1>0, CopiesFacts, NoZeroTTLKept DEF SerialInv
  <2>2. mem' \in {mem, store} /\ store' = store /\ commits' = commits
    BY <1>6, <2>1 DEF Restart
  <2> QED
    BY <1>0, <2>2, LevelFacts DEF Level
<1> QED
  BY <1>1, <1>2, <1>3, <1>4, <1>5, <1>6 DEF Next

(* A step that leaves the store alone keeps the contents of every serial.  *)
LEMMA ContentsStep ==
    ASSUME SerialInv, JournalInv, MaxCommits < Half, Level, [Next]_vars, Level', TypeInv',
           ~Persist, NEW G \in [Serials -> Generations], Contents(G)
    PROVE  Contents(G)'
PROOF
<1> USE DEF handler, journal, Reply
<1>0. TypeInv
  BY DEF SerialInv, ApexInv, UniqueInv
<1>a. /\ Reached \in Int /\ Reached <= Offset(serialOf(store))
      /\ Offset(serialOf(store)) \in Int /\ Offset(serialOf(mem)) \in Int
  BY <1>0, LevelFacts
<1>b. store \in Seen(G, Offset(serialOf(store)))
  <2>1. G[serialOf(store)] = store /\ store \in SUBSET RR
    BY <1>0, TypeInvFacts DEF Contents
  <2> QED
    BY <1>a, <2>1 DEF Seen
<1>1. ASSUME NEW r \in WireRequests, ServeUpdate(r) PROVE Contents(G)'
  <2>1. pc = "idle" /\ pc' \in {"idle", "apply"}
        /\ UNCHANGED <<mem, store, current, incs, jstore, replica>>
    BY <1>1 DEF ServeUpdate, Begin
  <2>2. Reached' = Reached
    BY <2>1 DEF Reached
  <2> QED
    BY <2>1, <2>2 DEF Contents
<1>2. ASSUME NEW q \in HttpRequests, HttpApply(q) PROVE Contents(G)'
  <2>1. pc = "idle" /\ pc' \in {"idle", "apply"}
        /\ UNCHANGED <<mem, store, current, incs, jstore, replica>>
    BY <1>2 DEF HttpApply, Begin
  <2>2. Reached' = Reached
    BY <2>1 DEF Reached
  <2> QED
    BY <2>1, <2>2 DEF Contents
<1>3. ASSUME \/ ApplyNext \/ NothingChanged \/ PersistFails \/ CommitJournalFails
             \/ UNCHANGED vars
      PROVE  Contents(G)'
  <2>1. /\ pc' = pc \/ (pc \in {"idle", "apply", "journal"} /\ pc' \in {"idle", "apply", "journal"})
        /\ UNCHANGED <<mem, store, current, incs, jstore, replica>>
    BY <1>3 DEF ApplyNext, NothingChanged, PersistFails, CommitJournalFails, vars
  <2>2. Reached' = Reached
    BY <2>1 DEF Reached
  <2> QED
    BY <2>1, <2>2 DEF Contents
<1>4. ASSUME CommitJournal PROVE Contents(G)'
  <2> DEFINE inc == NewIncrement(mem, work)
             n   == Offset(serialOf(store))
  <2>1. /\ work = store /\ Reached' = n
        /\ UNCHANGED <<mem, store, replica>> /\ current' = store
        /\ incs' = Extend(incs, inc, History) /\ jstore' = Extend(incs, inc, History)
    BY <1>4 DEF CommitJournal, SerialInv, Reached
  <2>2. Seen(G, Reached) \subseteq Seen(G, n) /\ Seq(Told(G, Reached)) \subseteq Seq(Told(G, n))
    BY <1>a, SeenOn
  <2>3. inc \in Told(G, n)
    <3>1. inc \in Increment
      BY <1>0, TypeInvFacts, NewIncrementType
    <3>2. G[serialOf(mem)] = mem /\ G[serialOf(store)] = store
      BY DEF Contents, Seen
    <3>3. /\ inc.oldSerial = serialOf(mem) /\ inc.newSerial = serialOf(store)
          /\ inc.deleted = diffMissing(mem, store) /\ inc.added = diffMissing(store, mem)
      BY <2>1 DEF NewIncrement
    <3>4. Offset(serialOf(mem)) <= n /\ n <= n
      BY <1>a DEF Level
    <3> HIDE DEF inc, n
    <3> QED
      BY <3>1, <3>2, <3>3, <3>4 DEF Told, n
  <2>4. incs \in Seq(Told(G, n)) /\ History \in Nat \ {0}
    BY <2>2, PrimaryAssumption DEF Contents
  <2>5. Extend(incs, inc, History) \in Seq(Told(G, n))
    <3> HIDE DEF inc, n
    <3> QED
      BY <2>3, <2>4, ExtendType
  <2> HIDE DEF inc, n
  <2>6. mem \in Seen(G, n) /\ (replica # {} => replica \in Seen(G, n)) /\ store \in Seen(G, n)
        /\ G[serialOf(store)] = store
    BY <1>b, <2>2 DEF Contents, n
  <2> QED
    BY <2>1, <2>5, <2>6 DEF Contents
<1>5. ASSUME Swap PROVE Contents(G)'
  <2>1. Builds(work)
    BY <1>0, <1>5, CopiesFacts DEF Swap, JournalInv
  <2>2. /\ mem' = store /\ pc' = "idle" /\ Reached = Offset(serialOf(store))
        /\ UNCHANGED <<store, current, incs, jstore, replica>>
    BY <1>5, <2>1 DEF Swap, SerialInv, Reached
  <2>3. Reached' = Reached
    BY <2>2 DEF Reached
  <2> QED
    BY <1>b, <2>2, <2>3 DEF Contents
<1>6. ASSUME Transfer PROVE Contents(G)'
  <2>1. UNCHANGED <<pc, mem, store, current, incs, jstore>>
    BY <1>6 DEF Transfer
  <2>2. Reached' = Reached
    BY <2>1 DEF Reached
  <2>3. replica' \in Seen(G, Reached)
    <3>1. CASE WithJournal
      <4>1. Transferred(answer(incs, current, serialOf(replica))) \in Seen(G, Reached)
        BY <1>0, TransferSeen DEF Contents, JournalInv
      <4> QED
        BY <1>6, <3>1, <4>1 DEF Transfer
    <3>2. CASE ~WithJournal
      BY <1>6, <3>2 DEF Transfer, Contents
    <3> QED
      BY <3>1, <3>2
  <2> QED
    BY <2>1, <2>2, <2>3 DEF Contents
<1>7. ASSUME Crash PROVE Contents(G)'
  <2> DEFINE n == Offset(serialOf(store))
  <2>1. UNCHANGED <<mem, store, current, incs, jstore, replica>> /\ pc' = "down"
    BY <1>7 DEF Crash
  <2>2. Reached' = n
    BY <2>1 DEF Reached
  <2>3. Seen(G, Reached) \subseteq Seen(G, n) /\ Seq(Told(G, Reached)) \subseteq Seq(Told(G, n))
    BY <1>a, SeenOn
  <2> HIDE DEF n
  <2> QED
    BY <2>1, <2>2, <2>3 DEF Contents
<1>8. ASSUME Restart PROVE Contents(G)'
  <2>1. CASE ~Restorable(store)
    <3>1. /\ pc = "down" /\ pc' = "skipped"
          /\ UNCHANGED <<mem, store, current, incs, jstore, replica>>
      BY <1>8, <2>1 DEF Restart
    <3>2. Reached' = Reached
      BY <3>1 DEF Reached
    <3> QED
      BY <3>1, <3>2 DEF Contents
  <2>2. CASE Restorable(store)
    <3>1. ReadBack(store) = store
      BY <1>0, CopiesFacts, NoZeroTTLKept DEF SerialInv
    <3>2. /\ pc = "down" /\ pc' = "idle" /\ mem' = store /\ current' = store
          /\ incs' \in {reconcile(jstore, serialOf(store)), << >>}
          /\ UNCHANGED <<store, jstore, replica>>
      BY <1>8, <2>2, <3>1 DEF Restart
    <3>3. Reached = Offset(serialOf(store)) /\ Reached' = Reached
      BY <3>2 DEF Reached
    <3>4. jstore \in Seq(Told(G, Reached))
      BY DEF Contents
    <3>5. /\ reconcile(jstore, serialOf(store)) \in Seq(Told(G, Reached))
          /\ << >> \in Seq(Told(G, Reached))
      BY <3>4, ReconcileChains, EmptySeq
    <3> QED
      BY <1>b, <3>2, <3>3, <3>5 DEF Contents
  <2> QED
    BY <2>1, <2>2
<1> QED
  BY <1>1, <1>2, <1>3, <1>4, <1>5, <1>6, <1>7, <1>8 DEF Next

(* A write to the store gives contents to a serial that no one has seen.   *)
LEMMA ContentsWritten ==
    ASSUME SerialInv, MaxCommits < Half, Level, SerialInv', Level', Persist,
           NEW G \in [Serials -> Generations], Contents(G)
    PROVE  \E H \in [Serials -> Generations] :
             Contents(H)' /\ \A t \in Serials : Offset(t) <= Reached => H[t] = G[t]
PROOF
<1> USE DEF handler, journal
<1>0. TypeInv /\ TypeInv'
  BY DEF SerialInv, ApexInv, UniqueInv
<1>1. hasSOA(work)
  BY <1>0, CopiesFacts DEF SerialInv, ApexInv, KeepsApex, Persist
<1>2. /\ pc = "apply" /\ pc' \in {"journal", "swap"}
      /\ UNCHANGED <<mem, current, incs, jstore, replica>>
  BY <1>1 DEF Persist
<1> DEFINE s == serialOf(store')
<1>3. store' \in Generations /\ s \in Serials
  <2>1. store' \in SUBSET RR /\ IsFiniteSet(store')
    BY <1>0 DEF TypeInv, TypeOK
  <2>2. NoTwins(store') /\ KeepsApex(store')
    BY DEF SerialInv, ApexInv, UniqueInv, Copies
  <2> QED
    BY <2>1, <2>2, SerialOfType DEF Generations
<1>4. s = NextSerial(serialOf(mem))
  BY <1>2 DEF SerialInv
<1>5. Reached = Offset(serialOf(mem)) /\ Offset(s) = Reached + 1
  <2>1. Offset(serialOf(mem)) < 2 * Half - 1
    BY <1>0, LevelFacts, HalfAssumption DEF Level
  <2> QED
    BY <1>0, <1>2, <1>4, <2>1, OffsetFacts, LevelFacts DEF Reached
<1>6. Reached \in Int /\ Reached' \in Int /\ Reached <= Reached'
  <2>1. Reached \in Int
    BY <1>0, LevelFacts
  <2>2. Reached' \in {Reached, Offset(s)}
    BY <1>2, <1>5 DEF Reached
  <2> QED
    BY <1>5, <2>1, <2>2
<1> HIDE DEF s
<1>7. PICK H \in [Serials -> Generations] : /\ H[s] = store'
                                         /\ \A t \in Serials : t # s => H[t] = G[t]
  <2> DEFINE W == [G EXCEPT ![s] = store']
  <2>1. /\ W \in [Serials -> Generations] /\ W[s] = store'
        /\ \A t \in Serials : t # s => W[t] = G[t]
    BY <1>3
  <2> HIDE DEF W
  <2> QED
    BY <2>1
<1>8. \A t \in Serials : Offset(t) <= Reached => H[t] = G[t]
  BY <1>5, <1>6, <1>7
<1>9. /\ Seen(G, Reached) \subseteq Seen(H, Reached')
      /\ Seq(Told(G, Reached)) \subseteq Seq(Told(H, Reached'))
  BY <1>6, <1>7, <1>8, SeenOn
<1>10. Contents(H)'
  BY <1>2, <1>7, <1>9 DEF Contents, s
<1> QED
  BY <1>7, <1>8, <1>10

LEMMA ReplicaStep ==
    ASSUME RequestsIn(ServerSerials), RequestsIn(BuildableUpdates)
    PROVE  ReplicaInv /\ [Next]_vars => ReplicaInv'
PROOF
<1> SUFFICES ASSUME ReplicaInv, [Next]_vars PROVE ReplicaInv'
  OBVIOUS
<1>1. SerialInv /\ JournalInv /\ MaxCommits < Half /\ Level
  BY DEF ReplicaInv
<1>2. SerialInv' /\ JournalInv' /\ Level'
  BY <1>1, SerialStep, JournalStep, LevelStep
<1>3. TypeInv'
  BY <1>2 DEF SerialInv, ApexInv, UniqueInv
<1>4. PICK G \in [Serials -> Generations] : Contents(G)
  BY DEF ReplicaInv
<1>5. CASE Persist
  <2>1. \E H \in [Serials -> Generations] : Contents(H)'
    BY <1>1, <1>2, <1>4, <1>5, ContentsWritten
  <2> QED
    BY <1>1, <1>2, <2>1 DEF ReplicaInv
<1>6. CASE ~Persist
  <2>1. Contents(G)'
    BY <1>1, <1>2, <1>3, <1>4, <1>6, ContentsStep
  <2> QED
    BY <1>1, <1>2, <1>4, <2>1 DEF ReplicaInv
<1> QED
  BY <1>5, <1>6

LEMMA ReplicaInit ==
    ASSUME KeepsApex(Seed), NoTwins(Seed), NoZeroTTL(Seed), Builds(Seed), MaxCommits < Half, Init
    PROVE  ReplicaInv
PROOF
<1>1. SerialInv
  <2>1. ApexInv
    BY ApexInit
  <2>2. todo \in Seq(ServerSerials)
    BY EmptySeq DEF Init
  <2> QED
    BY <2>1, <2>2 DEF SerialInv, Init, Copies
<1>2. JournalInv
  BY JournalInit DEF KeepsApex
<1>3. Level /\ Reached = 0
  BY OffsetFacts DEF Level, Init, Reached
<1> DEFINE G == [s \in Serials |-> Seed]
<1>4. G \in [Serials -> Generations] /\ G[serialOf(Seed)] = Seed
  <2>1. Seed \in Generations
    BY PrimaryAssumption DEF Generations
  <2> QED
    BY <2>1, OffsetFacts
<1>5. Seed \in Seen(G, 0)
  BY <1>4, PrimaryAssumption, OffsetFacts DEF Seen
<1>6. << >> \in Seq(Told(G, 0))
  BY EmptySeq
<1> HIDE DEF G
<1>7. Contents(G)
  BY <1>3, <1>4, <1>5, <1>6 DEF Contents, Init
<1> QED
  BY <1>1, <1>2, <1>3, <1>4, <1>7 DEF ReplicaInv

(* A secondary that has the serial of the primary's snapshot has its       *)
(* contents, whether it got there by increments, by a whole transfer or    *)
(* before a crash: for every history length, journal writes that fail and  *)
(* journals that were reconciled with a later store, a stream of increments *)
(* replays to exactly the generation it ends at (ixfrFrom, reconcile).     *)
THEOREM SecondariesExact ==
    ASSUME KeepsApex(Seed), NoTwins(Seed), NoZeroTTL(Seed), Builds(Seed), MaxCommits < Half,
           RequestsIn(ServerSerials), RequestsIn(BuildableUpdates)
    PROVE  Spec => []ReplicaExact
PROOF
<1>1. Init => ReplicaInv
  BY ReplicaInit
<1>2. ReplicaInv /\ [Next]_vars => ReplicaInv'
  BY ReplicaStep
<1>3. ReplicaInv => ReplicaExact
  <2> SUFFICES ASSUME ReplicaInv, replica # {}, serialOf(replica) = serialOf(current)
               PROVE  replica = current
    BY DEF ReplicaExact
  <2>1. PICK G \in [Serials -> Generations] : Contents(G)
    BY DEF ReplicaInv
  <2> QED
    BY <2>1 DEF Contents, Seen
<1> QED
  BY <1>1, <1>2, <1>3, PTL DEF Spec

(* Under the same conditions a secondary is never ahead of the store: what *)
(* it holds would survive a crash of the primary at any moment, and under  *)
(* the serial of the store it holds what the store does (a write comes     *)
(* before its journal entry, and one that got no entry was seen by no one).*)
THEOREM SecondariesNeverAhead ==
    ASSUME KeepsApex(Seed), NoTwins(Seed), NoZeroTTL(Seed), Builds(Seed), MaxCommits < Half,
           RequestsIn(ServerSerials), RequestsIn(BuildableUpdates)
    PROVE  Spec => []ReplicaNeverAhead
PROOF
<1>1. Init => ReplicaInv
  BY ReplicaInit
<1>2. ReplicaInv /\ [Next]_vars => ReplicaInv'
  BY ReplicaStep
<1>3. ReplicaInv => ReplicaNeverAhead
  <2> SUFFICES ASSUME ReplicaInv, replica # {}
               PROVE  /\ ~serialNewer(serialOf(replica), serialOf(store))
                      /\ serialOf(replica) = serialOf(store) => replica = ReadBack(store)
    BY DEF ReplicaNeverAhead
  <2>1. PICK G \in [Serials -> Generations] : Contents(G)
    BY DEF ReplicaInv
  <2>2. TypeInv /\ SerialInv /\ Level /\ MaxCommits < Half
    BY DEF ReplicaInv, SerialInv, ApexInv, UniqueInv
  <2>3. ReadBack(store) = store
    BY <2>2, CopiesFacts, NoZeroTTLKept DEF SerialInv
  <2>4. Offset(serialOf(replica)) <= Reached /\ G[serialOf(replica)] = replica
        /\ G[serialOf(store)] = store
    BY <2>1 DEF Contents, Seen
  <2>5. serialOf(replica) \in Serials /\ serialOf(store) \in Serials
    BY <2>2, TypeInvFacts, SerialOfType
  <2>6. /\ Offset(serialOf(replica)) <= Offset(serialOf(store))
        /\ Offset(serialOf(store)) < Half
    BY <2>2, <2>4, <2>5, LevelFacts, OffsetFacts
  <2> QED
    BY <2>3, <2>4, <2>5, <2>6, OffsetFacts
<1> QED
  BY <1>1, <1>2, <1>3, PTL DEF Spec

-----------------------------------------------------------------------------
(* Replacing the name servers over HTTP.  A property of a whole update     *)
(* section: the proof follows the zone through it, record by record, and   *)
(* looks at the first record after which the name servers are not where    *)
(* they should be.                                                         *)

(* The generations on the way through an update section exist, and Apply   *)
(* is the last of them.                                                    *)
Stages(z, us, n, T) == T = [i \in 0 .. n |-> IF i = 0 THEN z ELSE ApplyRR(T[i-1], us[i])]

LEMMA StagesExist ==
    ASSUME NEW z, NEW us, NEW n \in Nat
    PROVE  \E T : Stages(z, us, n, T)
PROOF
<1> DEFINE Without == {m \in Nat : ~ \E T : Stages(z, us, m, T)}
<1>1. Without \in SUBSET Nat
  OBVIOUS
<1>2. ASSUME Without # {} PROVE FALSE
  <2>1. PICK m \in Without : \A k \in Without : m <= k
    <3> HIDE DEF Without
    <3> QED
      BY <1>1, <1>2, LeastNatural
  <2>2. CASE m = 0
    <3> DEFINE T == [i \in 0 .. 0 |-> z]
    <3>1. T = [i \in 0 .. 0 |-> IF i = 0 THEN z ELSE ApplyRR(T[i-1], us[i])]
      OBVIOUS
    <3> HIDE DEF T
    <3>2. Stages(z, us, m, T)
      BY <2>2, <3>1 DEF Stages
    <3> QED
      BY <3>2
  <2>3. CASE m # 0
    <3>1. m \in Nat /\ m - 1 \in Nat /\ m - 1 \notin Without
      BY <2>1, <2>3
    <3>2. PICK T : Stages(z, us, m - 1, T)
      BY <3>1
    <3>3. \A i \in 0 .. (m - 1) : T[i] = IF i = 0 THEN z ELSE ApplyRR(T[i-1], us[i])
      BY <3>2 DEF Stages
    <3> DEFINE U == [i \in 0 .. m |-> IF i = m THEN ApplyRR(T[m - 1], us[m]) ELSE T[i]]
    <3>4. \A i \in 0 .. m : U[i] = IF i = 0 THEN z ELSE ApplyRR(U[i-1], us[i])
      <4> SUFFICES ASSUME NEW i \in 0 .. m
                   PROVE  U[i] = IF i = 0 THEN z ELSE ApplyRR(U[i-1], us[i])
        OBVIOUS
      <4>1. CASE i = m
        <5>1. m - 1 \in 0 .. m /\ m - 1 # m
          BY <3>1
        <5> QED
          BY <2>3, <4>1, <5>1
      <4>2. CASE i # m
        <5>1. i \in 0 .. (m - 1) /\ (i # 0 => i - 1 \in 0 .. m /\ i - 1 # m)
          BY <3>1, <4>2
        <5> QED
          BY <3>3, <4>2, <5>1
      <4> QED
        BY <4>1, <4>2
    <3>5. U = [i \in 0 .. m |-> IF i = 0 THEN z ELSE ApplyRR(U[i-1], us[i])]
      <4>1. U = [i \in 0 .. m |-> U[i]]
        OBVIOUS
      <4> HIDE DEF U
      <4> QED
        BY <3>4, <4>1
    <3> HIDE DEF U
    <3>6. Stages(z, us, m, U)
      BY <3>5 DEF Stages
    <3> QED
      BY <3>6
  <2> QED
    BY <2>2, <2>3
<1> QED
  BY <1>2

Leads(z, us, T) ==
    /\ T[0] = z
    /\ \A i \in 1 .. Len(us) : T[i] = ApplyRR(T[i-1], us[i])
    /\ Apply(z, us) = T[Len(us)]

LEMMA ApplyStages ==
    ASSUME NEW z, NEW us, Len(us) \in Nat
    PROVE  \E T : Leads(z, us, T)
PROOF
<1> DEFINE n == Len(us)
           T == CHOOSE f : Stages(z, us, n, f)
<1>1. Stages(z, us, n, T)
  BY StagesExist
<1>2. T[0] = z /\ \A i \in 1 .. n : T[i] = ApplyRR(T[i-1], us[i])
  <2>1. n \in Nat
    OBVIOUS
  <2> HIDE DEF T, n
  <2>2. \A i \in 0 .. n : T[i] = IF i = 0 THEN z ELSE ApplyRR(T[i-1], us[i])
    BY <1>1 DEF Stages
  <2> QED
    BY <2>1, <2>2
<1>3. Apply(z, us) = T[n]
  BY DEF Apply, Stages
<1> HIDE DEF T
<1>4. Leads(z, us, T)
  BY <1>2, <1>3 DEF Leads
<1> QED
  BY <1>4

(* Does the apex have a name server of that data?                          *)
Lists(z, d) == \E ns \in z : ns.name = Apex /\ ns.type = "NS" /\ ns.data = d

(* What makes name servers at the apex safe to add and to delete.          *)
NSReady(z) ==
    /\ OneSOA(z) /\ NoTwins(z) /\ HasApexNS(z) /\ ~hasCNAME(z, Apex)
    /\ IsFiniteSet(z)

LEMMA ApplyReady ==
    ASSUME NEW z, NSReady(z), NEW u
    PROVE  NSReady(ApplyRR(z, u))
PROOF
<1>1. OneSOA(ApplyRR(z, u)) /\ NoTwins(ApplyRR(z, u)) /\ HasApexNS(ApplyRR(z, u))
  BY ApplyOneSOA, ApplyNoTwins, ApplyKeepsNS DEF NSReady
<1>2. ApplyRR(z, u) \subseteq z \cup {AsRR(u)}
  BY ApplyRecords
<1>3. IsFiniteSet(ApplyRR(z, u))
  <2>1. IsFiniteSet(z \cup {AsRR(u)})
    BY FS_AddElement DEF NSReady
  <2> QED
    BY <1>2, <2>1, FS_Subset
<1>4. ~hasCNAME(ApplyRR(z, u), Apex)
  <2>1. CASE u.class = "IN" /\ u.type = "CNAME" /\ u.name = Apex
    <3>1. hasNonCNAME(z, Apex)
      BY DEF NSReady, HasApexNS, rrsetOf, hasNonCNAME
    <3>2. ApplyRR(z, u) = z
      BY <2>1, <3>1 DEF ApplyRR, AddRR
    <3> QED
      BY <3>2 DEF NSReady
  <2>2. CASE ~(u.class = "IN" /\ u.type = "CNAME" /\ u.name = Apex)
    <3>1. \A rr \in ApplyRR(z, u) : rr \in z \/ ~(rr.type = "CNAME" /\ rr.name = Apex)
      BY <2>2, ApplyRecords DEF AsRR
    <3> QED
      BY <3>1 DEF NSReady, hasCNAME, rrsetOf
  <2> QED
    BY <2>1, <2>2
<1> QED
  BY <1>1, <1>3, <1>4 DEF NSReady

(* What a record of an update does to the name servers of the apex.        *)
LEMMA ApplyLists ==
    ASSUME NEW z, NSReady(z), NEW u
    PROVE  /\ ~(u.class = "IN" /\ u.name = Apex /\ u.type = "NS") =>
                  \A d : Lists(ApplyRR(z, u), d) => Lists(z, d)
           /\ u.class = "IN" /\ u.name = Apex /\ u.type = "NS" =>
                  \A d : Lists(ApplyRR(z, u), d) <=> Lists(z, d) \/ d = u.data
           /\ /\ u.class = "NONE" /\ u.name = Apex /\ u.type = "NS"
              /\ \E e : e # u.data /\ Lists(z, e)
              => \A d : Lists(ApplyRR(z, u), d) <=> Lists(z, d) /\ d # u.data
PROOF
<1>1. ASSUME ~(u.class = "IN" /\ u.name = Apex /\ u.type = "NS"), NEW d,
             Lists(ApplyRR(z, u), d)
      PROVE  Lists(z, d)
  <2>1. \A rr \in ApplyRR(z, u) : rr \in z \/ ~(rr.name = Apex /\ rr.type = "NS")
    BY <1>1, ApplyRecords DEF AsRR
  <2> QED
    BY <1>1, <2>1 DEF Lists
<1>2. ASSUME u.class = "IN", u.name = Apex, u.type = "NS", NEW d
      PROVE  Lists(ApplyRR(z, u), d) <=> Lists(z, d) \/ d = u.data
  <2>1. ApplyRR(z, u) = (z \ matching(z, u)) \cup {AsRR(u)}
    BY <1>2 DEF ApplyRR, AddRR, NSReady
  <2>2. AsRR(u).name = Apex /\ AsRR(u).type = "NS" /\ AsRR(u).data = u.data
    BY <1>2 DEF AsRR
  <2>3. \A rr \in matching(z, u) : rr.data = u.data
    BY DEF matching, sameRR
  <2> QED
    BY <2>1, <2>2, <2>3 DEF Lists
<1>3. ASSUME u.class = "NONE", u.name = Apex, u.type = "NS",
             NEW e, e # u.data, Lists(z, e), NEW d
      PROVE  Lists(ApplyRR(z, u), d) <=> Lists(z, d) /\ d # u.data
  <2> DEFINE set == rrsetOf(z, Apex, "NS")
  <2>1. \A rr \in matching(z, u) : rr.data = u.data
    BY DEF matching, sameRR
  <2>2. \A rr \in z : rr.name = Apex /\ rr.type = "NS" /\ rr.data = u.data => rr \in matching(z, u)
    BY <1>3 DEF matching, sameRR
  <2>3. CASE Lists(z, u.data)
    <3>1. PICK x \in set, y \in set : x # y
      BY <1>3, <2>3 DEF Lists, rrsetOf
    <3>2. IsFiniteSet(set)
      BY FS_Subset DEF NSReady, rrsetOf
    <3>3. Cardinality(set) \in Nat
      BY <3>2, FS_CardinalityType
    <3>4. Cardinality(set) # 0 /\ Cardinality(set) # 1
      BY <3>1, <3>2, FS_EmptySet, FS_Singleton
    <3>5. ApplyRR(z, u) = z \ matching(z, u)
      BY <1>3, <3>3, <3>4 DEF ApplyRR, DeleteRR
    <3> QED
      BY <2>1, <2>2, <3>5 DEF Lists
  <2>4. CASE ~Lists(z, u.data)
    <3>1. matching(z, u) = {}
      BY <1>3, <2>4 DEF Lists, matching, sameRR
    <3>2. ApplyRR(z, u) = z
      BY <1>3, <3>1 DEF ApplyRR, DeleteRR
    <3> QED
      BY <2>4, <3>2
  <2> QED
    BY <2>3, <2>4
<1> QED
  BY <1>1, <1>2, <1>3

(* The section a replacement of the name servers is rewritten into: first  *)
(* a records that add no name server to the apex, then the new ones, then  *)
(* a delete of each old one that is not among them.                        *)
Replaces(z, q, us, a, dels) ==
    LET b == Len(q.nss)
        c == Len(dels)
    IN  /\ b \in Nat /\ c \in Nat /\ Len(us) = a + b + c
        /\ \A i \in 1 .. a : ~(us[i].class = "IN" /\ us[i].name = Apex /\ us[i].type = "NS")
        /\ \A i \in 1 .. b : us[a + i] = q.nss[i]
        /\ \A i \in 1 .. c : us[a + b + i] = dels[i] /\ dels[i] \in wipedNS(z, q)
        /\ \A u \in wipedNS(z, q) : \E i \in 1 .. c : u = dels[i]

LEMMA ReplacementSection ==
    ASSUME NEW z, IsFiniteSet(z), NEW q \in HttpRequest, q.wipeNS,
           NEW us \in httpUpdates(z, q)
    PROVE  \E a \in Nat : \E dels : Replaces(z, q, us, a, dels)
PROOF
<1> DEFINE soas  == [i \in DOMAIN q.soas |-> RaiseSerial(z, q.soas[i])]
           wiped == wipedNS(z, q)
           Quiet == Deletes \cup Adds \cup {RaiseSerial(z, u) : u \in AddOf("SOA")}
<1>1. PICK dels \in [1 .. Cardinality(wiped) -> wiped] :
          /\ us = q.early \o q.others \o soas \o q.nss \o dels
          /\ \A i, j \in DOMAIN dels : i # j => dels[i] # dels[j]
  BY DEF httpUpdates
<1>2. IsFiniteSet(wiped) /\ Cardinality(wiped) \in Nat
  <2> DEFINE gone == {ns \in rrsetOf(z, Apex, "NS") : \A i \in DOMAIN q.nss : ~sameRR(ns, q.nss[i])}
             del  == [rr \in gone |-> [class |-> "NONE", name |-> rr.name, type |-> rr.type,
                                       data |-> rr.data, ttl |-> 0]]
  <2>1. wiped = {del[rr] : rr \in gone}
    BY DEF wipedNS
  <2>2. gone \subseteq z
    BY DEF rrsetOf
  <2>3. IsFiniteSet(gone)
    BY <2>2, FS_Subset
  <2>4. del \in Surjection(gone, {del[rr] : rr \in gone})
    BY DEF Surjection
  <2>5. IsFiniteSet({del[rr] : rr \in gone})
    BY <2>3, <2>4, FS_Surjection
  <2> QED
    BY <2>1, <2>5, FS_CardinalityType
<1>3. /\ dels \in Seq(wiped) /\ Len(dels) = Cardinality(wiped)
      /\ \A i \in 1 .. Len(dels) : dels[i] \in wiped
  <2>1. dels \in Seq(wiped)
    BY <1>2, SeqDef
  <2> HIDE DEF wiped
  <2>2. Len(dels) = Cardinality(wiped)
    BY <1>2, <2>1, LenProperties
  <2> QED
    BY <2>1, <2>2
<1>4. ASSUME NEW u \in wiped PROVE \E i \in 1 .. Len(dels) : u = dels[i]
  <2> DEFINE n == Cardinality(wiped)
  <2>1. dels \in Injection(1 .. n, wiped)
    BY <1>1 DEF Injection, IsInjective
  <2>2. IsFiniteSet(1 .. n) /\ Cardinality(1 .. n) = n
    BY <1>2, FS_Interval
  <2>3. dels \in Surjection(1 .. n, wiped)
    <3> HIDE DEF n, wiped
    <3> QED
      BY <1>2, <2>1, <2>2, FS_Injection DEF n
  <2> QED
    BY <1>3, <2>3 DEF Surjection
<1>5. /\ q.early \in Seq(Quiet) /\ q.others \in Seq(Quiet) /\ soas \in Seq(Quiet)
      /\ q.nss \in Seq(AddOf("NS"))
  <2>1. q.early \in Seq(Deletes) /\ q.others \in Seq(Adds) /\ q.nss \in Seq(AddOf("NS"))
        /\ q.soas \in Seq(AddOf("SOA"))
    BY DEF HttpRequest
  <2>2. Deletes \subseteq Quiet /\ Adds \subseteq Quiet
    OBVIOUS
  <2>3. Len(q.soas) \in Nat /\ DOMAIN q.soas = 1 .. Len(q.soas)
        /\ \A i \in DOMAIN q.soas : q.soas[i] \in AddOf("SOA")
    BY <2>1, LenProperties, ElementOfSeq
  <2>4. \A i \in DOMAIN q.soas : RaiseSerial(z, q.soas[i]) \in Quiet
    BY <2>3
  <2> HIDE DEF Quiet
  <2>5. soas \in Seq(Quiet)
    BY <2>3, <2>4, SeqDef
  <2> QED
    BY <2>1, <2>2, <2>5, SeqMonotonic
<1>6. ASSUME NEW u \in Quiet PROVE ~(u.class = "IN" /\ u.name = Apex /\ u.type = "NS")
  <2>1. CASE u \in Deletes
    BY <2>1 DEF Deletes
  <2>2. CASE u \in Adds
    BY <2>2 DEF Adds, AddOf
  <2>3. ASSUME NEW v \in AddOf("SOA"), u = RaiseSerial(z, v) PROVE u.type = "SOA"
    <3>1. v \in [class : {"IN", "NONE"}, name : Names \cup Outside,
                 type : {"SOA"}, data : Serials, ttl : TTLs]
      BY DEF AddOf, UpdateRR, MetaTypes, Classes
    <3> QED
      BY <2>3, <3>1 DEF RaiseSerial
  <2> QED
    BY <2>1, <2>2, <2>3
<1> DEFINE front == q.early \o q.others \o soas
           a     == Len(front)
           b     == Len(q.nss)
           c     == Len(dels)
           All   == Quiet \cup AddOf("NS") \cup wiped
<1>7. front \in Seq(Quiet)
  <2> HIDE DEF Quiet, soas
  <2> QED
    BY <1>5, ConcatProperties
<1>8. us = (front \o q.nss) \o dels
  BY <1>1
<1>9. front \in Seq(All) /\ q.nss \in Seq(All) /\ dels \in Seq(All)
  <2>1. Quiet \subseteq All /\ AddOf("NS") \subseteq All /\ wiped \subseteq All
    OBVIOUS
  <2> HIDE DEF All, Quiet, front, wiped
  <2> QED
    BY <1>3, <1>5, <1>7, <2>1, SeqMonotonic
<1> HIDE DEF front, All, Quiet, wiped, soas
<1>10. a \in Nat /\ b \in Nat /\ c \in Nat
  BY <1>9, LenProperties
<1>11. /\ front \o q.nss \in Seq(All) /\ Len(front \o q.nss) = a + b
       /\ \A i \in 1 .. a + b : (front \o q.nss)[i] = IF i <= a THEN front[i] ELSE q.nss[i - a]
  BY <1>9, ConcatProperties
<1>12. /\ Len(us) = (a + b) + c
       /\ \A i \in 1 .. (a + b) + c : us[i] = IF i <= a + b THEN (front \o q.nss)[i] ELSE dels[i - (a + b)]
  <2> DEFINE x == front \o q.nss
  <2>1. x \in Seq(All) /\ Len(x) = a + b
    BY <1>11
  <2> HIDE DEF x
  <2>2. /\ Len(x \o dels) = Len(x) + Len(dels)
        /\ \A i \in 1 .. Len(x) + Len(dels) : (x \o dels)[i] = IF i <= Len(x) THEN x[i] ELSE dels[i - Len(x)]
    BY <1>9, <2>1, ConcatProperties
  <2> QED
    BY <1>8, <2>1, <2>2 DEF x
<1> HIDE DEF a, b, c
<1>13. \A i \in 1 .. a : us[i] = front[i] /\ front[i] \in Quiet
  <2>1. \A i \in 1 .. a : front[i] \in Quiet
    BY <1>7, ElementOfSeq DEF a
  <2>2. \A i \in 1 .. a : i \in 1 .. a + b /\ i \in 1 .. (a + b) + c /\ i <= a + b /\ i <= a
    BY <1>10
  <2> QED
    BY <1>11, <1>12, <2>1, <2>2
<1>14. \A i \in 1 .. b : us[a + i] = q.nss[i]
  <2>1. \A i \in 1 .. b : /\ a + i \in 1 .. a + b /\ a + i \in 1 .. (a + b) + c
                          /\ a + i <= a + b /\ ~(a + i <= a) /\ (a + i) - a = i
    BY <1>10
  <2> QED
    BY <1>11, <1>12, <2>1
<1>15. \A i \in 1 .. c : us[a + b + i] = dels[i] /\ dels[i] \in wiped
  <2>1. \A i \in 1 .. c : /\ a + b + i \in 1 .. (a + b) + c /\ ~(a + b + i <= a + b)
                          /\ (a + b + i) - (a + b) = i
    BY <1>10
  <2> QED
    BY <1>3, <1>12, <2>1 DEF c
<1>16. a + b + c = (a + b) + c
  BY <1>10
<1>17. Replaces(z, q, us, a, dels)
  BY <1>4, <1>6, <1>10, <1>12, <1>13, <1>14, <1>15, <1>16 DEF Replaces, b, c, wiped
<1> QED
  BY <1>10, <1>17

(* Where the name servers are after i records of such a section.           *)
Replacing(z, q, a, dels, i, y) ==
    LET b == Len(q.nss)
    IN  /\ NSReady(y)
        /\ \A d : Lists(y, d) => Lists(z, d) \/ \E k \in 1 .. b : d = q.nss[k].data
        /\ \A k \in 1 .. b : k <= i - a => Lists(y, q.nss[k].data)
        /\ \A k \in 1 .. Len(dels) : k <= i - a - b => ~Lists(y, dels[k].data)

LEMMA ReplacingStep ==
    ASSUME NEW z, NEW q \in HttpRequest, q.nss # << >>, NEW us, NEW a \in Nat, NEW dels,
           Replaces(z, q, us, a, dels),
           NEW i \in 1 .. Len(us), NEW y, Replacing(z, q, a, dels, i - 1, y)
    PROVE  Replacing(z, q, a, dels, i, ApplyRR(y, us[i]))
PROOF
<1> DEFINE b == Len(q.nss)
           c == Len(dels)
           x == ApplyRR(y, us[i])
<1>1. /\ b \in Nat /\ c \in Nat /\ Len(us) = a + b + c
      /\ \A j \in 1 .. a : ~(us[j].class = "IN" /\ us[j].name = Apex /\ us[j].type = "NS")
      /\ \A j \in 1 .. b : us[a + j] = q.nss[j]
      /\ \A j \in 1 .. c : us[a + b + j] = dels[j] /\ dels[j] \in wipedNS(z, q)
  BY DEF Replaces
<1>2. /\ NSReady(y)
      /\ \A d : Lists(y, d) => Lists(z, d) \/ \E k \in 1 .. b : d = q.nss[k].data
      /\ \A k \in 1 .. b : k <= (i - 1) - a => Lists(y, q.nss[k].data)
      /\ \A k \in 1 .. c : k <= (i - 1) - a - b => ~Lists(y, dels[k].data)
  BY DEF Replacing
<1>3. /\ q.nss \in Seq(AddOf("NS"))
      /\ \A k \in 1 .. b : q.nss[k].class = "IN" /\ q.nss[k].name = Apex /\ q.nss[k].type = "NS"
  <2>1. q.nss \in Seq(AddOf("NS"))
    BY DEF HttpRequest
  <2>2. \A k \in 1 .. b : q.nss[k] \in AddOf("NS")
    BY <2>1, ElementOfSeq
  <2> QED
    BY <2>1, <2>2 DEF AddOf
<1>4. b >= 1
  BY <1>1, <1>3, EmptySeq
<1>5. \A k \in 1 .. c : /\ dels[k].class = "NONE" /\ dels[k].name = Apex /\ dels[k].type = "NS"
                        /\ \A j \in 1 .. b : dels[k].data # q.nss[j].data
  <2>1. DOMAIN q.nss = 1 .. b
    BY <1>3, LenProperties
  <2> SUFFICES ASSUME NEW u \in wipedNS(z, q)
               PROVE  /\ u.class = "NONE" /\ u.name = Apex /\ u.type = "NS"
                      /\ \A j \in 1 .. b : u.data # q.nss[j].data
    BY <1>1
  <2>2. PICK rr \in rrsetOf(z, Apex, "NS") :
            /\ \A j \in DOMAIN q.nss : ~sameRR(rr, q.nss[j])
            /\ u = [class |-> "NONE", name |-> rr.name, type |-> rr.type, data |-> rr.data, ttl |-> 0]
    BY DEF wipedNS
  <2> QED
    BY <1>3, <2>1, <2>2 DEF rrsetOf, sameRR
<1>6. NSReady(x)
  BY <1>2, ApplyReady
<1> HIDE DEF b, c, x
<1>7. CASE i <= a
  <2>1. \A d : Lists(x, d) => Lists(y, d)
    BY <1>1, <1>2, <1>7, ApplyLists DEF x
  <2>2. /\ \A k \in 1 .. b : ~(k <= i - a)
        /\ \A k \in 1 .. c : ~(k <= i - a - b)
    BY <1>1, <1>7
  <2> QED
    BY <1>2, <1>6, <2>1, <2>2 DEF Replacing, b, c, x
<1>8. CASE i > a /\ i <= a + b
  <2> DEFINE j == i - a
  <2>1. j \in 1 .. b /\ us[i] = q.nss[j]
    <3>1. j \in 1 .. b /\ a + j = i
      BY <1>1, <1>8
    <3> QED
      BY <1>1, <3>1
  <2>2. \A d : Lists(x, d) <=> Lists(y, d) \/ d = q.nss[j].data
    BY <1>2, <1>3, <2>1, ApplyLists DEF x
  <2>3. \A k \in 1 .. b : k <= i - a => k <= (i - 1) - a \/ k = j
    BY <1>1
  <2>4. \A k \in 1 .. c : ~(k <= i - a - b)
    BY <1>1, <1>8
  <2> HIDE DEF j
  <2>5. \A d : Lists(x, d) => Lists(z, d) \/ \E k \in 1 .. b : d = q.nss[k].data
    BY <1>2, <2>1, <2>2
  <2>6. \A k \in 1 .. b : k <= i - a => Lists(x, q.nss[k].data)
    BY <1>2, <2>2, <2>3
  <2> QED
    BY <1>6, <2>4, <2>5, <2>6 DEF Replacing, b, c, x
<1>9. CASE i > a + b
  <2> DEFINE j == i - a - b
  <2>1. j \in 1 .. c /\ us[i] = dels[j]
    <3>1. j \in 1 .. c /\ a + b + j = i
      BY <1>1, <1>9
    <3> QED
      BY <1>1, <3>1
  <2>2. Lists(y, q.nss[1].data) /\ 1 \in 1 .. b
    BY <1>1, <1>2, <1>4, <1>9
  <2>3. \A d : Lists(x, d) <=> Lists(y, d) /\ d # dels[j].data
    BY <1>2, <1>5, <2>1, <2>2, ApplyLists DEF x
  <2>4. \A k \in 1 .. c : k <= i - a - b => k <= (i - 1) - a - b \/ k = j
    BY <1>1
  <2>5. \A k \in 1 .. b : k <= (i - 1) - a
    BY <1>1, <1>9
  <2> HIDE DEF j
  <2>6. \A d : Lists(x, d) => Lists(z, d) \/ \E k \in 1 .. b : d = q.nss[k].data
    BY <1>2, <2>3
  <2>7. \A k \in 1 .. b : Lists(x, q.nss[k].data)
    BY <1>2, <1>5, <2>1, <2>3, <2>5
  <2>8. \A k \in 1 .. c : k <= i - a - b => ~Lists(x, dels[k].data)
    BY <1>2, <2>3, <2>4
  <2> QED
    BY <1>6, <2>6, <2>7, <2>8 DEF Replacing, b, c, x
<1> QED
  BY <1>1, <1>7, <1>8, <1>9

(* A replacement leaves the new name servers, whatever comes before them   *)
(* in the section and in whatever order the old ones are deleted.          *)
LEMMA ReplacementNS ==
    ASSUME NEW z, NSReady(z), NEW q \in HttpRequest, q.wipeNS, ~httpRefused(z, q),
           NEW us \in httpUpdates(z, q)
    PROVE  {ns.data : ns \in rrsetOf(Apply(z, us), Apex, "NS")}
               = {q.nss[i].data : i \in DOMAIN q.nss}
PROOF
<1> DEFINE b == Len(q.nss)
<1>0. q.nss # << >> /\ DOMAIN q.nss = 1 .. b /\ IsFiniteSet(z)
  BY LenProperties DEF httpRefused, HttpRequest, NSReady
<1>1. PICK a \in Nat : \E dels : Replaces(z, q, us, a, dels)
  BY <1>0, ReplacementSection
<1>2. PICK dels : Replaces(z, q, us, a, dels)
  BY <1>1
<1> DEFINE c == Len(dels)
           n == Len(us)
<1>3. b \in Nat /\ c \in Nat /\ n = a + b + c /\ n \in Nat
  BY <1>2 DEF Replaces
<1>t. PICK T : Leads(z, us, T)
  BY <1>3, ApplyStages
<1>4. /\ T[0] = z
      /\ \A i \in 1 .. n : T[i] = ApplyRR(T[i-1], us[i])
      /\ Apply(z, us) = T[n]
  BY <1>t DEF Leads
<1> HIDE DEF b, c, n
<1> DEFINE Wrong == {i \in 0 .. n : ~Replacing(z, q, a, dels, i, T[i])}
<1>5. ASSUME Wrong # {} PROVE FALSE
  <2>1. Wrong \in SUBSET Nat
    BY <1>3
  <2>2. PICK i \in Wrong : \A k \in Wrong : i <= k
    <3> HIDE DEF Wrong
    <3> QED
      BY <1>5, <2>1, LeastNatural
  <2>3. CASE i = 0
    <3>1. \A k \in 1 .. b : ~(k <= 0 - a)
      BY <1>3
    <3>2. \A k \in 1 .. c : ~(k <= 0 - a - b)
      BY <1>3
    <3>3. Replacing(z, q, a, dels, 0, z)
      BY <3>1, <3>2 DEF Replacing, b, c
    <3> QED
      BY <1>4, <2>3, <3>3
  <2>4. CASE i # 0
    <3>1. i \in 1 .. n /\ i - 1 \in 0 .. n /\ i - 1 \notin Wrong
      BY <1>3, <2>2, <2>4
    <3>2. Replacing(z, q, a, dels, i - 1, T[i - 1])
      BY <3>1
    <3>3. Replacing(z, q, a, dels, i, ApplyRR(T[i - 1], us[i]))
      BY <1>0, <1>2, <3>1, <3>2, ReplacingStep DEF n
    <3> QED
      BY <1>4, <3>1, <3>3
  <2> QED
    BY <2>3, <2>4
<1> DEFINE y == T[n]
<1>6. Replacing(z, q, a, dels, n, y)
  BY <1>3, <1>5
<1> HIDE DEF y, Wrong
<1>7. /\ \A d : Lists(y, d) => Lists(z, d) \/ \E k \in 1 .. b : d = q.nss[k].data
      /\ \A k \in 1 .. b : Lists(y, q.nss[k].data)
      /\ \A k \in 1 .. c : ~Lists(y, dels[k].data)
  <2>1. /\ \A k \in 1 .. b : k <= n - a
        /\ \A k \in 1 .. c : k <= n - a - b
    BY <1>3
  <2> QED
    BY <1>6, <2>1 DEF Replacing, b, c
<1>8. ASSUME NEW d, Lists(z, d), \A k \in 1 .. b : d # q.nss[k].data
      PROVE  ~Lists(y, d)
  <2>1. PICK ns \in z : ns.name = Apex /\ ns.type = "NS" /\ ns.data = d
    BY <1>8 DEF Lists
  <2> DEFINE u == [class |-> "NONE", name |-> ns.name, type |-> ns.type, data |-> ns.data, ttl |-> 0]
  <2>2. ns \in rrsetOf(z, Apex, "NS") /\ \A k \in DOMAIN q.nss : ~sameRR(ns, q.nss[k])
    BY <1>0, <1>8, <2>1 DEF rrsetOf, sameRR
  <2>3. u \in wipedNS(z, q)
    BY <2>2 DEF wipedNS
  <2>4. PICK k \in 1 .. c : u = dels[k]
    <3> HIDE DEF u
    <3> QED
      BY <1>2, <2>3 DEF Replaces, c
  <2>5. dels[k].data = d
    BY <2>1, <2>4
  <2> QED
    BY <1>7, <2>4, <2>5
<1>9. \A d : Lists(y, d) <=> \E k \in 1 .. b : d = q.nss[k].data
  BY <1>7, <1>8
<1>10. \A d : d \in {ns.data : ns \in rrsetOf(y, Apex, "NS")} <=> Lists(y, d)
  BY DEF rrsetOf, Lists
<1>11. Apply(z, us) = y
  BY <1>4 DEF y
<1>12. \A d : d \in {q.nss[i].data : i \in DOMAIN q.nss} <=> \E k \in 1 .. b : d = q.nss[k].data
  BY <1>0
<1>13. {ns.data : ns \in rrsetOf(y, Apex, "NS")} = {q.nss[i].data : i \in DOMAIN q.nss}
  BY <1>9, <1>10, <1>12, Zenon
<1> QED
  BY <1>11, <1>13

ReadyInv == NSInv /\ \A z \in Copies : ~hasCNAME(z, Apex)

LEMMA ReadyStep == ReadyInv /\ [Next]_vars => ReadyInv'
PROOF
<1> SUFFICES ASSUME ReadyInv, [Next]_vars PROVE ReadyInv'
  OBVIOUS
<1>1. TypeInv /\ UniqueInv /\ NSInv
  BY DEF ReadyInv, NSInv, UniqueInv
<1>2. NSInv'
  BY <1>1, NSStep
<1>3. \A z \in Copies : NSReady(z)
  BY <1>1, CopiesFacts DEF ReadyInv, NSInv, UniqueInv, NSReady
<1>4. ASSUME NEW z \in Copies' PROVE ~hasCNAME(z, Apex)
  <2>1. CASE z \in Copies
    BY <2>1 DEF ReadyInv
  <2>2. CASE pc = "apply" /\ todo # << >> /\ z = ApplyRR(work, Head(todo))
    BY <1>1, <1>3, <2>2, CopiesFacts, ApplyReady DEF NSReady
  <2>3. CASE pc = "apply" /\ z = bumpSerial(work)
    BY <1>1, <2>3, CopiesFacts, BumpedFields DEF ReadyInv, hasCNAME, rrsetOf
  <2>4. CASE z = ReadBack(store)
    BY <1>1, <2>4, CopiesFacts, ReadBackFields DEF ReadyInv, hasCNAME, rrsetOf, sameRR
  <2> QED
    BY <1>1, <1>4, <2>1, <2>2, <2>3, <2>4, CopiesStep
<1> QED
  BY <1>2, <1>4 DEF ReadyInv

(* From a zone with one SOA, a name server and no CNAME at its apex, and   *)
(* whatever requests came before, an HTTP replacement of the apex NS set   *)
(* leaves exactly the new set, in whatever order the old ones are deleted  *)
(* and whatever else the request does (httpUpdatesLocked adds before it    *)
(* deletes, so the last name server is never the one to go).               *)
THEOREM ReplacementComplete ==
    ASSUME OneSOA(Seed), NoTwins(Seed), HasApexNS(Seed), ~hasCNAME(Seed, Apex)
    PROVE  Spec => []HttpReplacesNS
PROOF
<1>1. Init => ReadyInv
  BY UniqueInit DEF ReadyInv, NSInv, Init, Copies
<1>2. ReadyInv => HttpReplacesNS
  <2> SUFFICES ASSUME ReadyInv, NEW q \in HttpRequests, q.wipeNS, ~httpRefused(mem, q),
                      NEW us \in httpUpdates(mem, q)
               PROVE  {ns.data : ns \in rrsetOf(Apply(mem, us), Apex, "NS")}
                          = {q.nss[i].data : i \in DOMAIN q.nss}
    BY DEF HttpReplacesNS
  <2>1. NSReady(mem)
    BY CopiesFacts DEF ReadyInv, NSInv, UniqueInv, NSReady
  <2>2. q \in HttpRequest
    BY PrimaryAssumption
  <2> QED
    BY <2>1, <2>2, ReplacementNS
<1> QED
  BY <1>1, <1>2, ReadyStep, PTL DEF Spec

=============================================================================
