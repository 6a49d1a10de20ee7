----------------------------- MODULE ZoneLemmas -----------------------------
(***************************************************************************)
(* Facts about the operators of SerialArithmetic, ZoneUpdate and           *)
(* IxfrJournal that the proofs about UpdatePersist rest on.                *)
(***************************************************************************)
EXTENDS IxfrJournal, FiniteSetTheorems, WellFoundedInduction, SequenceTheorems, TLAPS

-----------------------------------------------------------------------------
(* Least and greatest elements, which the code's searches stop at.         *)

(* A non-empty set of naturals has a least element.                        *)
LEMMA LeastNatural ==
    ASSUME NEW T \in SUBSET Nat, T # {}
    PROVE  \E m \in T : \A k \in T : m <= k
PROOF
<1>1. PICK m \in T : \A k \in T : ~ (<<k, m>> \in OpToRel(<, Nat))
  BY NatLessThanWellFounded, WFMin
<1>2. \A k \in T : ~ (k < m)
  BY <1>1 DEF OpToRel
<1> QED
  BY <1>2

(* A non-empty set of naturals with a bound has a greatest element.        *)
LEMMA GreatestNatural ==
    ASSUME NEW n \in Nat, NEW T \in SUBSET (0 .. n), T # {}
    PROVE  \E m \in T : \A k \in T : k <= m
PROOF
<1> DEFINE U == {n - k : k \in T}
<1>1. \A k \in T : k \in 0 .. n /\ n - k \in Nat
  OBVIOUS
<1>a. U \in SUBSET Nat
  BY <1>1
<1>b. U # {}
  OBVIOUS
<1>2. PICK d \in U : \A e \in U : d <= e
  BY <1>a, <1>b, LeastNatural
<1>3. PICK m \in T : d = n - m
  OBVIOUS
<1>4. \A k \in T : n - m <= n - k
  BY <1>2, <1>3
<1> QED
  BY <1>1, <1>3, <1>4

-----------------------------------------------------------------------------
(* Types.                                                                  *)

(* Update records that passed the prescan.                                 *)
Admitted == {u \in UpdateRR : PrescanRcode(u, FALSE) = "NOERROR"}

(* The next serial is a serial, and no two serials share one.              *)
LEMMA NextSerialType ==
    /\ \A s \in Serials : NextSerial(s) \in Serials
    /\ \A s, t \in Serials : NextSerial(s) = NextSerial(t) => s = t
PROOF
  BY HalfAssumption DEF Serials, NextSerial

(* What an admitted record is: its name is in the zone, and one that is    *)
(* added is a record of a zone.                                            *)
LEMMA AdmittedShape ==
    ASSUME NEW u \in Admitted
    PROVE  /\ u.name \in Names
           /\ u.class = "IN" => AsRR(u) \in RR
PROOF
<1>1. u.name \in Names
  BY DEF Admitted, PrescanRcode, inZone
<1>2. ASSUME u.class = "IN"
      PROVE  u.type \notin MetaTypes
  BY <1>1, <1>2 DEF Admitted, PrescanRcode, inZone
<1>3. ASSUME u.class = "IN"
      PROVE  AsRR(u) \in RR
  BY <1>1, <1>2, <1>3 DEF Admitted, UpdateRR, RR, AsRR, MetaTypes, RRTypes, Classes
<1> QED
  BY <1>1, <1>3

(* A record bumped is a record, and a SOA is one by its serial.            *)
LEMMA BumpedRecord ==
    ASSUME NEW rr \in RR, rr.type = "SOA"
    PROVE  /\ rr.data \in Serials
           /\ [rr EXCEPT !.data = NextSerial(rr.data)] \in RR
PROOF
<1>1. rr \in [name : Names, type : {"SOA"}, data : Serials, ttl : TTLs]
  BY DEF RR
<1> QED
  BY <1>1, NextSerialType DEF RR

(* bumpSerial keeps a zone a finite set of records.                        *)
LEMMA BumpType ==
    ASSUME NEW z \in SUBSET RR, IsFiniteSet(z)
    PROVE  bumpSerial(z) \in SUBSET RR /\ IsFiniteSet(bumpSerial(z))
PROOF
<1> DEFINE bump(rr) == IF rr.type = "SOA" THEN [rr EXCEPT !.data = NextSerial(rr.data)] ELSE rr
           f == [rr \in z |-> bump(rr)]
<1>1. \A rr \in z : bump(rr) \in RR
  BY BumpedRecord
<1>2. bumpSerial(z) = {f[rr] : rr \in z}
  BY DEF bumpSerial
<1>3. IsFiniteSet({f[rr] : rr \in z})
  <2>1. f \in Surjection(z, {f[rr] : rr \in z})
    BY DEF Surjection
  <2> QED
    BY <2>1, FS_Surjection
<1> QED
  BY <1>1, <1>2, <1>3

(* Applying one admitted record keeps a zone a finite set of records.      *)
LEMMA ApplyType ==
    ASSUME NEW z \in SUBSET RR, IsFiniteSet(z), NEW u \in Admitted
    PROVE  ApplyRR(z, u) \in SUBSET RR /\ IsFiniteSet(ApplyRR(z, u))
PROOF
<1>1. CASE u.class = "IN"
  <2>1. AsRR(u) \in RR
    BY <1>1, AdmittedShape
  <2>2. AddRR(z, u) \in SUBSET (z \cup {AsRR(u)})
    BY DEF AddRR
  <2>3. IsFiniteSet(z \cup {AsRR(u)})
    BY FS_AddElement
  <2>4. IsFiniteSet(AddRR(z, u))
    BY <2>2, <2>3, FS_Subset
  <2>5. ApplyRR(z, u) = AddRR(z, u)
    BY <1>1 DEF ApplyRR
  <2> QED
    BY <2>1, <2>2, <2>4, <2>5
<1>2. CASE u.class # "IN"
  <2>1. ApplyRR(z, u) \in SUBSET z
    BY <1>2 DEF ApplyRR, DeleteRRset, DeleteRR
  <2> QED
    BY <2>1, FS_Subset
<1> QED
  BY <1>1, <1>2

-----------------------------------------------------------------------------
(* The rules of a zone, record by record.                                  *)

(* With one SOA in a zone, soaOf is it.                                    *)
LEMMA SoaOfIsTheSOA ==
    ASSUME NEW z, hasSOA(z)
    PROVE  soaOf(z) \in z /\ soaOf(z).type = "SOA"
PROOF
  BY DEF hasSOA, soaOf, SOAs

(* No update gives a zone a second SOA.                                    *)
LEMMA ApplyOneSOA ==
    ASSUME NEW z, OneSOA(z), NEW u
    PROVE  OneSOA(ApplyRR(z, u))
PROOF
<1>1. CASE u.class = "IN" /\ u.type = "SOA"
  <2>1. ApplyRR(z, u) = AddRR(z, u)
    BY <1>1 DEF ApplyRR
  <2>2. CASE hasSOA(z) /\ serialGreater(u.data, soaOf(z).data)
    <3>1. AddRR(z, u) = (z \ {soaOf(z)}) \cup {AsRR(u)}
      BY <1>1, <2>2 DEF AddRR
    <3>2. \A rr \in z \ {soaOf(z)} : rr.type # "SOA"
      BY <2>2, SoaOfIsTheSOA DEF OneSOA
    <3> QED
      BY <2>1, <3>1, <3>2 DEF OneSOA
  <2>3. CASE ~(hasSOA(z) /\ serialGreater(u.data, soaOf(z).data))
    BY <1>1, <2>1, <2>3 DEF AddRR
  <2> QED
    BY <2>2, <2>3
<1>2. CASE u.class = "IN" /\ u.type # "SOA"
  <2>1. \A rr \in ApplyRR(z, u) : rr \in z \/ rr = AsRR(u)
    BY <1>2 DEF ApplyRR, AddRR
  <2>2. AsRR(u).type # "SOA"
    BY <1>2 DEF AsRR
  <2> QED
    BY <2>1, <2>2 DEF OneSOA
<1>3. CASE u.class # "IN"
  <2>1. ApplyRR(z, u) \subseteq z
    BY <1>3 DEF ApplyRR, DeleteRRset, DeleteRR
  <2> QED
    BY <2>1 DEF OneSOA
<1> QED
  BY <1>1, <1>2, <1>3

(* No update puts a record into a zone twice.                              *)
LEMMA ApplyNoTwins ==
    ASSUME NEW z, OneSOA(z), NoTwins(z), NEW u
    PROVE  NoTwins(ApplyRR(z, u))
PROOF
<1>1. CASE u.class = "IN" /\ u.type = "SOA"
  <2>1. ApplyRR(z, u) = AddRR(z, u)
    BY <1>1 DEF ApplyRR
  <2>2. CASE hasSOA(z) /\ serialGreater(u.data, soaOf(z).data)
    <3>1. AddRR(z, u) = (z \ {soaOf(z)}) \cup {AsRR(u)}
      BY <1>1, <2>2 DEF AddRR
    <3>2. \A rr \in z \ {soaOf(z)} : rr.type # "SOA"
      BY <2>2, SoaOfIsTheSOA DEF OneSOA
    <3>3. AsRR(u).type = "SOA"
      BY <1>1 DEF AsRR
    <3> QED
      BY <2>1, <3>1, <3>2, <3>3 DEF NoTwins, sameRR
  <2>3. CASE ~(hasSOA(z) /\ serialGreater(u.data, soaOf(z).data))
    BY <1>1, <2>1, <2>3 DEF AddRR
  <2> QED
    BY <2>2, <2>3
<1>2. CASE u.class = "IN" /\ u.type # "SOA"
  <2>1. ApplyRR(z, u) = z \/ ApplyRR(z, u) = (z \ matching(z, u)) \cup {AsRR(u)}
    BY <1>2 DEF ApplyRR, AddRR
  <2>2. \A rr \in z \ matching(z, u) : ~sameRR(rr, AsRR(u)) /\ ~sameRR(AsRR(u), rr)
    BY DEF matching, sameRR, AsRR
  <2> QED
    BY <2>1, <2>2 DEF NoTwins
<1>3. CASE u.class # "IN"
  <2>1. ApplyRR(z, u) \subseteq z
    BY <1>3 DEF ApplyRR, DeleteRRset, DeleteRR
  <2> QED
    BY <2>1 DEF NoTwins
<1> QED
  BY <1>1, <1>2, <1>3

(* No update takes the last name server off the apex.                      *)
LEMMA ApplyKeepsNS ==
    ASSUME NEW z, NoTwins(z), HasApexNS(z), NEW u
    PROVE  HasApexNS(ApplyRR(z, u))
PROOF
<1> PICK ns \in z : ns.name = Apex /\ ns.type = "NS"
  BY DEF HasApexNS, rrsetOf
<1> SUFFICES \E rr \in ApplyRR(z, u) : rr.name = Apex /\ rr.type = "NS"
  BY DEF HasApexNS, rrsetOf
<1>1. CASE u.class = "IN"
  <2>1. ApplyRR(z, u) = AddRR(z, u)
    BY <1>1 DEF ApplyRR
  <2>2. CASE u.type = "SOA"
    BY <2>1, <2>2, SoaOfIsTheSOA DEF AddRR
  <2>3. CASE u.type # "SOA"
    <3>1. AddRR(z, u) = z \/ AddRR(z, u) = (z \ matching(z, u)) \cup {AsRR(u)}
      BY <2>3 DEF AddRR
    <3>2. ns \in matching(z, u) => AsRR(u).name = Apex /\ AsRR(u).type = "NS"
      BY DEF matching, sameRR, AsRR
    <3> QED
      BY <2>1, <3>1, <3>2
  <2> QED
    BY <2>2, <2>3
<1>2. CASE u.class = "ANY"
  BY <1>2 DEF ApplyRR, DeleteRRset
<1>3. CASE u.class = "NONE"
  <2>1. ApplyRR(z, u) = DeleteRR(z, u)
    BY <1>3 DEF ApplyRR
  <2>2. CASE DeleteRR(z, u) = z
    BY <2>1, <2>2
  <2>3. CASE DeleteRR(z, u) = z \ matching(z, u) /\ ~(u.name = Apex /\ u.type = "NS")
    BY <2>1, <2>3 DEF matching, sameRR
  <2>4. CASE /\ DeleteRR(z, u) = z \ matching(z, u)
             /\ ~(Cardinality(rrsetOf(z, Apex, "NS")) <= 1)
    <3> DEFINE set == rrsetOf(z, Apex, "NS")
    <3>1. IsFiniteSet({ns}) /\ Cardinality({ns}) = 1
      BY FS_Singleton
    <3>2. set # {ns}
      BY <2>4, <3>1
    <3>3. PICK other \in set : other # ns
      BY <3>2 DEF rrsetOf
    <3>4. ~(ns \in matching(z, u) /\ other \in matching(z, u))
      BY <3>3 DEF matching, sameRR, NoTwins, rrsetOf
    <3> QED
      BY <2>1, <2>4, <3>3, <3>4 DEF rrsetOf
  <2> QED
    BY <2>2, <2>3, <2>4 DEF DeleteRR
<1>4. CASE u.class \notin {"IN", "ANY", "NONE"}
  BY <1>4 DEF ApplyRR
<1> QED
  BY <1>1, <1>2, <1>3, <1>4

(* With SOAs added at the apex only, no update costs a zone its apex.      *)
LEMMA ApplyKeepsApex ==
    ASSUME NEW z \in SUBSET RR, IsFiniteSet(z), NoTwins(z), KeepsApex(z),
           NEW u, u.class = "IN" /\ u.type = "SOA" => u.name = Apex
    PROVE  KeepsApex(ApplyRR(z, u))
PROOF
<1>1. HasApexNS(ApplyRR(z, u))
  BY ApplyKeepsNS DEF KeepsApex
<1>2. OneSOA(ApplyRR(z, u))
  BY ApplyOneSOA DEF KeepsApex
<1>3. soaOf(z) \in z /\ soaOf(z).type = "SOA" /\ soaOf(z).name = Apex
  BY SoaOfIsTheSOA DEF KeepsApex, SOAAtApex
<1>4. CASE u.class = "IN" /\ u.type = "SOA"
  <2>1. AsRR(u).type = "SOA" /\ AsRR(u).name = Apex
    BY <1>4 DEF AsRR
  <2>2. ApplyRR(z, u) = z \/ ApplyRR(z, u) = (z \ {soaOf(z)}) \cup {AsRR(u)}
    BY <1>4 DEF ApplyRR, AddRR
  <2>3. hasSOA(ApplyRR(z, u)) /\ SOAAtApex(ApplyRR(z, u))
    BY <2>1, <2>2 DEF KeepsApex, hasSOA, SOAs, SOAAtApex
  <2> QED
    BY <1>1, <1>2, <2>3 DEF KeepsApex
<1>5. CASE ~(u.class = "IN" /\ u.type = "SOA")
  <2>1. soaOf(z) \in ApplyRR(z, u)
    <3>1. CASE u.class = "IN"
      BY <1>3, <1>5, <3>1 DEF ApplyRR, AddRR, matching, sameRR
    <3>2. CASE u.class = "ANY"
      BY <1>3, <3>2 DEF ApplyRR, DeleteRRset
    <3>3. CASE u.class = "NONE"
      BY <1>3, <3>3 DEF ApplyRR, DeleteRR, matching, sameRR
    <3>4. CASE u.class \notin {"IN", "ANY", "NONE"}
      BY <1>3, <3>4 DEF ApplyRR
    <3> QED
      BY <3>1, <3>2, <3>3, <3>4
  <2>2. hasSOA(ApplyRR(z, u))
    BY <1>3, <2>1 DEF hasSOA, SOAs
  <2>3. SOAAtApex(ApplyRR(z, u))
    BY <1>2, <1>3, <2>1 DEF SOAAtApex, OneSOA
  <2> QED
    BY <1>1, <1>2, <2>2, <2>3 DEF KeepsApex
<1> QED
  BY <1>4, <1>5

(* Nor does one put a CNAME beside another type, whichever came first.     *)
LEMMA ApplyCNAMEAlone ==
    ASSUME NEW z, KeepsApex(z), CNAMEAlone(z),
           NEW u, u.class = "IN" /\ u.type = "SOA" => u.name = Apex
    PROVE  CNAMEAlone(ApplyRR(z, u))
PROOF
<1>1. CASE u.class = "IN" /\ u.type = "SOA"
  <2>1. soaOf(z) \in z /\ soaOf(z).type = "SOA" /\ soaOf(z).name = Apex
    BY SoaOfIsTheSOA DEF KeepsApex, SOAAtApex
  <2>2. \A a \in z : a.name = Apex => a.type # "CNAME"
    BY <2>1 DEF CNAMEAlone
  <2>3. AsRR(u).type = "SOA" /\ AsRR(u).name = Apex
    BY <1>1 DEF AsRR
  <2>4. ApplyRR(z, u) = z \/ ApplyRR(z, u) = (z \ {soaOf(z)}) \cup {AsRR(u)}
    BY <1>1 DEF ApplyRR, AddRR
  <2> QED
    BY <2>2, <2>3, <2>4 DEF CNAMEAlone
<1>2. CASE u.class = "IN" /\ u.type # "SOA"
  <2>1. ApplyRR(z, u) = AddRR(z, u) /\ AsRR(u).name = u.name /\ AsRR(u).type = u.type
    BY <1>2 DEF ApplyRR, AsRR
  <2>2. CASE AddRR(z, u) = z
    BY <2>1, <2>2
  <2>3. CASE AddRR(z, u) # z
    <3>1. /\ AddRR(z, u) = (z \ matching(z, u)) \cup {AsRR(u)}
          /\ u.type = "CNAME" => ~hasNonCNAME(z, u.name)
          /\ u.type # "CNAME" => ~hasCNAME(z, u.name)
      BY <1>2, <2>3 DEF AddRR
    <3> QED
      BY <2>1, <3>1 DEF CNAMEAlone, hasNonCNAME, hasCNAME, rrsetOf
  <2> QED
    BY <2>2, <2>3
<1>3. CASE u.class # "IN"
  <2>1. ApplyRR(z, u) \subseteq z
    BY <1>3 DEF ApplyRR, DeleteRRset, DeleteRR
  <2> QED
    BY <2>1 DEF CNAMEAlone
<1> QED
  BY <1>1, <1>2, <1>3

-----------------------------------------------------------------------------
(* The rules are kept by anything that maps a zone record by record, keeps *)
(* owners and types, and keeps different records apart: bumpSerial, and    *)
(* reading the rows back.                                                  *)

(* One record under bumpSerial.                                            *)
bumped(rr) == IF rr.type = "SOA" THEN [rr EXCEPT !.data = NextSerial(rr.data)] ELSE rr

LEMMA BumpedFields ==
    ASSUME NEW z \in SUBSET RR
    PROVE  /\ bumpSerial(z) = {bumped(rr) : rr \in z}
           /\ \A rr \in z : bumped(rr).name = rr.name /\ bumped(rr).type = rr.type
           /\ \A a, b \in z : sameRR(bumped(a), bumped(b)) => sameRR(a, b)
PROOF
<1>1. bumpSerial(z) = {bumped(rr) : rr \in z}
  BY DEF bumpSerial, bumped
<1>2. ASSUME NEW rr \in z
      PROVE  /\ bumped(rr).name = rr.name
             /\ bumped(rr).type = rr.type
             /\ rr.type # "SOA" => bumped(rr).data = rr.data
             /\ rr.type = "SOA" => bumped(rr).data = NextSerial(rr.data) /\ rr.data \in Serials
  <2>1. rr \in RR
    OBVIOUS
  <2>2. CASE rr.type = "SOA"
    BY <2>1, <2>2, BumpedRecord DEF RR, bumped
  <2>3. CASE rr.type # "SOA"
    BY <2>3 DEF bumped
  <2> QED
    BY <2>2, <2>3
<1>3. ASSUME NEW a \in z, NEW b \in z, sameRR(bumped(a), bumped(b))
      PROVE  sameRR(a, b)
  BY <1>2, <1>3, NextSerialType DEF sameRR
<1> QED
  BY <1>1, <1>2, <1>3

(* bumpSerial keeps the rules.                                             *)
LEMMA BumpKeepsRules ==
    ASSUME NEW z \in SUBSET RR
    PROVE  /\ OneSOA(z) => OneSOA(bumpSerial(z))
           /\ NoTwins(z) => NoTwins(bumpSerial(z))
           /\ HasApexNS(z) => HasApexNS(bumpSerial(z))
           /\ KeepsApex(z) => KeepsApex(bumpSerial(z))
           /\ CNAMEAlone(z) => CNAMEAlone(bumpSerial(z))
PROOF
<1>1. OneSOA(z) => OneSOA(bumpSerial(z))
  BY BumpedFields DEF OneSOA
<1>2. NoTwins(z) => NoTwins(bumpSerial(z))
  BY BumpedFields DEF NoTwins
<1>3. HasApexNS(z) => HasApexNS(bumpSerial(z))
  BY BumpedFields DEF HasApexNS, rrsetOf
<1>4. hasSOA(z) => hasSOA(bumpSerial(z))
  BY BumpedFields DEF hasSOA, SOAs
<1>5. SOAAtApex(z) => SOAAtApex(bumpSerial(z))
  BY BumpedFields DEF SOAAtApex
<1>6. CNAMEAlone(z) => CNAMEAlone(bumpSerial(z))
  BY BumpedFields DEF CNAMEAlone
<1> QED
  BY <1>1, <1>2, <1>3, <1>4, <1>5, <1>6 DEF KeepsApex

-----------------------------------------------------------------------------
(* Sections of a message.                                                  *)

(* The first failure is the rcode of some record, or NOERROR.              *)
LEMMA FirstFailureType ==
    ASSUME NEW n \in Nat, NEW f, DOMAIN f = 1 .. n
    PROVE  \/ FirstFailure(f) = "NOERROR" /\ \A i \in 1 .. n : f[i] = "NOERROR"
           \/ \E i \in 1 .. n : FirstFailure(f) = f[i] /\ f[i] # "NOERROR"
PROOF
<1>1. CASE \A i \in 1 .. n : f[i] = "NOERROR"
  BY <1>1 DEF FirstFailure
<1>2. CASE ~ \A i \in 1 .. n : f[i] = "NOERROR"
  <2> DEFINE T == {i \in 1 .. n : f[i] # "NOERROR"}
             first == CHOOSE i \in DOMAIN f : /\ f[i] # "NOERROR"
                                              /\ \A j \in DOMAIN f : j < i => f[j] = "NOERROR"
  <2>1. T \in SUBSET Nat /\ T # {}
    BY <1>2
  <2>2. PICK m \in T : \A k \in T : m <= k
    BY <2>1, LeastNatural
  <2>3. \A j \in 1 .. n : j < m => f[j] = "NOERROR"
    BY <2>2
  <2>4. first \in 1 .. n /\ f[first] # "NOERROR"
    BY <2>2, <2>3
  <2>5. FirstFailure(f) = f[first]
    BY <1>2 DEF FirstFailure
  <2> QED
    BY <2>4, <2>5
<1> QED
  BY <1>1, <1>2

(* Every record of a section that passed the prescan is admitted.          *)
LEMMA PrescanAdmits ==
    ASSUME NEW us \in Seq(UpdateRR), NEW e \in BOOLEAN
    PROVE  /\ prescan(us, e) = "NOERROR" => us \in Seq(Admitted)
           /\ prescan(us, e) \in {"NOERROR", "NOTZONE", "FORMERR", "REFUSED"}
PROOF
<1> DEFINE f == [i \in DOMAIN us |-> PrescanRcode(us[i], e)]
<1>1. Len(us) \in Nat /\ DOMAIN us = 1 .. Len(us) /\ DOMAIN f = 1 .. Len(us)
      /\ \A i \in 1 .. Len(us) : us[i] \in UpdateRR
  BY ElementOfSeq, LenProperties
<1>2. \A u : PrescanRcode(u, e) \in {"NOERROR", "NOTZONE", "FORMERR", "REFUSED"}
  BY DEF PrescanRcode
<1>3. \A u \in UpdateRR : PrescanRcode(u, e) = "NOERROR" => u \in Admitted
  BY DEF Admitted, PrescanRcode
<1>4. prescan(us, e) = FirstFailure(f)
  BY DEF prescan
<1>5. \/ FirstFailure(f) = "NOERROR" /\ \A i \in 1 .. Len(us) : f[i] = "NOERROR"
      \/ \E i \in 1 .. Len(us) : FirstFailure(f) = f[i] /\ f[i] # "NOERROR"
  <2> HIDE DEF f
  <2> QED
    BY <1>1, FirstFailureType
<1>6. ASSUME prescan(us, e) = "NOERROR"
      PROVE  us \in Seq(Admitted)
  <2>1. \A i \in 1 .. Len(us) : us[i] \in Admitted
    BY <1>1, <1>3, <1>4, <1>5, <1>6
  <2> QED
    BY <1>1, <2>1, SeqDef
<1> QED
  BY <1>1, <1>2, <1>4, <1>5, <1>6

(* Prerequisites answer with an rcode of section 3.2.                      *)
LEMMA PrereqsType ==
    ASSUME NEW z, NEW ps \in Seq(UpdateRR)
    PROVE  checkPrereqs(z, ps) \in {"NOERROR", "FORMERR", "NOTZONE", "NXDOMAIN", "NXRRSET",
                                    "YXDOMAIN", "YXRRSET"}
PROOF
<1> DEFINE f == [i \in DOMAIN ps |-> PrereqRcode(z, ps[i])]
<1>1. Len(ps) \in Nat /\ DOMAIN ps = 1 .. Len(ps) /\ DOMAIN f = 1 .. Len(ps)
  BY LenProperties
<1>2. \A p : PrereqRcode(z, p) \in {"NOERROR", "FORMERR", "NOTZONE", "NXDOMAIN", "NXRRSET",
                                    "YXDOMAIN", "YXRRSET"}
  BY DEF PrereqRcode
<1>3. \/ FirstFailure(f) = "NOERROR" /\ \A i \in 1 .. Len(ps) : f[i] = "NOERROR"
      \/ \E i \in 1 .. Len(ps) : FirstFailure(f) = f[i] /\ f[i] # "NOERROR"
  <2> HIDE DEF f
  <2> QED
    BY <1>1, FirstFailureType
<1>4. checkPrereqs(z, ps) \in {FirstFailure(f), "NOERROR", "NXRRSET"}
  BY DEF checkPrereqs
<1> QED
  BY <1>1, <1>2, <1>3, <1>4

(* An HTTP request is rewritten into its own records, its SOAs with their  *)
(* serials raised, and deletes of single name servers: whatever set has    *)
(* all of these has the whole section.                                     *)
LEMMA HttpUpdatesIn ==
    ASSUME NEW z \in SUBSET RR, IsFiniteSet(z), NEW q \in HttpRequest, ~httpRefused(z, q),
           NEW us \in httpUpdates(z, q),
           NEW Good \in SUBSET UpdateRR,
           \A u \in UpdateRR : u.class = "NONE" => u \in Good,
           \A u \in Good : \A s \in Serials :
               u.class = "IN" /\ u.type = "SOA" => [u EXCEPT !.data = s] \in Good,
           q.early \in Seq(Good), q.others \in Seq(Good), q.soas \in Seq(Good),
           q.nss \in Seq(Good), q.nsDels \in Seq(Good)
    PROVE  us \in Seq(Good)
PROOF
<1> DEFINE soas  == [i \in DOMAIN q.soas |-> RaiseSerial(z, q.soas[i])]
           wiped == wipedNS(z, q)
<1>1. soas \in Seq(Good)
  <2>1. /\ Len(q.soas) \in Nat /\ DOMAIN q.soas = 1 .. Len(q.soas)
        /\ \A i \in 1 .. Len(q.soas) : q.soas[i] \in AddOf("SOA") /\ q.soas[i] \in Good
    BY ElementOfSeq, LenProperties DEF HttpRequest
  <2>2. ASSUME NEW i \in DOMAIN q.soas
        PROVE  RaiseSerial(z, q.soas[i]) \in Good
    <3>1. hasSOA(z)
      BY <2>1, <2>2 DEF httpRefused
    <3>2. soaOf(z) \in RR /\ soaOf(z).type = "SOA"
      BY <3>1, SoaOfIsTheSOA
    <3>3. NextSerial(soaOf(z).data) \in Serials
      BY <3>2, BumpedRecord, NextSerialType
    <3>4. q.soas[i] \in Good /\ q.soas[i].class = "IN" /\ q.soas[i].type = "SOA"
      BY <2>1, <2>2 DEF AddOf
    <3> QED
      BY <3>3, <3>4 DEF RaiseSerial
  <2> QED
    BY <2>1, <2>2, SeqDef
<1>2. wiped \subseteq Good /\ Cardinality(wiped) \in Nat
  <2> DEFINE gone == {ns \in rrsetOf(z, Apex, "NS") : \A i \in DOMAIN q.nss : ~sameRR(ns, q.nss[i])}
             del  == [rr \in gone |-> [class |-> "NONE", name |-> rr.name, type |-> rr.type,
                                       data |-> rr.data, ttl |-> 0]]
  <2>1. wiped = {del[rr] : rr \in gone}
    BY DEF wipedNS
  <2>2. gone \subseteq z
    BY DEF rrsetOf
  <2>3. \A rr \in gone : del[rr] \in UpdateRR /\ del[rr].class = "NONE"
    <3>1. \A rr \in gone : rr \in [name : Names, type : {"NS"}, data : Data, ttl : TTLs]
      BY <2>2 DEF RR, rrsetOf
    <3> QED
      BY <3>1, ZoneAssumption DEF UpdateRR, RRTypes
  <2>4. del \in Surjection(gone, {del[rr] : rr \in gone})
    BY DEF Surjection
  <2>5. IsFiniteSet(gone)
    BY <2>2, FS_Subset
  <2>6. IsFiniteSet({del[rr] : rr \in gone})
    BY <2>4, <2>5, FS_Surjection
  <2>7. wiped \subseteq Good
    BY <2>1, <2>3
  <2> QED
    BY <2>1, <2>6, <2>7, FS_CardinalityType
<1>3. PICK dels : us = q.early \o q.others \o soas \o q.nss \o dels
                  /\ dels \in IF q.wipeNS THEN [1 .. Cardinality(wiped) -> wiped] ELSE {q.nsDels}
  BY DEF httpUpdates
<1>4. dels \in Seq(Good)
  <2>1. CASE q.wipeNS
    <3>1. dels \in [1 .. Cardinality(wiped) -> Good]
      BY <1>2, <1>3, <2>1
    <3> QED
      BY <1>2, <3>1, SeqDef
  <2>2. CASE ~q.wipeNS
    BY <1>3, <2>2
  <2> QED
    BY <2>1, <2>2
<1> HIDE DEF soas
<1> QED
  BY <1>1, <1>3, <1>4, ConcatProperties

(* In particular it is a section of update records.                        *)
LEMMA HttpUpdatesType ==
    ASSUME NEW z \in SUBSET RR, IsFiniteSet(z), NEW q \in HttpRequest, ~httpRefused(z, q),
           NEW us \in httpUpdates(z, q)
    PROVE  us \in Seq(UpdateRR)
PROOF
<1>1. /\ Adds \subseteq UpdateRR /\ AddOf("SOA") \subseteq UpdateRR
      /\ AddOf("NS") \subseteq UpdateRR /\ Deletes \subseteq UpdateRR
  BY DEF Adds, AddOf, Deletes
<1>2. /\ q.others \in Seq(UpdateRR) /\ q.soas \in Seq(UpdateRR) /\ q.nss \in Seq(UpdateRR)
      /\ q.early \in Seq(UpdateRR) /\ q.nsDels \in Seq(UpdateRR)
  BY <1>1, SeqMonotonic DEF HttpRequest
<1>3. ASSUME NEW u \in UpdateRR, NEW s \in Serials, u.class = "IN", u.type = "SOA"
      PROVE  [u EXCEPT !.data = s] \in UpdateRR
  <2>1. u \in [class : {"IN", "NONE"}, name : Names \cup Outside,
               type : {"SOA"}, data : Serials, ttl : TTLs]
    BY <1>3 DEF UpdateRR, RRTypes, MetaTypes, Classes
  <2> QED
    BY <2>1 DEF UpdateRR
<1> QED
  BY <1>2, <1>3, HttpUpdatesIn

-----------------------------------------------------------------------------
(* Journals.                                                               *)

(* A journal stays a journal: the increments between generations chain and *)
(* there are never more than `history' of them.                            *)
LEMMA ExtendChains ==
    ASSUME NEW incs \in Seq(Increment), chained(incs),
           NEW inc \in Increment, NEW history \in Nat \ {0},
           incs # << >> => incs[Len(incs)].newSerial = inc.oldSerial
    PROVE  LET next == Extend(incs, inc, history)
           IN  /\ next \in Seq(Increment) /\ next # << >>
               /\ chained(next)
               /\ Len(next) <= history
               /\ next[Len(next)] = inc
PROOF
<1> DEFINE long == Append(incs, inc)
           n    == Len(long)
<1>1. /\ long \in Seq(Increment) /\ n = Len(incs) + 1 /\ n \in Nat /\ n > 0
      /\ DOMAIN long = 1 .. n /\ DOMAIN incs = 1 .. (n - 1)
      /\ \A i \in 1 .. (n - 1) : long[i] = incs[i]
      /\ long[n] = inc
      /\ \A i \in 1 .. n : long[i] \in Increment
  BY AppendProperties, LenProperties, ElementOfSeq
<1>2. \A i \in 1 .. n : i > 1 => long[i].oldSerial = long[i - 1].newSerial
  <2>1. \A i \in 1 .. (n - 1) : i > 1 => incs[i].oldSerial = incs[i - 1].newSerial
    BY <1>1 DEF chained
  <2>2. n > 1 => incs[n - 1].newSerial = inc.oldSerial
    <3>1. Len(incs) = n - 1
      BY <1>1
    <3>2. n > 1 => incs # << >>
      BY <3>1, LenProperties, EmptySeq
    <3> QED
      BY <3>1, <3>2
  <2> HIDE DEF n, long
  <2> QED
    BY <1>1, <2>1, <2>2
<1> HIDE DEF n, long
<1>3. CASE ~(n > history)
  <2>1. Extend(incs, inc, history) = long
    BY <1>3 DEF Extend, n, long
  <2>2. chained(long)
    BY <1>1, <1>2 DEF chained
  <2> QED
    BY <1>1, <1>3, <2>1, <2>2, EmptySeq DEF n
<1>4. CASE n > history
  <2> DEFINE m == n - history + 1
             next == SubSeq(long, m, n)
  <2>1. Extend(incs, inc, history) = next
    BY <1>4 DEF Extend, n, long
  <2>2. m \in 1 .. n
    BY <1>1, <1>4
  <2>3. /\ next \in Seq(Increment)
        /\ Len(next) = history
        /\ \A i \in 1 .. history : next[i] = long[m + i - 1]
    <3>1. m \in Int /\ n \in Int /\ m <= n /\ n - m + 1 = history
      BY <1>1, <1>4
    <3>2. \A i \in m .. n : long[i] \in Increment
      BY <1>1, <2>2
    <3> HIDE DEF m
    <3> QED
      BY <3>1, <3>2, SubSeqProperties
  <2>4. DOMAIN next = 1 .. history
    BY <2>3, LenProperties
  <2> HIDE DEF next
  <2>5. \A i \in 1 .. history : i > 1 => next[i].oldSerial = next[i - 1].newSerial
    <3> SUFFICES ASSUME NEW i \in 1 .. history, i > 1
                 PROVE  next[i].oldSerial = next[i - 1].newSerial
      OBVIOUS
    <3>1. next[i] = long[m + i - 1] /\ next[i - 1] = long[m + (i - 1) - 1]
      BY <2>3
    <3>2. m + i - 1 \in 1 .. n /\ m + i - 1 > 1 /\ (m + i - 1) - 1 = m + (i - 1) - 1
      BY <1>1, <1>4, <2>2
    <3> QED
      BY <1>2, <3>1, <3>2
  <2>6. next[history] = inc
    BY <1>1, <1>4, <2>3
  <2> QED
    BY <2>1, <2>3, <2>4, <2>5, <2>6, EmptySeq DEF chained
<1> QED
  BY <1>1, <1>3, <1>4

(* What a load keeps of a saved journal chains, ends at the zone's serial  *)
(* and is no longer than what was saved; its increments are saved ones.    *)
LEMMA ReconcileChains ==
    ASSUME NEW S, NEW incs \in Seq(S), NEW current
    PROVE  LET next == reconcile(incs, current)
           IN  /\ next \in Seq(S)
               /\ chained(next)
               /\ Len(next) <= Len(incs)
               /\ next # << >> => next[Len(next)].newSerial = current
PROOF
<1> DEFINE n    == Len(incs)
           ends == {i \in DOMAIN incs : incs[i].newSerial = current}
           next == reconcile(incs, current)
<1>1. n \in Nat /\ DOMAIN incs = 1 .. n /\ \A i \in 1 .. n : incs[i] \in S
  BY LenProperties, ElementOfSeq
<1>2. CASE ends = {}
  <2>1. next = << >>
    BY <1>2 DEF reconcile
  <2>2. << >> \in Seq(S) /\ Len(<< >>) = 0 /\ DOMAIN << >> = {}
    BY EmptySeq
  <2> QED
    BY <1>1, <2>1, <2>2 DEF chained
<1>3. CASE ends # {}
  <2> DEFINE end    == CHOOSE i \in ends : \A j \in ends : j <= i
             starts == {i \in 1 .. end : chained(SubSeq(incs, i, end))}
             start  == CHOOSE i \in starts : \A j \in starts : i <= j
  <2>1. end \in 1 .. n /\ incs[end].newSerial = current
    <3>1. ends \in SUBSET (0 .. n)
      BY <1>1
    <3>2. \E i \in ends : \A j \in ends : j <= i
      <4> HIDE DEF ends, n
      <4> QED
        BY <1>1, <1>3, <3>1, GreatestNatural
    <3> QED
      BY <1>1, <3>2
  <2> HIDE DEF end
  <2>2. \A i \in 1 .. end : /\ SubSeq(incs, i, end) \in Seq(S)
                            /\ Len(SubSeq(incs, i, end)) = end - i + 1
                            /\ \A j \in 1 .. end - i + 1 : SubSeq(incs, i, end)[j] = incs[i + j - 1]
    <3> SUFFICES ASSUME NEW i \in 1 .. end
                 PROVE  /\ SubSeq(incs, i, end) \in Seq(S)
                        /\ Len(SubSeq(incs, i, end)) = end - i + 1
                        /\ \A j \in 1 .. end - i + 1 : SubSeq(incs, i, end)[j] = incs[i + j - 1]
      OBVIOUS
    <3>1. i \in Int /\ end \in Int /\ i <= end /\ \A j \in i .. end : incs[j] \in S
      BY <1>1, <2>1
    <3> QED
      BY <3>1, SubSeqProperties
  <2>3. end \in starts
    <3>1. end \in 1 .. end /\ end - end + 1 = 1
      BY <1>1, <2>1
    <3>2. SubSeq(incs, end, end) \in Seq(S) /\ Len(SubSeq(incs, end, end)) = 1
      BY <2>2, <3>1
    <3>3. DOMAIN SubSeq(incs, end, end) = 1 .. 1
      BY <3>2, LenProperties
    <3> QED
      BY <3>1, <3>3 DEF chained
  <2>4. start \in starts
    <3>1. starts \in SUBSET Nat
      BY <1>1, <2>1
    <3>2. \E i \in starts : \A j \in starts : i <= j
      <4> HIDE DEF starts
      <4> QED
        BY <2>3, <3>1, LeastNatural
    <3> QED
      BY <3>2
  <2>5. next = SubSeq(incs, start, end)
    BY <1>3 DEF reconcile, end
  <2>6. start \in 1 .. end /\ chained(SubSeq(incs, start, end))
    BY <2>4
  <2> HIDE DEF start, starts, next
  <2>7. /\ next \in Seq(S)
        /\ Len(next) = end - start + 1
        /\ next[end - start + 1] = incs[start + (end - start + 1) - 1]
    BY <1>1, <2>1, <2>2, <2>5, <2>6
  <2>8. start + (end - start + 1) - 1 = end /\ end - start + 1 <= n
    BY <1>1, <2>1, <2>6
  <2> QED
    BY <2>1, <2>5, <2>6, <2>7, <2>8 DEF next
<1> QED
  BY <1>2, <1>3

-----------------------------------------------------------------------------
(* Replaying increments.                                                   *)

(* A client that holds the generation a stream of increments starts from   *)
(* ends up with the records of the one it ends at, SOAs apart: T lists the *)
(* generations on the way.                                                 *)
LEMMA ReplayReaches ==
    ASSUME NEW n \in Nat, NEW T \in [0 .. n -> SUBSET RR], NEW s,
           DOMAIN s = 1 .. n,
           \A j \in 1 .. n : /\ s[j].deleted = diffMissing(T[j - 1], T[j])
                             /\ s[j].added = diffMissing(T[j], T[j - 1])
    PROVE  Replay(T[0], s) = T[n] \ SOAs(T[n])
PROOF
<1> DEFINE Last(rr, i) == \A j \in 1 .. n : j > i => rr \notin s[j].deleted
<1>1. Replay(T[0], s) = {rr \in T[0] \ SOAs(T[0]) : Last(rr, 0)}
                          \cup UNION {{rr \in s[i].added : Last(rr, i)} : i \in 1 .. n}
  BY DEF Replay
<1>2. ASSUME NEW rr, NEW j \in 1 .. n
      PROVE  /\ rr \in s[j].deleted <=> rr \in T[j - 1] /\ rr \notin T[j] /\ rr.type # "SOA"
             /\ rr \in s[j].added <=> rr \in T[j] /\ rr \notin T[j - 1] /\ rr.type # "SOA"
  BY DEF diffMissing
<1>3. ASSUME NEW rr, rr.type # "SOA", NEW i \in 0 .. n, rr \in T[i], Last(rr, i)
      PROVE  rr \in T[n]
  <2> DEFINE Gone == {j \in 0 .. n : j > i /\ rr \notin T[j]}
  <2>1. Gone \in SUBSET Nat
    OBVIOUS
  <2>2. ASSUME Gone # {} PROVE FALSE
    <3>1. PICK j \in Gone : \A k \in Gone : j <= k
      <4> HIDE DEF Gone
      <4> QED
        BY <2>1, <2>2, LeastNatural
    <3>2. j \in 1 .. n /\ j - 1 \in 0 .. n /\ j > i /\ rr \notin T[j]
      OBVIOUS
    <3>3. rr \in T[j - 1]
      <4>1. CASE j - 1 = i
        BY <1>3, <4>1
      <4>2. CASE j - 1 # i
        <5>1. j - 1 \notin Gone /\ j - 1 > i
          BY <3>1, <3>2, <4>2
        <5> QED
          BY <3>2, <5>1
      <4> QED
        BY <4>1, <4>2
    <3> QED
      BY <1>2, <1>3, <3>2, <3>3
  <2> QED
    BY <1>3, <2>2
<1>4. ASSUME NEW rr, rr.type # "SOA", rr \in T[n]
      PROVE  \/ rr \in T[0] /\ Last(rr, 0)
             \/ \E i \in 1 .. n : rr \in s[i].added /\ Last(rr, i)
  <2> DEFINE Away == {j \in 0 .. n : rr \notin T[j]}
  <2>1. CASE Away = {}
    BY <1>2, <2>1
  <2>2. CASE Away # {}
    <3>1. PICK j \in Away : \A k \in Away : k <= j
      <4>1. Away \in SUBSET (0 .. n)
        OBVIOUS
      <4> HIDE DEF Away
      <4> QED
        BY <2>2, <4>1, GreatestNatural
    <3>2. j \in 0 .. n /\ j # n /\ rr \notin T[j]
      BY <1>4
    <3>3. j + 1 \in 1 .. n /\ (j + 1) - 1 = j
      BY <3>2
    <3>4. \A k \in 0 .. n : k > j => rr \in T[k]
      BY <3>1, <3>2
    <3>5. rr \in s[j + 1].added
      BY <1>2, <1>4, <3>2, <3>3, <3>4
    <3>6. Last(rr, j + 1)
      BY <1>2, <3>3, <3>4
    <3> QED
      BY <3>3, <3>5, <3>6
  <2> QED
    BY <2>1, <2>2
<1> HIDE DEF Last
<1>5. ASSUME NEW rr \in Replay(T[0], s) PROVE rr \in T[n] /\ rr.type # "SOA"
  <2>1. CASE rr \in T[0] \ SOAs(T[0]) /\ Last(rr, 0)
    BY <1>3, <2>1 DEF SOAs
  <2>2. ASSUME NEW i \in 1 .. n, rr \in s[i].added, Last(rr, i)
        PROVE  rr \in T[n] /\ rr.type # "SOA"
    <3>1. rr \in T[i] /\ rr.type # "SOA" /\ i \in 0 .. n
      BY <1>2, <2>2
    <3> QED
      BY <1>3, <2>2, <3>1
  <2> QED
    BY <1>1, <1>5, <2>1, <2>2
<1>6. ASSUME NEW rr \in T[n], rr.type # "SOA" PROVE rr \in Replay(T[0], s)
  BY <1>1, <1>4, <1>6 DEF SOAs
<1> QED
  BY <1>5, <1>6 DEF SOAs

=============================================================================
