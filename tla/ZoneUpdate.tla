----------------------------- MODULE ZoneUpdate -----------------------------
(***************************************************************************)
(* What one RFC 2136 update does to the contents of one zone               *)
(* (dns-update-persistent/update.go, zone.go, apply.go).                   *)
(*                                                                         *)
(* A zone is a set of resource records.  A record keeps what the code      *)
(* tells apart: its owner, its type, its rdata (a model value; for a SOA,  *)
(* the serial) and its TTL.  The order of the code's slice is dropped: it  *)
(* is only visible through soaOf, and a zone never holds two SOAs.  Owners *)
(* are canonical names, so letter case is dropped too.                     *)
(***************************************************************************)
EXTENDS SerialArithmetic, Sequences, FiniteSets

CONSTANTS
    Apex,       \* the zone's origin
    Names,      \* the names at or below the origin, Apex among them
    Outside,    \* names of other zones
    Data,       \* rdata of the records that are not SOAs
    NoData,     \* an empty rdata section
    TTLs,       \* TTLs of records
    Mutable     \* types a wire UPDATE may touch; RRTypes when not configured

(* "A" stands for every ordinary type and "RRSIG" for RRSIG and NSEC, which *)
(* may sit beside a CNAME.  file.Zone refuses to load NSEC3PARAM, and the   *)
(* store cannot read TYPE65280 (a type without a mnemonic) back.            *)
RRTypes   == {"SOA", "NS", "CNAME", "A", "RRSIG", "NSEC3PARAM", "TYPE65280"}
MetaTypes == {"ANY", "AXFR"}
Classes   == {"IN", "ANY", "NONE", "CH"}

ASSUME ZoneAssumption ==
    /\ Apex \in Names
    /\ Names \cap Outside = {}
    /\ Data \cap Serials = {} /\ NoData \notin Data \cup Serials
    /\ TTLs \subseteq Nat /\ 0 \in TTLs
    /\ Mutable \subseteq RRTypes

(* Records of a zone, and records of an update or prerequisite section.    *)
RR == [name : Names, type : RRTypes \ {"SOA"}, data : Data, ttl : TTLs]
        \cup [name : Names, type : {"SOA"}, data : Serials, ttl : TTLs]

UpdateRR ==
    [class : {"IN", "NONE", "CH"}, name : Names \cup Outside,
     type : RRTypes \ {"SOA"}, data : Data, ttl : TTLs]
        \cup [class : {"IN", "NONE"}, name : Names \cup Outside,
              type : {"SOA"}, data : Serials, ttl : TTLs]
        \cup [class : Classes \ {"IN"}, name : Names \cup Outside,
              type : RRTypes \cup MetaTypes, data : {NoData}, ttl : TTLs]
        \cup [class : {"IN"}, name : Names \cup Outside,
              type : MetaTypes, data : {NoData}, ttl : TTLs]

AsRR(u) == [name |-> u.name, type |-> u.type, data |-> u.data, ttl |-> u.ttl]

-----------------------------------------------------------------------------
(* Lookups in a zone.                                                      *)

inZone(n) == n \in Names

SOAs(z)    == {rr \in z : rr.type = "SOA"}
hasSOA(z)  == SOAs(z) # {}
soaOf(z)   == CHOOSE rr \in SOAs(z) : TRUE
serialOf(z) == IF hasSOA(z) THEN soaOf(z).data ELSE 0

rrsetOf(z, n, t) == {rr \in z : rr.name = n /\ rr.type = t}
nameInUse(z, n)  == \E rr \in z : rr.name = n

(* The identity RFC 2136 compares by: everything but the TTL (rdataKey).   *)
sameRR(rr, u) == rr.name = u.name /\ rr.type = u.type /\ rr.data = u.data

(* A slip: the TTL taken for part of a record's identity.                  *)
matchingExactly(z, u) == {rr \in z : sameRR(rr, u) /\ rr.ttl = u.ttl}

matching(z, u) == {rr \in z : sameRR(rr, u)}

hasCNAME(z, n) == rrsetOf(z, n, "CNAME") # {}
hasNonCNAME(z, n) ==
    \E rr \in z : rr.name = n /\ rr.type \notin {"CNAME", "RRSIG"}

-----------------------------------------------------------------------------
(* Section 3.2: prerequisites, section 3.4.1: the prescan.  Both walk their *)
(* section in order and report the first record that fails.                *)

FirstFailure(rcodes) ==
    IF \A i \in DOMAIN rcodes : rcodes[i] = "NOERROR"
      THEN "NOERROR"
      ELSE rcodes[CHOOSE i \in DOMAIN rcodes :
                    /\ rcodes[i] # "NOERROR"
                    /\ \A j \in DOMAIN rcodes : j < i => rcodes[j] = "NOERROR"]

PrereqRcode(z, p) ==
    CASE p.ttl # 0                                   -> "FORMERR"
      [] p.ttl = 0 /\ ~inZone(p.name)                -> "NOTZONE"
      [] p.ttl = 0 /\ inZone(p.name) /\ p.class = "IN" -> "NOERROR"
      [] OTHER ->
           LET exists == IF p.type = "ANY" THEN nameInUse(z, p.name)
                                           ELSE rrsetOf(z, p.name, p.type) # {}
           IN  CASE p.class \notin {"ANY", "NONE"} \/ p.data # NoData -> "FORMERR"
                 [] p.class = "ANY" /\ p.data = NoData /\ ~exists ->
                      IF p.type = "ANY" THEN "NXDOMAIN" ELSE "NXRRSET"
                 [] p.class = "NONE" /\ p.data = NoData /\ exists ->
                      IF p.type = "ANY" THEN "YXDOMAIN" ELSE "YXRRSET"
                 [] OTHER -> "NOERROR"

(* Value-dependent prerequisites are compared as whole RRsets: the same    *)
(* records, each one once, TTLs ignored.                                   *)
sameRRset(have, want) ==
    /\ Cardinality(have) = Len(want)
    /\ \A rr \in have : \E i \in DOMAIN want : sameRR(rr, want[i])

checkPrereqs(z, prereqs) ==
    LET first == FirstFailure([i \in DOMAIN prereqs |-> PrereqRcode(z, prereqs[i])])
        valued(n, t) == SelectSeq(prereqs, LAMBDA p :
                            p.class = "IN" /\ p.name = n /\ p.type = t)
    IN  IF first # "NOERROR" THEN first
        ELSE IF \A i \in DOMAIN prereqs :
                    prereqs[i].class = "IN" =>
                        LET n == prereqs[i].name
                            t == prereqs[i].type
                        IN  sameRRset(rrsetOf(z, n, t), valued(n, t))
             THEN "NOERROR"
             ELSE "NXRRSET"

PrescanRcode(u, enforceMutable) ==
    CASE ~inZone(u.name) -> "NOTZONE"
      [] inZone(u.name) /\ ~ \/ u.class = "IN"   /\ u.type \notin MetaTypes
                             \/ u.class = "NONE" /\ u.type \notin MetaTypes /\ u.ttl = 0
                             \/ /\ u.class = "ANY" /\ u.type # "AXFR"
                                /\ u.ttl = 0 /\ u.data = NoData -> "FORMERR"
      [] OTHER -> IF enforceMutable /\ u.type # "ANY" /\ u.type \notin Mutable
                    THEN "REFUSED" ELSE "NOERROR"

prescan(updates, enforceMutable) ==
    FirstFailure([i \in DOMAIN updates |-> PrescanRcode(updates[i], enforceMutable)])

-----------------------------------------------------------------------------
(* Section 3.4.2: what one record of the update section does.              *)

(* A slip: CNAME exclusivity enforced one way only.                        *)
AddRROneWay(z, u) ==
    IF u.type = "SOA" \/ (u.type # "CNAME" /\ hasCNAME(z, u.name))
      THEN z
      ELSE (z \ matching(z, u)) \cup {AsRR(u)}

(* A SOA replaces the current one only when its serial is greater; every   *)
(* other add is skipped where a CNAME and another type would share a name, *)
(* and otherwise appends the record or updates its TTL.                    *)
AddRR(z, u) ==
    IF u.type = "SOA"
      THEN IF hasSOA(z) /\ serialGreater(u.data, soaOf(z).data)
             THEN (z \ {soaOf(z)}) \cup {AsRR(u)}
             ELSE z
      ELSE IF \/ u.type = "CNAME" /\ hasNonCNAME(z, u.name)
              \/ u.type # "CNAME" /\ hasCNAME(z, u.name)
             THEN z
             ELSE (z \ matching(z, u)) \cup {AsRR(u)}

(* Class ANY removes an RRset, or all of them; SOA and NS stay at the apex. *)
DeleteRRset(z, u) ==
    {rr \in z : \/ rr.name # u.name
                \/ u.type # "ANY" /\ rr.type # u.type
                \/ u.name = Apex /\ rr.type \in {"SOA", "NS"}}

(* A slip: the last name server counted wrong.                             *)
DeleteRROffByOne(z, u) ==
    IF u.name = Apex /\ \/ u.type = "SOA"
                        \/ u.type = "NS" /\ Cardinality(rrsetOf(z, Apex, "NS")) < 1
      THEN z
      ELSE z \ matching(z, u)

(* Class NONE removes one record, but not the apex SOA or the last apex NS. *)
DeleteRR(z, u) ==
    IF u.name = Apex /\ \/ u.type = "SOA"
                        \/ u.type = "NS" /\ Cardinality(rrsetOf(z, Apex, "NS")) <= 1
      THEN z
      ELSE z \ matching(z, u)

ApplyRR(z, u) ==
    CASE u.class = "IN"   -> AddRR(z, u)
      [] u.class = "ANY"  -> DeleteRRset(z, u)
      [] u.class = "NONE" -> DeleteRR(z, u)
      [] OTHER            -> z

(* A slip: the serial left to the client.                                  *)
bumpSerialNever(z) == z

(* The server advances the serial of a zone an update has changed.         *)
bumpSerial(z) ==
    {IF rr.type = "SOA" THEN [rr EXCEPT !.data = NextSerial(rr.data)] ELSE rr : rr \in z}

-----------------------------------------------------------------------------
(* Admin HTTP edits.  A request's records arrive split the way             *)
(* httpUpdatesLocked splits them, which keeps the order inside each part   *)
(* and drops the order between parts: adds of apex NS, of the apex SOA and *)
(* of anything else; deletes of single apex NS records and of anything     *)
(* else; and whether the apex NS set or the SOA is to be wiped.            *)

AddOf(t)  == {u \in UpdateRR : u.class = "IN" /\ u.name = Apex /\ u.type = t}
Adds      == {u \in UpdateRR : u.class = "IN"} \ (AddOf("SOA") \cup AddOf("NS"))
Deletes   == {u \in UpdateRR : u.class \in {"ANY", "NONE"}}

HttpRequest ==
    [others : Seq(Adds), soas : Seq(AddOf("SOA")), nss : Seq(AddOf("NS")),
     early : Seq(Deletes), nsDels : Seq(Deletes),
     wipeNS : BOOLEAN, wipeSOA : BOOLEAN]

(* A wipe without a replacement is refused.                                *)
httpRefused(z, q) ==
    \/ q.wipeSOA /\ q.soas = << >>
    \/ q.wipeNS /\ q.nss = << >>
    \/ q.soas # << >> /\ ~hasSOA(z)

(* A SOA that would not be greater is given the current serial plus one.   *)
RaiseSerial(z, u) ==
    IF serialGreater(u.data, soaOf(z).data)
      THEN u
      ELSE [u EXCEPT !.data = NextSerial(soaOf(z).data)]

(* The apex NS records a wipe deletes: those the request does not add.     *)
wipedNS(z, q) ==
    {[class |-> "NONE", name |-> rr.name, type |-> rr.type, data |-> rr.data, ttl |-> 0] :
        rr \in {ns \in rrsetOf(z, Apex, "NS") :
                  \A i \in DOMAIN q.nss : ~sameRR(ns, q.nss[i])}}

(* A slip: name servers deleted before their replacements are there.       *)
httpUpdatesDeleteFirst(z, q) ==
    {q.early \o q.others \o dels \o q.nss :
        dels \in {s \in [1 .. Cardinality(wipedNS(z, q)) -> wipedNS(z, q)] :
                    \A i, j \in DOMAIN s : i # j => s[i] # s[j]}}

(* The update sections an HTTP request is rewritten into, one for every    *)
(* order the zone may list its name servers in.  Name servers are added    *)
(* before any is deleted, so that the last one can be replaced.            *)
httpUpdates(z, q) ==
    LET soas   == [i \in DOMAIN q.soas |-> RaiseSerial(z, q.soas[i])]
        wiped  == wipedNS(z, q)
        orders == IF q.wipeNS
                    THEN {s \in [1 .. Cardinality(wiped) -> wiped] :
                            \A i, j \in DOMAIN s : i # j => s[i] # s[j]}
                    ELSE {q.nsDels}
    IN  {q.early \o q.others \o soas \o q.nss \o dels : dels \in orders}

-----------------------------------------------------------------------------
(* What makes a set of records a zone.                                     *)

OneSOA(z)     == \A a, b \in z : a.type = "SOA" /\ b.type = "SOA" => a = b
SOAAtApex(z)  == \A rr \in z : rr.type = "SOA" => rr.name = Apex
HasApexNS(z)  == rrsetOf(z, Apex, "NS") # {}
KeepsApex(z)  == hasSOA(z) /\ OneSOA(z) /\ SOAAtApex(z) /\ HasApexNS(z)
NoTwins(z)    == \A a, b \in z : sameRR(a, b) => a = b
CNAMEAlone(z) ==
    \A a, b \in z : a.name = b.name /\ a.type = "CNAME" => b.type \in {"CNAME", "RRSIG"}

=============================================================================
