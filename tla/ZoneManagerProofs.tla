-------------------------- MODULE ZoneManagerProofs --------------------------
(***************************************************************************)
(* Theorems about ZoneManager, for any ACLs, any Corefiles and any number  *)
(* of requests and crashes: the types, where the copies of a zone are      *)
(* while no request is under way, and that clients are answered from what  *)
(* was acknowledged.                                                       *)
(***************************************************************************)
EXTENDS ZoneManager, FiniteSetTheorems, SequenceTheorems, WellFoundedInduction, TLAPS

(* Where the start-up, and where a request of each kind, can be.           *)
Importing == {"import", "import view row", "import zone", "import new zone", "import acl",
              "import new view", "import apex"}
Early   == {"register"} \cup Importing
StartPC == Early \cup {"strip", "origins", "apex", "load", "load views", "up"}
Loaded  == start.pc \in {"load views", "up"}

CreateSteps == {"write rows", "register", "publish", "write zone"}
DeleteSteps == {"delete primary", "unregister", "drop views", "drop rows", "delete rows",
                "delete view rows", "delete zone row"}
DropSteps   == {"delete acl rows", "delete acl views", "forget view", "delete acl"}
RenameSteps == {"rename acl", "rename view rows", "rename rows", "rename views"}
EditSteps   == {"record zone", "seed view", "view row", "put view", "apply"}
Steps == {"idle", "insert acl"} \cup CreateSteps \cup DeleteSteps \cup DropSteps
           \cup RenameSteps \cup EditSteps

(* The requests a worker can hold; a move that is half done has only its   *)
(* second edit left.                                                       *)
Halves == {Ask("move", v, u, <<Adding(u, r)>>) : v \in Views, u \in Views, r \in Records}
Asked  == Requests \cup {NoRequest} \cup Halves

Editing(x) == Head(x.req.todo).view

(* A request is at a step of its own kind, and the steps that use a zone   *)
(* in memory or make a view have one.                                      *)
WorkerOK(x) ==
    /\ x \in [pc : Steps, req : Asked, obj : Objects \cup {None}, seed : SUBSET Records,
              drop : SUBSET ACLNames]
    /\ x.pc = "idle" => x = Idle
    /\ x.pc \in CreateSteps <=> x.req.op = "create"
    /\ x.pc \in DeleteSteps <=> x.req.op = "delete"
    /\ x.pc = "insert acl" <=> x.req.op = "createACL"
    /\ x.pc \in DropSteps <=> x.req.op = "deleteACL"
    /\ x.pc \in RenameSteps <=> x.req.op = "renameACL"
    /\ x.pc \in EditSteps <=> x.req.op \in {"edit", "move"}
    /\ x.pc \in {"publish", "apply"} => x.obj # None
    /\ x.pc \in {"seed view", "view row", "put view"} => Editing(x) \in ACLNames

(* The import is at a block that is there, and at one of a view where it   *)
(* writes a view's row.                                                    *)
StartOK ==
    /\ start \in [pc : StartPC, block : 1 .. Len(cfg.core) + 1]
    /\ start.pc \in Importing \ {"import"} => start.block \in DOMAIN core
    /\ start.pc \in {"import view row", "import acl", "import new view", "import apex"}
         => Ref.view \in ACLNames

StoreOK ==
    /\ rows \in [Views -> Data] /\ zone \in BOOLEAN /\ zviews \subseteq ACLNames
    /\ acls \in Seq(ACLNames) /\ IsInjective(acls)

Zones == [data : SUBSET Records, target : Views, source : {"admin", "corefile"}]

MemoryOK ==
    /\ obj \in [Objects -> Zones]
    /\ reg \in Objects \cup {None} /\ primary \in Objects \cup {None}
    /\ views \in [ACLNames -> Objects \cup {None}]

WorkersOK ==
    /\ DOMAIN worker = Workers /\ \A w \in Workers : WorkerOK(worker[w])
    /\ start.pc # "up" => \A w \in Workers : worker[w] = Idle

(* TypeOK, with what a step relies on: requests wait for the end of the    *)
(* start-up, and each is where its kind can be.                            *)
TypeInv ==
    /\ cfg \in Configs /\ core \in {<<>>, cfg.core}
    /\ StoreOK /\ MemoryOK /\ StartOK /\ WorkersOK
    /\ want \in [Views -> Data \cup {Unknown}]
    /\ requests \in 0 .. MaxRequests /\ crashes \in 0 .. MaxCrashes

(* The two marks are no contents of a zone.                                *)
LEMMA DataFacts ==
    /\ NoZone \notin SUBSET Records /\ Unknown \notin Data /\ NoZone \in Data
    /\ SUBSET Records \subseteq Data /\ {} \in SUBSET Records /\ {} # NoZone
    /\ \A d \in Data : d # NoZone => d \in SUBSET Records
    /\ "public" \in Views /\ ACLNames \subseteq Views /\ "public" \notin ACLNames
    /\ \A v \in Views : v # "public" => v \in ACLNames
<1>1. "no zone" \notin Records /\ "unknown" \notin Records /\ "unknown" # "no zone"
  BY DEF Records
<1> QED BY <1>1, ManagerAssumption DEF NoZone, Unknown, Data, Views

(* An ACL added at the end, and one taken out, leave the others in place,  *)
(* each once; a new name may take an old one's position.                   *)
LEMMA AppendFacts ==
  ASSUME NEW S, NEW s \in Seq(S), IsInjective(s), NEW a \in S, a \notin ToSet(s)
  PROVE  /\ Append(s, a) \in Seq(S) /\ IsInjective(Append(s, a))
         /\ ToSet(Append(s, a)) = ToSet(s) \cup {a}
<1> DEFINE t == Append(s, a)
<1>1. /\ t \in Seq(S) /\ Len(t) = Len(s) + 1 /\ DOMAIN t = 1 .. Len(s) + 1
      /\ DOMAIN s = 1 .. Len(s) /\ Len(s) \in Nat
      /\ \A i \in 1 .. Len(s) : t[i] = s[i] /\ t[Len(s) + 1] = a
  OBVIOUS
<1>2. t[Len(s) + 1] = a OBVIOUS
<1>3. \A i \in 1 .. Len(s) : s[i] # a BY <1>1 DEF ToSet
<1> HIDE DEF t
<1>4. IsInjective(t) BY <1>1, <1>2, <1>3 DEF IsInjective
<1>5. ToSet(t) = ToSet(s) \cup {a} BY <1>1, <1>2 DEF ToSet
<1> QED BY <1>1, <1>4, <1>5 DEF t

LEMMA RemoveFacts ==
  ASSUME NEW S, NEW s \in Seq(S), IsInjective(s), NEW k \in DOMAIN s
  PROVE  /\ RemoveAt(s, k) \in Seq(S) /\ IsInjective(RemoveAt(s, k))
         /\ ToSet(RemoveAt(s, k)) = ToSet(s) \ {s[k]}
<1> DEFINE t == RemoveAt(s, k)
<1>1. Len(s) \in Nat /\ DOMAIN s = 1 .. Len(s) /\ k \in 1 .. Len(s) OBVIOUS
<1> DEFINE l == SubSeq(s, 1, k - 1)
           r == SubSeq(s, k + 1, Len(s))
<1>l. /\ l \in Seq(S) /\ Len(l) = k - 1 /\ \A i \in 1 .. k - 1 : l[i] = s[i]
  BY <1>1
<1>r. /\ r \in Seq(S) /\ Len(r) = Len(s) - k /\ \A i \in 1 .. Len(s) - k : r[i] = s[i + k]
  BY <1>1
<1>t. t = l \o r BY DEF RemoveAt
<1> HIDE DEF l, r, t
<1>2. /\ t \in Seq(S) /\ Len(t) = Len(s) - 1 /\ DOMAIN t = 1 .. Len(s) - 1
      /\ \A i \in 1 .. Len(s) - 1 : t[i] = IF i < k THEN s[i] ELSE s[i + 1]
  <2>1. t \in Seq(S) /\ Len(t) = Len(l) + Len(r) BY <1>l, <1>r, <1>t, ConcatProperties
  <2>2. Len(t) = Len(s) - 1 /\ DOMAIN t = 1 .. Len(s) - 1 BY <1>1, <1>l, <1>r, <2>1
  <2>3. \A i \in 1 .. Len(t) : t[i] = IF i <= Len(l) THEN l[i] ELSE r[i - Len(l)]
    BY <1>l, <1>r, <1>t
  <2>4. ASSUME NEW i \in 1 .. Len(s) - 1 PROVE t[i] = IF i < k THEN s[i] ELSE s[i + 1]
    <3>1. t[i] = IF i <= Len(l) THEN l[i] ELSE r[i - Len(l)] BY <2>2, <2>3
    <3>2. CASE i < k BY <1>1, <1>l, <3>1, <3>2
    <3>3. CASE ~(i < k)
      <4>1. i - (k - 1) \in 1 .. Len(s) - k /\ i - (k - 1) + k = i + 1 /\ ~(i <= k - 1)
        BY <1>1, <3>3
      <4> QED BY <1>l, <1>r, <3>1, <3>3, <4>1
    <3> QED BY <3>2, <3>3
  <2> QED BY <2>1, <2>2, <2>4
<1>3. IsInjective(t)
  <2> SUFFICES ASSUME NEW i \in 1 .. Len(s) - 1, NEW j \in 1 .. Len(s) - 1, t[i] = t[j]
               PROVE  i = j
    BY <1>2 DEF IsInjective
  <2>1. \A m, n \in 1 .. Len(s) : s[m] = s[n] => m = n BY <1>1 DEF IsInjective
  <2>2. t[i] = (IF i < k THEN s[i] ELSE s[i + 1]) /\ t[j] = (IF j < k THEN s[j] ELSE s[j + 1])
    BY <1>2
  <2>3. /\ i \in 1 .. Len(s) /\ i + 1 \in 1 .. Len(s) /\ j \in 1 .. Len(s) /\ j + 1 \in 1 .. Len(s)
    BY <1>1
  <2>4. PICK m \in 1 .. Len(s) : t[i] = s[m] /\ m = IF i < k THEN i ELSE i + 1 BY <2>2, <2>3
  <2>5. PICK n \in 1 .. Len(s) : t[j] = s[n] /\ n = IF j < k THEN j ELSE j + 1 BY <2>2, <2>3
  <2>6. m = n BY <2>1, <2>4, <2>5
  <2>7. i \in Nat /\ j \in Nat /\ k \in Nat BY <1>1, <2>3
  <2> QED BY <2>4, <2>5, <2>6, <2>7
<1>4. ASSUME NEW x \in ToSet(t) PROVE x \in ToSet(s) \ {s[k]}
  BY <1>1, <1>2, <1>4 DEF ToSet, IsInjective
<1>5. ASSUME NEW x \in ToSet(s) \ {s[k]} PROVE x \in ToSet(t)
  <2>1. PICK i \in 1 .. Len(s) : s[i] = x /\ i # k BY <1>1, <1>5 DEF ToSet
  <2>2. CASE i < k BY <1>1, <1>2, <2>1, <2>2 DEF ToSet
  <2>3. CASE i > k
    <3>1. i - 1 \in DOMAIN t /\ t[i - 1] = x BY <1>1, <1>2, <2>1, <2>3
    <3> QED BY <3>1 DEF ToSet
  <2> QED BY <2>1, <2>2, <2>3
<1> QED BY <1>2, <1>3, <1>4, <1>5 DEF t

LEMMA RenameFacts ==
  ASSUME NEW S, NEW s \in Seq(S), IsInjective(s), NEW a \in S, NEW b \in S, b \notin ToSet(s),
         NEW t \in [DOMAIN s -> S], \A i \in DOMAIN s : t[i] = IF s[i] = a THEN b ELSE s[i]
  PROVE  /\ t \in Seq(S) /\ IsInjective(t)
<1>1. Len(s) \in Nat /\ DOMAIN s = 1 .. Len(s) /\ \A i \in 1 .. Len(s) : s[i] \in S OBVIOUS
<1>2. t \in Seq(S)
  <2>1. t \in [1 .. Len(s) -> S] BY <1>1
  <2> QED BY <2>1, <1>1
<1>3. DOMAIN t = DOMAIN s /\ \A i \in DOMAIN s : t[i] = IF s[i] = a THEN b ELSE s[i] OBVIOUS
<1>4. \A i \in DOMAIN s : s[i] # b BY DEF ToSet
<1>5. IsInjective(t) BY <1>3, <1>4 DEF IsInjective
<1> QED BY <1>2, <1>5

EditOK(e) == e \in [view : Views, add : SUBSET Records, del : SUBSET Records]

LEMMA EditFacts ==
  ASSUME NEW v \in Views, NEW q \in Records
  PROVE  /\ EditOK(Adding(v, q)) /\ EditOK(Removing(v, q))
         /\ \A p \in Records : EditOK(Replacing(v, q, p))
BY DEF EditOK, Adding, Removing, Replacing

(* What a request under way looks like.                                    *)
LEMMA AskedFacts ==
  ASSUME NEW r \in Asked
  PROVE  /\ r \in [op : {"none", "create", "delete", "createACL", "deleteACL", "renameACL",
                         "edit", "move"},
                   acl : Views, to : Views, todo : Seq([view : Views, add : SUBSET Records,
                                                        del : SUBSET Records])]
         /\ r.op \in {"createACL", "deleteACL", "renameACL"} => r.acl \in ACLNames /\ r.to \in ACLNames
         /\ r.op \in {"edit", "move"} => /\ Len(r.todo) \in {1, 2} /\ EditOK(Head(r.todo))
                                         /\ r.todo # <<>>
         /\ r.op = "none" <=> r = NoRequest
         /\ r.op \in {"edit", "move"} /\ Len(r.todo) # 1 =>
              r.op = "move" /\ [r EXCEPT !.todo = Tail(r.todo)] \in Halves
<1> DEFINE Ed == [view : Views, add : SUBSET Records, del : SUBSET Records]
<1> DEFINE Whole == \E op \in {"create", "delete"} : r = Ask(op, "public", "public", <<>>)
           OfACL == \E op \in {"createACL", "deleteACL"}, a \in ACLNames : r = Ask(op, a, a, <<>>)
           Naming == \E a, b \in ACLNames : r = Ask("renameACL", a, b, <<>>)
           Single == \E op \in {"edit", "move"}, x \in Views, y \in Views, v \in Views,
                        q \in Records, p \in Records :
                       \/ r = Ask(op, x, y, <<Adding(v, q)>>)
                       \/ r = Ask(op, x, y, <<Removing(v, q)>>)
                       \/ r = Ask(op, x, y, <<Replacing(v, q, p)>>)
           Double == \E v \in Views, u \in Views, q \in Records :
                       r = Ask("move", v, u, <<Removing(v, q), Adding(u, q)>>)
<1>0. /\ "public" \in Views /\ ACLNames \subseteq Views
      /\ \A q \in Records : {q} \in SUBSET Records /\ {} \in SUBSET Records
  BY DEF Views
<1>e. <<>> \in Seq(Ed) OBVIOUS
<1>1. CASE r = NoRequest
  BY <1>0, <1>e, <1>1 DEF NoRequest, Ask
<1>2. CASE Whole
  BY <1>0, <1>e, <1>2 DEF NoRequest, Ask
<1>3. CASE OfACL
  BY <1>0, <1>e, <1>3 DEF NoRequest, Ask
<1>4. CASE Naming
  BY <1>0, <1>e, <1>4 DEF NoRequest, Ask
<1>5. CASE Single
  <2>1. PICK op \in {"edit", "move"}, x \in Views, y \in Views, v \in Views,
             q \in Records, p \in Records :
             \/ r = Ask(op, x, y, <<Adding(v, q)>>)
             \/ r = Ask(op, x, y, <<Removing(v, q)>>)
             \/ r = Ask(op, x, y, <<Replacing(v, q, p)>>)
    BY <1>5
  <2>2. PICK e \in Ed : r = Ask(op, x, y, <<e>>)
    BY <1>0, <2>1, EditFacts DEF EditOK
  <2>3. <<e>> \in Seq(Ed) /\ Len(<<e>>) = 1 /\ Head(<<e>>) = e /\ <<e>> # <<>> OBVIOUS
  <2> QED BY <1>0, <2>2, <2>3 DEF EditOK, NoRequest, Ask
<1>6. CASE Double
  <2>1. PICK v \in Views, u \in Views, q \in Records :
             r = Ask("move", v, u, <<Removing(v, q), Adding(u, q)>>)
    BY <1>6
  <2> DEFINE e == Removing(v, q)
             f == Adding(u, q)
  <2>2. e \in Ed /\ f \in Ed BY <1>0, EditFacts DEF EditOK
  <2>h. Ask("move", v, u, <<f>>) \in Halves
    <3>1. \E z \in Views, x \in Views, y \in Records :
            Ask("move", v, u, <<f>>) = Ask("move", z, x, <<Adding(x, y)>>)
      BY <2>1
    <3> QED BY <3>1 DEF Halves
  <2>3. r = Ask("move", v, u, <<e, f>>) BY <2>1
  <2> HIDE DEF e, f
  <2>4. /\ <<e, f>> \in Seq(Ed) /\ Len(<<e, f>>) = 2 /\ Head(<<e, f>>) = e /\ <<e, f>> # <<>>
        /\ Tail(<<e, f>>) = <<f>>
    BY <2>2
  <2>5. [r EXCEPT !.todo = Tail(r.todo)] = Ask("move", v, u, <<f>>)
    <3>1. r.todo = <<e, f>> BY <2>3 DEF Ask
    <3>2. Tail(r.todo) = <<f>> BY <2>4, <3>1
    <3> QED BY <2>3, <3>2 DEF Ask
  <2> QED BY <1>0, <2>2, <2>h, <2>3, <2>4, <2>5 DEF EditOK, NoRequest, Ask
<1>7. ASSUME r \in Requests PROVE Whole \/ OfACL \/ Naming \/ Single \/ Double
  <2> DEFINE S1 == {Ask("create", "public", "public", <<>>), Ask("delete", "public", "public", <<>>)}
             S2 == {Ask(op, a, a, <<>>) : op \in {"createACL", "deleteACL"}, a \in ACLNames}
             S3 == {Ask("renameACL", a, b, <<>>) : a \in ACLNames, b \in ACLNames}
             S4 == {Ask("edit", "public", "public", <<Adding(v, q)>>) : v \in Views, q \in Records}
             S5 == {Ask("edit", "public", "public", <<Removing(v, q)>>) : v \in Views, q \in Records}
             S6 == {m \in {Ask("move", v, u, <<Removing(v, q), Adding(u, q)>>) :
                      v \in Views, u \in Views, q \in Records} : m.acl # m.to}
             S7 == {Ask("edit", "public", "public", <<Replacing(v, q, p)>>) :
                      v \in Views, q \in Records, p \in Records}
  <2>0. Requests = S1 \cup S2 \cup S3 \cup S4 \cup S5 \cup S7 \cup S6 BY DEF Requests
  <2>1. r \in S1 => Whole OBVIOUS
  <2>2. r \in S2 => OfACL OBVIOUS
  <2>3. r \in S3 => Naming OBVIOUS
  <2>4. r \in S4 => Single BY <1>0
  <2>6. r \in S5 => Single BY <1>0
  <2>7. r \in S7 => Single BY <1>0
  <2>5. r \in S6 => Double OBVIOUS
  <2> HIDE DEF S1, S2, S3, S4, S5, S6, S7, Whole, OfACL, Naming, Single, Double
  <2> QED BY <1>7, <2>0, <2>1, <2>2, <2>3, <2>4, <2>5, <2>6, <2>7
<1>8. ASSUME r \in Halves PROVE Single
  <2>1. PICK v \in Views, u \in Views, q \in Records : r = Ask("move", v, u, <<Adding(u, q)>>)
    BY <1>8 DEF Halves
  <2> QED BY <2>1
<1> QED BY <1>1, <1>2, <1>3, <1>4, <1>5, <1>6, <1>7, <1>8 DEF Asked

(* A block that names a zone file is one of the two kinds, so none is left. *)
LEMMA StripFacts ==
  ASSUME NEW s \in Seq(Block)
  PROVE  stripZonefileBlocks(s) = <<>>
<1>1. {i \in DOMAIN s : s[i].plugin \notin {"file", "dns-update-persistent"}} = {}
  <2>1. \A i \in DOMAIN s : s[i] \in Block OBVIOUS
  <2> QED BY <2>1 DEF Block
<1> QED BY <1>1 DEF stripZonefileBlocks, Restrict

(* There is room for one zone more than anything points to: the registry,  *)
(* the public zone and each view and worker point to one each.             *)
LEMMA UnionBound ==
  ASSUME NEW S, IsFiniteSet(S), NEW T, IsFiniteSet(T)
  PROVE  /\ IsFiniteSet(S \cup T) /\ Cardinality(S \cup T) \in Nat
         /\ Cardinality(S) \in Nat /\ Cardinality(T) \in Nat
         /\ Cardinality(S \cup T) <= Cardinality(S) + Cardinality(T)
<1>1. IsFiniteSet(S \cup T) BY FS_Union
<1>2. IsFiniteSet(S \cap T) /\ S \cap T \in SUBSET S BY FS_Subset
<1>3. Cardinality(S) \in Nat /\ Cardinality(T) \in Nat /\ Cardinality(S \cap T) \in Nat
      /\ Cardinality(S \cup T) \in Nat
  BY <1>1, <1>2, FS_CardinalityType
<1>4. Cardinality(S \cup T) = Cardinality(S) + Cardinality(T) - Cardinality(S \cap T)
  BY FS_Union
<1> QED BY <1>1, <1>3, <1>4

LEMMA ImageBound ==
  ASSUME NEW S, IsFiniteSet(S), NEW f, DOMAIN f = S
  PROVE  /\ IsFiniteSet({f[x] : x \in S})
         /\ Cardinality({f[x] : x \in S}) <= Cardinality(S)
<1>1. [x \in S |-> f[x]] \in Surjection(S, {f[x] : x \in S}) BY DEF Surjection
<1> QED BY <1>1, FS_Surjection

(* There is always a zone object that nothing points to.                   *)
LEMMA FreshFacts ==
  ASSUME DOMAIN worker = Workers
  PROVE  Fresh \in Objects /\ Fresh \notin Referenced /\ Fresh # None
<1> DEFINE V == {views[a] : a \in ACLNames}
           W == {worker[w].obj : w \in Workers}
<1>0. Cardinality(ACLNames) \in Nat /\ Cardinality(Workers) \in Nat
  BY FS_CardinalityType, ManagerAssumption
<1>1. IsFiniteSet(V) /\ Cardinality(V) <= Cardinality(ACLNames)
  <2> DEFINE f == [a \in ACLNames |-> views[a]]
  <2>1. DOMAIN f = ACLNames /\ V = {f[a] : a \in ACLNames} OBVIOUS
  <2> HIDE DEF f, V
  <2> QED BY <2>1, ImageBound, ManagerAssumption
<1>2. IsFiniteSet(W) /\ Cardinality(W) <= Cardinality(Workers)
  <2> DEFINE f == [w \in Workers |-> worker[w].obj]
  <2>1. DOMAIN f = Workers /\ W = {f[w] : w \in Workers} OBVIOUS
  <2> HIDE DEF f, W
  <2> QED BY <2>1, ImageBound, ManagerAssumption
<1>3. IsFiniteSet({reg, primary}) /\ Cardinality({reg, primary}) <= 2
  <2>1. {reg, primary} = {reg} \cup {primary} OBVIOUS
  <2>2. Cardinality({reg}) = 1 /\ Cardinality({primary}) = 1 BY FS_Singleton
  <2>3. IsFiniteSet({reg}) /\ IsFiniteSet({primary}) BY FS_Singleton
  <2>4. IsFiniteSet({reg} \cup {primary}) /\ Cardinality({reg} \cup {primary}) <= 1 + 1
    BY <2>2, <2>3, UnionBound
  <2> QED BY <2>1, <2>4
<1> HIDE DEF V, W
<1>4. /\ IsFiniteSet({reg, primary} \cup V)
      /\ Cardinality({reg, primary} \cup V) <= 2 + Cardinality(ACLNames)
      /\ Cardinality({reg, primary} \cup V) \in Nat
  <2>1. /\ IsFiniteSet({reg, primary} \cup V) /\ Cardinality({reg, primary} \cup V) \in Nat
        /\ Cardinality({reg, primary} \cup V) <= Cardinality({reg, primary}) + Cardinality(V)
        /\ Cardinality({reg, primary}) \in Nat /\ Cardinality(V) \in Nat
    BY <1>1, <1>3, UnionBound
  <2> QED BY <1>0, <1>1, <1>3, <2>1
<1>5. /\ IsFiniteSet(Referenced) /\ Cardinality(Referenced) \in Nat
      /\ Cardinality(Referenced) <= 2 + Cardinality(ACLNames) + Cardinality(Workers)
  <2>1. Referenced = ({reg, primary} \cup V) \cup W BY DEF Referenced, V, W
  <2>2. /\ IsFiniteSet(Referenced) /\ Cardinality(Referenced) \in Nat
        /\ Cardinality(Referenced) <= Cardinality({reg, primary} \cup V) + Cardinality(W)
        /\ Cardinality(W) \in Nat
    BY <1>2, <1>4, <2>1, UnionBound
  <2> QED BY <1>0, <1>2, <1>4, <2>2
<1>6. Cardinality(Objects) = 3 + Cardinality(ACLNames) + Cardinality(Workers)
  <2> DEFINE n == 3 + Cardinality(ACLNames) + Cardinality(Workers)
  <2>1. n \in Int /\ 1 \in Int /\ ~(1 > n) /\ n - 1 + 1 = n BY <1>0
  <2> HIDE DEF n
  <2>2. Cardinality(1 .. n) = n BY <2>1, FS_Interval
  <2> QED BY <2>2 DEF n, Objects
<1>7. ~(Objects \subseteq Referenced)
  <2>1. SUFFICES ASSUME Objects \in SUBSET Referenced PROVE FALSE OBVIOUS
  <2>2. Cardinality(Objects) <= Cardinality(Referenced) BY <1>5, <2>1, FS_Subset
  <2> QED BY <1>0, <1>5, <1>6, <2>2
<1>8. Fresh \in Objects /\ Fresh \notin Referenced BY <1>7 DEF Fresh
<1> QED BY <1>0, <1>8 DEF Objects, None

(* A request's step changes its own worker only.                           *)
LEMMA WorkerStep ==
  ASSUME WorkersOK, start.pc = "up", start' = start, NEW w \in Workers,
         DOMAIN worker' = Workers, \A u \in Workers \ {w} : worker'[u] = worker[u],
         WorkerOK(worker'[w])
  PROVE  WorkersOK'
BY DEF WorkersOK

LEMMA IdleOK == WorkerOK(Idle)
<1>1. NoRequest \in Asked /\ NoRequest.op = "none" BY DEF Asked, NoRequest, Ask
<1> QED BY <1>1 DEF WorkerOK, Idle, Steps, CreateSteps, DeleteSteps, DropSteps, RenameSteps, EditSteps

LEMMA GotoOK ==
  ASSUME NEW w \in Workers, WorkersOK, NEW pc \in Steps, Goto(w, pc),
         \E S \in {CreateSteps, DeleteSteps, DropSteps, RenameSteps, EditSteps} :
           worker[w].pc \in S /\ pc \in S,
         pc \in {"publish", "apply"} => worker[w].obj # None,
         pc \in {"seed view", "view row", "put view"} => Editing(worker[w]) \in ACLNames
  PROVE  /\ DOMAIN worker' = Workers /\ \A u \in Workers \ {w} : worker'[u] = worker[u]
         /\ worker'[w] = [worker[w] EXCEPT !.pc = pc] /\ WorkerOK(worker'[w])
<1>1. DOMAIN worker = Workers /\ WorkerOK(worker[w]) BY DEF WorkersOK
<1>2. /\ DOMAIN worker' = Workers /\ \A u \in Workers \ {w} : worker'[u] = worker[u]
      /\ worker'[w] = [worker[w] EXCEPT !.pc = pc]
  BY <1>1 DEF Goto
<1> DEFINE x == worker[w]
           y == [x EXCEPT !.pc = pc]
<1>3. /\ y.pc = pc /\ y.req = x.req /\ y.obj = x.obj /\ y.seed = x.seed /\ y.drop = x.drop
      /\ y \in [pc : Steps, req : Asked, obj : Objects \cup {None}, seed : SUBSET Records,
                drop : SUBSET ACLNames]
  BY <1>1 DEF WorkerOK
<1>4. Editing(y) = Editing(x) BY <1>3 DEF Editing
<1> HIDE DEF y
<1>5. WorkerOK(y)
  BY <1>1, <1>3, <1>4
     DEF WorkerOK, Steps, CreateSteps, DeleteSteps, DropSteps, RenameSteps, EditSteps
<1> QED BY <1>2, <1>5 DEF y

LEMMA DeleteFacts ==
  ASSUME StoreOK, NEW a,
         acls' = IF a \in ToSet(acls) THEN RemoveAt(acls, CHOOSE i \in DOMAIN acls : acls[i] = a)
                 ELSE acls
  PROVE  acls' \in Seq(ACLNames) /\ IsInjective(acls') /\ ToSet(acls') = ToSet(acls) \ {a}
<1>1. CASE a \in ToSet(acls)
  <2> DEFINE k == CHOOSE i \in DOMAIN acls : acls[i] = a
  <2>1. k \in DOMAIN acls /\ acls[k] = a BY <1>1 DEF ToSet
  <2> HIDE DEF k
  <2>2. acls' = RemoveAt(acls, k) BY <1>1 DEF k
  <2> QED BY <2>1, <2>2, RemoveFacts DEF StoreOK
<1>2. CASE a \notin ToSet(acls) BY <1>2 DEF StoreOK
<1> QED BY <1>1, <1>2

LEMMA RenamedFacts ==
  ASSUME StoreOK, NEW a \in ACLNames, NEW b \in ACLNames, b \notin ToSet(acls),
         acls' = [i \in DOMAIN acls |-> IF acls[i] = a THEN b ELSE acls[i]]
  PROVE  /\ acls' \in Seq(ACLNames) /\ IsInjective(acls')
         /\ ToSet(acls') = IF a \in ToSet(acls) THEN (ToSet(acls) \ {a}) \cup {b} ELSE ToSet(acls)
<1>1. acls \in Seq(ACLNames) /\ IsInjective(acls) BY DEF StoreOK
<1>2. \A i \in DOMAIN acls : acls[i] \in ACLNames BY <1>1
<1>3. /\ acls' \in [DOMAIN acls -> ACLNames]
      /\ \A i \in DOMAIN acls : acls'[i] = IF acls[i] = a THEN b ELSE acls[i]
  BY <1>2
<1>4. acls' \in Seq(ACLNames) /\ IsInjective(acls') BY <1>1, <1>3, RenameFacts
<1>n. DOMAIN acls' = DOMAIN acls /\ \A i \in DOMAIN acls : acls[i] # b BY <1>3 DEF ToSet
<1>5. ASSUME a \in ToSet(acls) PROVE ToSet(acls') = (ToSet(acls) \ {a}) \cup {b}
  BY <1>3, <1>5, <1>n DEF ToSet
<1>6. ASSUME a \notin ToSet(acls) PROVE ToSet(acls') = ToSet(acls)
  BY <1>3, <1>6, <1>n DEF ToSet
<1> QED BY <1>4, <1>5, <1>6

(* What the operations on ACLs and on zones in memory give.                *)
LEMMA AclFacts == StoreOK => ToSet(acls) \subseteq ACLNames
<1>1. \A s \in Seq(ACLNames) : \A i \in DOMAIN s : s[i] \in ACLNames OBVIOUS
<1> QED BY <1>1 DEF StoreOK, ToSet

LEMMA ObjectFacts == \A o \in Objects : o # None
<1>1. Cardinality(ACLNames) \in Nat /\ Cardinality(Workers) \in Nat
  BY FS_CardinalityType, ManagerAssumption
<1> QED BY <1>1 DEF Objects, None

LEMMA NewObjectOK ==
  ASSUME MemoryOK, DOMAIN worker = Workers, NEW d \in SUBSET Records, NEW v \in Views,
         NEW src \in {"admin", "corefile"}, NewObject(d, v, src)
  PROVE  /\ obj' \in [Objects -> Zones] /\ obj'[Fresh] = [data |-> d, target |-> v, source |-> src]
         /\ \A o \in Objects : o # Fresh => obj'[o] = obj[o]
         /\ Fresh \in Objects /\ Fresh # None /\ Fresh # reg /\ Fresh # primary
         /\ \A a \in ACLNames : Fresh # views[a]
         /\ \A w \in Workers : Fresh # worker[w].obj
<1>1. Fresh \in Objects /\ Fresh \notin Referenced /\ Fresh # None BY FreshFacts
<1>2. obj' \in [Objects -> Zones] BY <1>1 DEF NewObject, MemoryOK, Zones
<1>3. /\ obj'[Fresh] = [data |-> d, target |-> v, source |-> src]
      /\ \A o \in Objects : o # Fresh => obj'[o] = obj[o]
  BY <1>1 DEF NewObject, MemoryOK
<1> QED BY <1>1, <1>2, <1>3 DEF Referenced

(* The Corefile a process starts from.                                     *)
LEMMA ConfigFacts ==
  ASSUME cfg \in Configs, core \in {<<>>, cfg.core}
  PROVE  /\ cfg.core \in Seq(Block) /\ core \in Seq(Block) /\ cfg.readonly \in BOOLEAN
         /\ cfg.workers \subseteq Workers /\ cfg.ops \subseteq {r.op : r \in Requests}
         /\ Len(core) \in Nat /\ DOMAIN core = 1 .. Len(core) /\ Len(core) <= Len(cfg.core)
         /\ Len(cfg.core) \in Nat /\ DOMAIN cfg.core = 1 .. Len(cfg.core)
         /\ \A i \in DOMAIN core : core[i] \in Block /\ core[i] = cfg.core[i] /\ core[i].view \in Views
                                   /\ core[i].file \in Data
         /\ \A i \in DOMAIN core : core[i].plugin = "dns-update-persistent" => core[i].file # NoZone
<1>1. /\ cfg.core \in Seq(Block) /\ cfg.readonly \in BOOLEAN
      /\ cfg.workers \subseteq Workers /\ cfg.ops \subseteq {r.op : r \in Requests}
      /\ \A i \in DOMAIN cfg.core :
           cfg.core[i].plugin = "dns-update-persistent" => cfg.core[i].file # NoZone
  BY ManagerAssumption
<1>2. core \in Seq(Block) /\ Len(core) <= Len(cfg.core) /\ Len(core) \in Nat
  <2>1. Len(cfg.core) \in Nat BY <1>1
  <2>2. CASE core = cfg.core BY <1>1, <2>1, <2>2
  <2>3. CASE core = <<>>
    <3>1. core \in Seq(Block) /\ Len(core) = 0 BY <2>3
    <3> QED BY <2>1, <3>1
  <2> QED BY <2>2, <2>3
<1>3. DOMAIN core = 1 .. Len(core) BY <1>2
<1>4. \A i \in DOMAIN core : core[i] \in Block /\ core[i] = cfg.core[i] /\ i \in DOMAIN cfg.core
  BY <1>1, <1>2
<1> QED BY <1>1, <1>2, <1>3, <1>4 DEF Block

LEMMA InsertFacts ==
  ASSUME StoreOK, NEW a \in ACLNames, InsertACL(a)
  PROVE  /\ acls' \in Seq(ACLNames) /\ IsInjective(acls')
         /\ ToSet(acls') = ToSet(acls) \cup {a}
         /\ acls # <<>> => Head(acls') = Head(acls)
<1>1. CASE a \in ToSet(acls) BY <1>1 DEF StoreOK, InsertACL
<1>2. CASE a \notin ToSet(acls)
  <2>1. acls' = Append(acls, a) BY <1>2 DEF InsertACL
  <2>2. acls # <<>> => Head(Append(acls, a)) = Head(acls) BY DEF StoreOK
  <2> QED BY <1>2, <2>1, <2>2, AppendFacts DEF StoreOK
<1> QED BY <1>1, <1>2

(* The first of some positions.                                            *)
LEMMA MinFacts ==
  ASSUME NEW T \in SUBSET Nat, T # {}
  PROVE  Min(T) \in T /\ \A k \in T : Min(T) <= k
<1>1. PICK m \in T : \A k \in T : ~(<<k, m>> \in OpToRel(<, Nat))
  BY NatLessThanWellFounded, WFMin
<1>2. \A k \in T : ~(k < m) BY <1>1 DEF OpToRel
<1>3. \A k \in T : m <= k BY <1>2
<1> QED BY <1>3 DEF Min

LEMMA TypeInit == Init => TypeInv
<1> SUFFICES ASSUME Init PROVE TypeInv OBVIOUS
<1>1. cfg \in Configs /\ core = cfg.core BY DEF Init
<1>2. StoreOK
  <2>1. acls \in Seq(ACLNames) /\ IsInjective(acls) BY DEF Init, IsInjective
  <2> QED BY <2>1, DataFacts DEF Init, StoreOK
<1>3. MemoryOK BY DataFacts DEF Init, MemoryOK, Zones, NoObject
<1>4. StartOK BY <1>1, ConfigFacts DEF Init, StartOK, StartPC, Early, Importing
<1>5. WorkersOK BY IdleOK DEF Init, WorkersOK
<1>6. \A v \in Views : FileOf(core, v) \in Data
  <2> TAKE v \in Views
  <2> DEFINE of == {i \in DOMAIN core : core[i].view = v}
  <2>0. of \in SUBSET Nat BY <1>1, ConfigFacts
  <2>1. of # {} => Min(of) \in of BY <2>0, MinFacts
  <2> QED BY <1>1, <2>1, ConfigFacts, DataFacts DEF FileOf
<1>7. want \in [Views -> Data \cup {Unknown}] BY <1>6, DataFacts DEF Init
<1>8. requests \in 0 .. MaxRequests /\ crashes \in 0 .. MaxCrashes BY ManagerAssumption DEF Init
<1> QED BY <1>1, <1>2, <1>3, <1>4, <1>5, <1>7, <1>8 DEF TypeInv

(* A step of the start-up leaves the requests alone.                       *)
LEMMA StartFrame ==
  ASSUME TypeInv, StartOnly, start.pc # "up", core' \in {<<>>, cfg'.core},
         StoreOK', MemoryOK', StartOK'
  PROVE  TypeInv'
<1>1. WorkersOK' BY IdleOK DEF TypeInv, StartOnly, WorkersOK
<1> QED BY <1>1 DEF TypeInv, StartOnly, bounds

(* The start-up, group of actions by group of actions.                     *)
LEMMA RefFacts ==
  ASSUME TypeInv, start.block \in DOMAIN core
  PROVE  /\ Ref \in Block /\ Ref.view \in Views /\ Ref.file \in Data
         /\ start.block \in 1 .. Len(core) /\ start.block + 1 \in 1 .. Len(cfg.core) + 1
BY ConfigFacts DEF TypeInv, Ref

LEMMA TypeRegister == TypeInv /\ RegisterCorefile => TypeInv'
<1> SUFFICES ASSUME TypeInv, RegisterCorefile PROVE TypeInv' OBVIOUS
<1>1. core' = core /\ StoreOK' BY DEF RegisterCorefile, TypeInv, StoreOK, sqlite
<1>2. StartOK'
  BY <1>1 DEF RegisterCorefile, Starting, Then, StartOnly, TypeInv, StartOK, StartPC, Early, Importing
<1>3. MemoryOK'
  <2>1. CASE UNCHANGED memory BY <2>1 DEF memory, TypeInv, MemoryOK
  <2>2. CASE \E i \in DOMAIN core : /\ core[i].plugin = "dns-update-persistent"
                                    /\ NewObject(core[i].file, "public", "corefile") /\ reg' = Fresh
                                    /\ UNCHANGED <<primary, views>>
    <3>1. PICK i \in DOMAIN core : /\ core[i].plugin = "dns-update-persistent"
                                    /\ NewObject(core[i].file, "public", "corefile") /\ reg' = Fresh
                                    /\ UNCHANGED <<primary, views>>
      BY <2>2
    <3>2. core[i].file \in SUBSET Records BY <3>1, ConfigFacts, DataFacts DEF TypeInv
    <3>3. obj' \in [Objects -> Zones] /\ Fresh \in Objects
      BY <3>1, <3>2, NewObjectOK, DataFacts DEF TypeInv, WorkersOK
    <3> QED BY <3>1, <3>3 DEF TypeInv, MemoryOK
  <2> QED BY <2>1, <2>2 DEF RegisterCorefile
<1> QED BY <1>1, <1>2, <1>3, StartFrame DEF RegisterCorefile, Starting, StartOnly, TypeInv

LEMMA TypeImport ==
  TypeInv /\ (ImportRecords \/ ImportViewRow \/ ImportZone \/ ImportACL \/ ImportApex
               \/ ImportCorefileACLs) => TypeInv'
<1> SUFFICES ASSUME TypeInv, ImportRecords \/ ImportViewRow \/ ImportZone \/ ImportACL \/ ImportApex
                              \/ ImportCorefileACLs
             PROVE TypeInv'
  OBVIOUS
<1>0. core' = core /\ UNCHANGED memory /\ StartOnly /\ start.pc # "up"
  BY DEF ImportRecords, ImportViewRow, ImportZone, ImportACL, ImportApex, ImportCorefileACLs, Starting
<1>1. MemoryOK' BY <1>0 DEF memory, TypeInv, MemoryOK
<1>2. ASSUME start.block \in DOMAIN core, NextBlock PROVE StartOK'
  BY <1>0, <1>2, RefFacts DEF TypeInv, NextBlock, StartOK, StartPC, Early, Importing, StartOnly
<1>3. ASSUME NEW pc \in Importing, start.block \in DOMAIN core, Then(pc),
             pc \in {"import view row", "import acl", "import new view", "import apex"}
               => Ref.view \in ACLNames
      PROVE  StartOK'
  BY <1>0, <1>3 DEF TypeInv, Then, StartOK, StartPC, Early, Importing, StartOnly, Ref
<1>4. CASE ImportRecords
  <2>1. start.block \in DOMAIN core
    <3>1. start.block \in 1 .. Len(cfg.core) + 1 BY DEF TypeInv, StartOK
    <3>2. start.block <= Len(core) BY <1>4 DEF ImportRecords
    <3>3. Len(cfg.core) \in Nat /\ Len(core) \in Nat /\ DOMAIN core = 1 .. Len(core)
      BY ConfigFacts DEF TypeInv
    <3> QED BY <3>1, <3>2, <3>3
  <2>2. Ref.view \in Views /\ Ref.file \in Data BY <2>1, RefFacts
  <2>3. StoreOK'
    BY <1>4, <2>2 DEF ImportRecords, TypeInv, StoreOK
  <2>4. StartOK'
    <3>1. CASE NextBlock BY <1>2, <2>1, <3>1
    <3>2. CASE Then("import new zone") BY <1>3, <2>1, <3>2 DEF Importing
    <3>3. CASE Then("import zone") BY <1>3, <2>1, <3>3 DEF Importing
    <3>4. CASE Ref.view # "public" /\ Then("import view row")
      BY <1>3, <2>1, <2>2, <3>4, DataFacts DEF Importing
    <3> QED BY <1>4, <3>1, <3>2, <3>3, <3>4 DEF ImportRecords
  <2> QED BY <1>0, <1>1, <2>3, <2>4, StartFrame DEF TypeInv, StartOnly
<1>5. CASE ImportViewRow
  <2>1. start.block \in DOMAIN core /\ Ref.view \in ACLNames
    BY <1>5 DEF ImportViewRow, Starting, TypeInv, StartOK, Importing
  <2>2. StoreOK' BY <1>5, <2>1 DEF ImportViewRow, TypeInv, StoreOK
  <2>3. StartOK'
    BY <1>3, <1>5, <2>1 DEF ImportViewRow, Importing
  <2> QED BY <1>0, <1>1, <2>2, <2>3, StartFrame DEF TypeInv, StartOnly
<1>6. CASE ImportZone
  <2>1. start.block \in DOMAIN core BY <1>6 DEF ImportZone, Starting, TypeInv, StartOK, Importing
  <2>2. StoreOK' BY <1>6 DEF ImportZone, TypeInv, StoreOK
  <2>3. StartOK'
    <3>1. CASE NextBlock BY <1>2, <2>1, <3>1
    <3>2. CASE Ref.view # "public" /\ Then("import acl")
      BY <1>3, <2>1, <3>2, RefFacts, DataFacts DEF Importing
    <3> QED BY <1>6, <3>1, <3>2 DEF ImportZone
  <2> QED BY <1>0, <1>1, <2>2, <2>3, StartFrame DEF TypeInv, StartOnly
<1>7. CASE ImportACL
  <2>1. start.block \in DOMAIN core /\ Ref.view \in ACLNames
    BY <1>7 DEF ImportACL, Starting, TypeInv, StartOK, Importing
  <2>2. StoreOK' BY <1>7, <2>1, InsertFacts DEF ImportACL, TypeInv, StoreOK
  <2>3. StartOK' BY <1>3, <1>7, <2>1 DEF ImportACL, Importing
  <2> QED BY <1>0, <1>1, <2>2, <2>3, StartFrame DEF TypeInv, StartOnly
<1>8. CASE ImportApex
  <2>1. start.block \in DOMAIN core BY <1>8 DEF ImportApex, Starting, TypeInv, StartOK, Importing
  <2>2. StoreOK' BY <1>8, DataFacts DEF ImportApex, seedPublicApex, TypeInv, StoreOK
  <2>3. StartOK' BY <1>2, <1>8, <2>1 DEF ImportApex
  <2> QED BY <1>0, <1>1, <2>2, <2>3, StartFrame DEF TypeInv, StartOnly
<1>9. CASE ImportCorefileACLs
  <2>1. ASSUME NEW a, a \in {core[i].view : i \in DOMAIN core} \ ({"public"} \cup ToSet(acls)),
               InsertACL(a)
        PROVE  acls' \in Seq(ACLNames) /\ IsInjective(acls')
    BY <2>1, ConfigFacts, DataFacts, InsertFacts DEF TypeInv
  <2>2. acls' \in Seq(ACLNames) /\ IsInjective(acls')
    BY <1>9, <2>1 DEF ImportCorefileACLs, TypeInv, StoreOK
  <2>3. StoreOK' BY <1>9, <2>2 DEF ImportCorefileACLs, TypeInv, StoreOK
  <2>4. StartOK'
    BY <1>0, <1>9 DEF ImportCorefileACLs, Starting, Then, StartOnly, TypeInv, StartOK, StartPC, Early, Importing
  <2> QED BY <1>0, <1>1, <2>3, <2>4, StartFrame DEF TypeInv, StartOnly
<1> QED BY <1>4, <1>5, <1>6, <1>7, <1>8, <1>9

LEMMA TypeLoad ==
  TypeInv /\ (StripCorefile \/ EnsureOrigin \/ EnsureApex \/ LoadZones \/ loadViews) => TypeInv'
<1> SUFFICES ASSUME TypeInv, StripCorefile \/ EnsureOrigin \/ EnsureApex \/ LoadZones \/ loadViews
             PROVE TypeInv'
  OBVIOUS
<1>0. StartOnly /\ start.pc \in {"strip", "origins", "apex", "load", "load views"}
  BY DEF StripCorefile, EnsureOrigin, EnsureApex, LoadZones, loadViews, Starting
<1>1. ASSUME NEW pc \in {"apex", "load", "load views", "up"}, Then(pc) \/ UNCHANGED start, core' = core
      PROVE  StartOK'
  BY <1>0, <1>1 DEF TypeInv, Then, StartOK, StartPC, Early, Importing, StartOnly
<1>2. CASE StripCorefile
  <2>1. core' \in {<<>>, cfg'.core} /\ cfg' = cfg
    BY <1>0, <1>2, StripFacts, ConfigFacts DEF StripCorefile, TypeInv, StartOnly
  <2>2. StartOK'
    <3>1. 1 \in 1 .. Len(cfg.core) + 1 BY ConfigFacts DEF TypeInv
    <3> QED BY <1>2, <2>1, <3>1 DEF StripCorefile, StartOK, StartPC, Early, Importing
  <2>3. StoreOK' /\ MemoryOK' BY <1>2 DEF StripCorefile, TypeInv, StoreOK, MemoryOK, memory, sqlite
  <2> QED BY <1>0, <2>1, <2>2, <2>3, StartFrame
<1>3. CASE EnsureOrigin
  <2>1. StoreOK' /\ MemoryOK' BY <1>3 DEF EnsureOrigin, TypeInv, StoreOK, MemoryOK, memory
  <2> QED BY <1>0, <1>1, <1>3, <2>1, StartFrame DEF EnsureOrigin, TypeInv, StartOnly
<1>4. CASE EnsureApex
  <2>1. StoreOK' /\ MemoryOK'
    BY <1>4, DataFacts DEF EnsureApex, seedPublicApex, TypeInv, StoreOK, MemoryOK, memory
  <2> QED BY <1>0, <1>1, <1>4, <2>1, StartFrame DEF EnsureApex, TypeInv, StartOnly
<1>5. CASE LoadZones
  <2>1. StoreOK' /\ core' = core /\ Then("load views") BY <1>5 DEF LoadZones, TypeInv, StoreOK, sqlite
  <2>2. MemoryOK'
    <3>1. CASE /\ zone /\ reg # None
               /\ obj' = [obj EXCEPT ![reg].data = IF rows["public"] = NoZone THEN @
                                              ELSE rows["public"]]
               /\ primary' = reg /\ UNCHANGED <<reg, views>>
      <4>1. rows["public"] \in Data BY DataFacts DEF TypeInv, StoreOK
      <4>2. rows["public"] # NoZone => rows["public"] \in SUBSET Records BY <4>1, DataFacts
      <4>3. reg \in Objects BY <3>1 DEF TypeInv, MemoryOK
      <4>4. obj' \in [Objects -> Zones] BY <3>1, <4>2, <4>3 DEF TypeInv, MemoryOK, Zones
      <4> QED BY <3>1, <4>4 DEF TypeInv, MemoryOK
    <3>2. CASE /\ rows["public"] # NoZone
               /\ NewObject(rows["public"], "public", "admin")
               /\ reg' = Fresh /\ primary' = Fresh /\ UNCHANGED views
      <4>1. rows["public"] \in SUBSET Records BY <3>2, DataFacts DEF TypeInv, StoreOK
      <4>2. obj' \in [Objects -> Zones] /\ Fresh \in Objects
        BY <3>2, <4>1, NewObjectOK, DataFacts DEF TypeInv, WorkersOK
      <4> QED BY <3>2, <4>2 DEF TypeInv, MemoryOK
    <3>3. CASE UNCHANGED memory BY <3>3 DEF memory, TypeInv, MemoryOK
    <3> QED BY <1>5, <3>1, <3>2, <3>3 DEF LoadZones
  <2> QED BY <1>0, <1>1, <2>1, <2>2, StartFrame DEF TypeInv, StartOnly
<1>6. CASE loadViews
  <2>1. StoreOK' /\ core' = core /\ (Then("up") \/ UNCHANGED start)
    BY <1>6 DEF loadViews, TypeInv, StoreOK, sqlite
  <2>2. MemoryOK'
    <3>1. CASE UNCHANGED memory BY <3>1 DEF memory, TypeInv, MemoryOK
    <3>2. ASSUME NEW a \in zviews, rows[a] # NoZone,
                 NewObject(rows[a], a, "admin"), views' = [views EXCEPT ![a] = Fresh],
                 UNCHANGED <<reg, primary>>
          PROVE MemoryOK'
      <4>1. a \in ACLNames /\ a \in Views BY DataFacts DEF TypeInv, StoreOK
      <4>2. rows[a] \in SUBSET Records BY <3>2, <4>1, DataFacts DEF TypeInv, StoreOK
      <4>3. obj' \in [Objects -> Zones] /\ Fresh \in Objects
        BY <3>2, <4>1, <4>2, NewObjectOK DEF TypeInv, WorkersOK
      <4> QED BY <3>2, <4>1, <4>3 DEF TypeInv, MemoryOK
    <3> QED BY <1>6, <3>1, <3>2 DEF loadViews
  <2> QED BY <1>0, <1>1, <2>1, <2>2, StartFrame DEF TypeInv, StartOnly
<1> QED BY <1>2, <1>3, <1>4, <1>5, <1>6

(* The requests.                                                           *)
LEMMA ReplyOK ==
  ASSUME NEW w \in Workers, WorkersOK, Reply(w)
  PROVE  /\ DOMAIN worker' = Workers /\ \A u \in Workers \ {w} : worker'[u] = worker[u]
         /\ worker'[w] = Idle /\ WorkerOK(worker'[w])
BY IdleOK DEF WorkersOK, Reply

LEMMA CutFacts ==
  ASSUME NEW rs, CutShort(rs)
  PROVE  \A v \in Views : want'[v] = want[v] \/ want'[v] = Unknown
BY DEF CutShort

LEMMA CutShortOK ==
  ASSUME TypeInv, NEW rs, CutShort(rs)
  PROVE  want' \in [Views -> Data \cup {Unknown}]
BY DEF CutShort, TypeInv

(* What a step of a request must show to keep the types.                   *)
LEMMA RequestFrame ==
  ASSUME TypeInv, NEW w \in Workers, RequestOnly, start.pc = "up",
         DOMAIN worker' = Workers, \A u \in Workers \ {w} : worker'[u] = worker[u],
         WorkerOK(worker'[w]), StoreOK', MemoryOK', want' \in [Views -> Data \cup {Unknown}]
  PROVE  TypeInv'
<1>1. WorkersOK' BY WorkerStep DEF TypeInv, RequestOnly
<1>2. StartOK' BY DEF TypeInv, RequestOnly, StartOK, Ref
<1> QED BY <1>1, <1>2 DEF TypeInv, RequestOnly, bounds

LEMMA TypeRequest ==
  ASSUME TypeInv, NEW w \in Workers, NEW r \in Requests, Request(w, r)
  PROVE  TypeInv'
<1>1. start.pc = "up" /\ start' = start /\ worker[w] = Idle /\ DOMAIN worker = Workers
  BY DEF Request, At, TypeInv, WorkersOK, WorkerOK
<1>2. r \in Asked /\ r # NoRequest /\ FirstStep(r) \in Steps \ {"idle"}
  <2>1. r \in Asked BY DEF Asked
  <2>2. r.op # "none"
    BY DEF Requests, Ask
  <2> QED BY <2>1, <2>2, AskedFacts DEF FirstStep, Steps, CreateSteps, DeleteSteps, DropSteps, RenameSteps,
             EditSteps
<1> DEFINE y == [Idle EXCEPT !.pc = FirstStep(r), !.req = r]
<1>3. worker'[w] = y /\ DOMAIN worker' = Workers /\ \A u \in Workers \ {w} : worker'[u] = worker[u]
  BY <1>1 DEF Request
<1>4. /\ y.pc = FirstStep(r) /\ y.req = r /\ y \in [pc : Steps, req : Asked, obj : Objects \cup {None},
         seed : SUBSET Records, drop : SUBSET ACLNames]
  BY <1>2 DEF Idle
<1> HIDE DEF y
<1>5. WorkerOK(y)
  <2>1. r.op \in {"create", "delete", "createACL", "deleteACL", "renameACL", "edit", "move"}
    BY <1>2, AskedFacts
  <2> QED BY <1>2, <1>4, <2>1 DEF FirstStep, WorkerOK, Steps, CreateSteps, DeleteSteps, DropSteps, RenameSteps,
             EditSteps
<1>6. WorkersOK' BY <1>1, <1>3, <1>5, WorkerStep DEF TypeInv
<1>7. UNCHANGED <<cfg, core, sqlite, memory, start, want, crashes>> /\ requests' \in 0 .. MaxRequests
  BY ManagerAssumption DEF Request, TypeInv
<1>8. StartOK' /\ StoreOK' /\ MemoryOK'
  BY <1>7 DEF TypeInv, StartOK, StoreOK, MemoryOK, Ref, sqlite, memory
<1> QED BY <1>6, <1>7, <1>8 DEF TypeInv

LEMMA ReqFacts ==
  ASSUME TypeInv, NEW w \in Workers, start.pc = "up"
  PROVE  /\ DOMAIN worker = Workers /\ WorkerOK(worker[w]) /\ worker[w].req \in Asked
         /\ worker[w].pc \in DropSteps \cup RenameSteps \cup {"insert acl"} =>
              worker[w].req.acl \in ACLNames /\ worker[w].req.to \in ACLNames
         /\ worker[w].pc \in EditSteps => /\ worker[w].req.todo # <<>> /\ EditOK(Head(worker[w].req.todo))
                                          /\ Len(worker[w].req.todo) \in {1, 2}
         /\ worker[w].obj \in Objects \cup {None} /\ worker[w].seed \in SUBSET Records
         /\ worker[w].drop \subseteq ACLNames
<1>1. DOMAIN worker = Workers /\ WorkerOK(worker[w]) BY DEF TypeInv, WorkersOK
<1>2. worker[w].req \in Asked BY <1>1 DEF WorkerOK
<1>3. /\ worker[w].pc \in DropSteps \cup RenameSteps \cup {"insert acl"} =>
           worker[w].req.op \in {"createACL", "deleteACL", "renameACL"}
      /\ worker[w].pc \in EditSteps => worker[w].req.op \in {"edit", "move"}
      /\ worker[w].obj \in Objects \cup {None} /\ worker[w].seed \in SUBSET Records
      /\ worker[w].drop \subseteq ACLNames
  BY <1>1 DEF WorkerOK
<1> QED BY <1>1, <1>2, <1>3, AskedFacts

LEMMA TypeCreate ==
  ASSUME TypeInv, NEW w \in Workers,
         CreateRows(w) \/ RegisterPrimary(w) \/ Publish(w) \/ UpsertZone(w)
  PROVE  TypeInv'
<1>0. RequestOnly /\ start.pc = "up" /\ worker[w].pc \in CreateSteps
  BY DEF CreateRows, RegisterPrimary, Publish, UpsertZone, At, CreateSteps
<1>2. CASE CreateRows(w)
  <2>1. /\ DOMAIN worker' = Workers /\ \A u \in Workers \ {w} : worker'[u] = worker[u]
        /\ WorkerOK(worker'[w])
    BY <1>0, <1>2, GotoOK DEF CreateRows, TypeInv, Steps, CreateSteps
  <2>2. StoreOK' /\ MemoryOK' /\ want' = want
    BY <1>2, DataFacts DEF CreateRows, TypeInv, StoreOK, MemoryOK, memory
  <2> QED BY <1>0, <2>1, <2>2, RequestFrame DEF TypeInv
<1>3. CASE RegisterPrimary(w)
  <2>1. StoreOK' /\ want' = want BY <1>3 DEF RegisterPrimary, TypeInv, StoreOK, sqlite
  <2>2. CASE reg # None /\ Reply(w) /\ UNCHANGED <<obj, reg>>
    <3>1. MemoryOK' BY <1>3, <2>2 DEF RegisterPrimary, TypeInv, MemoryOK
    <3> QED BY <1>0, <2>1, <2>2, <3>1, ReplyOK, RequestFrame DEF TypeInv
  <2>3. CASE /\ reg = None /\ NewObject({}, "public", "admin") /\ reg' = Fresh
             /\ worker' = [worker EXCEPT ![w].pc = "publish", ![w].obj = Fresh]
    <3>1. obj' \in [Objects -> Zones] /\ Fresh \in Objects /\ Fresh # None
      BY <2>3, NewObjectOK, DataFacts DEF TypeInv, WorkersOK
    <3>2. MemoryOK' BY <1>3, <2>3, <3>1 DEF RegisterPrimary, TypeInv, MemoryOK
    <3>3. DOMAIN worker = Workers /\ WorkerOK(worker[w]) BY DEF TypeInv, WorkersOK
    <3> DEFINE y == [worker[w] EXCEPT !.pc = "publish", !.obj = Fresh]
    <3>4. /\ worker'[w] = y /\ DOMAIN worker' = Workers /\ \A u \in Workers \ {w} : worker'[u] = worker[u]
      BY <2>3, <3>3
    <3>5. WorkerOK(y)
      BY <1>0, <3>1, <3>3 DEF WorkerOK, Steps, CreateSteps, DeleteSteps, DropSteps, RenameSteps, EditSteps
    <3> QED BY <1>0, <2>1, <3>2, <3>4, <3>5, RequestFrame DEF TypeInv
  <2> QED BY <1>3, <2>2, <2>3 DEF RegisterPrimary
<1>4. CASE Publish(w)
  <2>1. /\ DOMAIN worker' = Workers /\ \A u \in Workers \ {w} : worker'[u] = worker[u]
        /\ WorkerOK(worker'[w])
    BY <1>0, <1>4, GotoOK DEF Publish, TypeInv, Steps, CreateSteps
  <2>2. StoreOK' /\ MemoryOK' /\ want' = want
    BY <1>0, <1>4, ReqFacts DEF Publish, TypeInv, StoreOK, MemoryOK, sqlite
  <2> QED BY <1>0, <2>1, <2>2, RequestFrame DEF TypeInv
<1>5. CASE UpsertZone(w)
  <2>2. StoreOK' /\ MemoryOK' /\ want' \in [Views -> Data \cup {Unknown}]
    BY <1>5, DataFacts DEF UpsertZone, TypeInv, StoreOK, MemoryOK, memory
  <2> QED BY <1>0, <1>5, <2>2, ReplyOK, RequestFrame DEF TypeInv, UpsertZone
<1> QED BY <1>2, <1>3, <1>4, <1>5

LEMMA TypeDelete ==
  ASSUME TypeInv, NEW w \in Workers,
         DeletePrimary(w) \/ Unregister(w) \/ dropViews(w) \/ DeleteZone(w)
  PROVE  TypeInv'
<1>0. RequestOnly /\ start.pc = "up" /\ worker[w].pc \in DeleteSteps
  BY DEF DeletePrimary, Unregister, dropViews, DeleteZone, At, DeleteSteps
<1>1. ASSUME NEW pc \in DeleteSteps, Goto(w, pc)
      PROVE  /\ DOMAIN worker' = Workers /\ \A u \in Workers \ {w} : worker'[u] = worker[u]
             /\ WorkerOK(worker'[w])
  <2>1. pc \in Steps /\ pc \notin {"publish", "apply", "seed view", "view row", "put view"}
    BY DEF Steps, DeleteSteps
  <2> QED BY <1>0, <1>1, <2>1, GotoOK DEF TypeInv
<1>2. CASE DeletePrimary(w)
  <2>1. StoreOK' /\ MemoryOK' /\ want' = want /\ Goto(w, "unregister")
    BY <1>2 DEF DeletePrimary, TypeInv, StoreOK, MemoryOK, sqlite
  <2> QED BY <1>0, <1>1, <2>1, RequestFrame DEF TypeInv, DeleteSteps
<1>3. CASE Unregister(w)
  <2>1. StoreOK' /\ MemoryOK' /\ want' = want /\ Goto(w, "drop views")
    BY <1>3 DEF Unregister, TypeInv, StoreOK, MemoryOK, sqlite
  <2> QED BY <1>0, <1>1, <2>1, RequestFrame DEF TypeInv, DeleteSteps
<1>4. CASE dropViews(w)
  <2>1. StoreOK' /\ MemoryOK' /\ want' = want
    <3>1. \A a \in worker[w].drop : a \in Views BY <1>0, ReqFacts, DataFacts
    <3>2. zone' = zone /\ acls' = acls /\ rows' \in [Views -> Data] /\ zviews' \subseteq ACLNames
      <4>1. zone' = zone /\ acls' = acls /\ (zviews' = zviews \/ zviews' = {}) BY <1>4 DEF dropViews
      <4>2. rows' = rows \/ \E a \in worker[w].drop : rows' = [rows EXCEPT ![a] = NoZone]
        BY <1>4 DEF dropViews
      <4> QED BY <3>1, <4>1, <4>2, DataFacts DEF TypeInv, StoreOK
    <3>3. views' \in [ACLNames -> Objects \cup {None}] /\ UNCHANGED <<obj, reg, primary, want>>
      BY <1>4 DEF dropViews, TypeInv, MemoryOK
    <3> QED BY <3>2, <3>3 DEF TypeInv, StoreOK, MemoryOK
  <2>2. /\ DOMAIN worker' = Workers /\ \A u \in Workers \ {w} : worker'[u] = worker[u]
        /\ WorkerOK(worker'[w])
    <3>1. CASE Goto(w, "delete rows") BY <1>1, <3>1 DEF DeleteSteps
    <3>2. ASSUME NEW pc \in {"drop rows"}, NEW D \in SUBSET ACLNames,
                 worker' = [worker EXCEPT ![w].pc = pc, ![w].drop = D]
          PROVE  <2>2
      <4>1. DOMAIN worker = Workers /\ WorkerOK(worker[w]) BY DEF TypeInv, WorkersOK
      <4> DEFINE y == [worker[w] EXCEPT !.pc = pc, !.drop = D]
      <4>2. worker'[w] = y /\ DOMAIN worker' = Workers /\ \A u \in Workers \ {w} : worker'[u] = worker[u]
        BY <3>2, <4>1
      <4>3. WorkerOK(y)
        BY <1>0, <4>1 DEF WorkerOK, Steps, CreateSteps, DeleteSteps, DropSteps, RenameSteps, EditSteps
      <4> QED BY <4>2, <4>3
    <3>3. CASE worker' = [worker EXCEPT ![w].pc = "drop rows",
                          ![w].drop = {a \in ACLNames : views[a] # None}]
      BY <3>2, <3>3
    <3>4. CASE At(w, "drop rows") /\ \E a \in worker[w].drop : worker' = [worker EXCEPT ![w].drop = @ \ {a}]
      <4>1. PICK a \in worker[w].drop : worker' = [worker EXCEPT ![w].drop = @ \ {a}] BY <3>4
      <4>2. worker[w].pc = "drop rows" /\ worker[w].drop \ {a} \in SUBSET ACLNames
        BY <1>0, <3>4, ReqFacts DEF At
      <4>3. DOMAIN worker = Workers /\ WorkerOK(worker[w]) BY DEF TypeInv, WorkersOK
      <4>4. [worker EXCEPT ![w].drop = @ \ {a}]
              = [worker EXCEPT ![w].pc = "drop rows", ![w].drop = worker[w].drop \ {a}]
        BY <4>2, <4>3 DEF WorkerOK
      <4> QED BY <3>2, <4>1, <4>2, <4>4
    <3> QED BY <1>4, <3>1, <3>3, <3>4 DEF dropViews
  <2> QED BY <1>0, <2>1, <2>2, RequestFrame DEF TypeInv
<1>5. CASE DeleteZone(w)
  <2>1. StoreOK' /\ MemoryOK' /\ want' \in [Views -> Data \cup {Unknown}]
    <3>1. /\ rows' = rows \/ rows' = [v \in Views |-> NoZone]
          /\ zviews' = zviews \/ zviews' = {}
          /\ zone' = zone \/ zone' = FALSE
          /\ want' = want \/ want' = [v \in Views |-> NoZone]
          /\ UNCHANGED <<acls, memory>>
      BY <1>5 DEF DeleteZone
    <3>2. [v \in Views |-> NoZone] \in [Views -> Data] BY DataFacts
    <3>3. rows' \in [Views -> Data] /\ zviews' \subseteq ACLNames /\ zone' \in BOOLEAN
      BY <3>1, <3>2 DEF TypeInv, StoreOK
    <3>4. want' \in [Views -> Data \cup {Unknown}] BY <3>1, DataFacts DEF TypeInv
    <3> QED BY <3>1, <3>3, <3>4 DEF TypeInv, StoreOK, MemoryOK, memory
  <2>2. Goto(w, "delete view rows") \/ Goto(w, "delete zone row") \/ Reply(w) BY <1>5 DEF DeleteZone
  <2>3. /\ DOMAIN worker' = Workers /\ \A u \in Workers \ {w} : worker'[u] = worker[u]
        /\ WorkerOK(worker'[w])
    BY <1>1, <2>2, ReplyOK DEF TypeInv, DeleteSteps
  <2> QED BY <1>0, <2>1, <2>3, RequestFrame
<1> QED BY <1>2, <1>3, <1>4, <1>5

LEMMA TypeEdit ==
  ASSUME TypeInv, NEW w \in Workers,
         recordZone(w) \/ SeedView(w) \/ UpsertZoneView(w) \/ putView(w) \/ Apply(w)
  PROVE  TypeInv'
<1>0. RequestOnly /\ start.pc = "up" /\ worker[w].pc \in EditSteps
  BY DEF recordZone, SeedView, UpsertZoneView, putView, Apply, At, EditSteps
<1> DEFINE x == worker[w]
           e == Head(x.req.todo)
           v == e.view
<1>1. /\ DOMAIN worker = Workers /\ WorkerOK(x) /\ x.req \in Asked
      /\ x.req.todo # <<>> /\ Len(x.req.todo) \in {1, 2}
      /\ x.obj \in Objects \cup {None} /\ x.seed \in SUBSET Records /\ x.drop \subseteq ACLNames
      /\ v \in Views /\ e.add \in SUBSET Records /\ e.del \in SUBSET Records
      /\ x.req.op \in {"edit", "move"}
  <2>1. EditOK(e) BY <1>0, ReqFacts
  <2> QED BY <1>0, <2>1, ReqFacts DEF EditOK, WorkerOK
<1>2. Editing(x) = v BY DEF Editing
<1>t. StoreOK /\ MemoryOK /\ WorkersOK /\ want \in [Views -> Data \cup {Unknown}] BY DEF TypeInv
<1>3. ASSUME NEW pc \in EditSteps, NEW o \in Objects \cup {None}, NEW s \in SUBSET Records,
             worker' = [worker EXCEPT ![w] = [x EXCEPT !.pc = pc, !.obj = o, !.seed = s]],
             pc = "apply" => o # None, pc \in {"seed view", "view row", "put view"} => v \in ACLNames
      PROVE  /\ DOMAIN worker' = Workers /\ \A u \in Workers \ {w} : worker'[u] = worker[u]
             /\ WorkerOK(worker'[w])
  <2> DEFINE y == [x EXCEPT !.pc = pc, !.obj = o, !.seed = s]
  <2>1. worker'[w] = y /\ DOMAIN worker' = Workers /\ \A u \in Workers \ {w} : worker'[u] = worker[u]
    BY <1>1, <1>3
  <2>2. /\ y.pc = pc /\ y.req = x.req /\ y.obj = o /\ y.drop = x.drop
        /\ y \in [pc : Steps, req : Asked, obj : Objects \cup {None}, seed : SUBSET Records,
                  drop : SUBSET ACLNames]
    <3>1. pc \in Steps BY DEF Steps
    <3> QED BY <1>1, <3>1 DEF WorkerOK
  <2>3. Editing(y) = v BY <2>2 DEF Editing
  <2> HIDE DEF y, v, e
  <2>4. WorkerOK(y)
    BY <1>0, <1>1, <1>3, <2>2, <2>3
       DEF WorkerOK, Steps, CreateSteps, DeleteSteps, DropSteps, RenameSteps, EditSteps
  <2> QED BY <2>1, <2>4
<1>4. CASE recordZone(w)
  <2>1. StoreOK' /\ MemoryOK'
    BY <1>4 DEF recordZone, TypeInv, StoreOK, MemoryOK, sqlite, memory
  <2>3. want' \in [Views -> Data \cup {Unknown}]
    <3>1. UNCHANGED want \/ CutShort({Req(w)}) BY <1>4 DEF recordZone
    <3> QED BY <1>t, <3>1, CutShortOK
  <2>2. /\ DOMAIN worker' = Workers /\ \A u \in Workers \ {w} : worker'[u] = worker[u]
        /\ WorkerOK(worker'[w])
    <3>1. CASE Reply(w) BY <3>1, ReplyOK DEF TypeInv
    <3>2. CASE \E o \in Objects : worker' = [worker EXCEPT ![w].pc = "apply", ![w].obj = o]
      <4>1. PICK o \in Objects : worker' = [worker EXCEPT ![w].pc = "apply", ![w].obj = o] BY <3>2
      <4>2. worker' = [worker EXCEPT ![w] = [x EXCEPT !.pc = "apply", !.obj = o, !.seed = x.seed]]
        BY <1>1, <4>1 DEF WorkerOK
      <4>3. o # None BY ObjectFacts
      <4> QED BY <1>1, <1>3, <4>2, <4>3 DEF EditSteps
    <3>3. CASE /\ v \in ToSet(acls)
               /\ worker' = [worker EXCEPT
                    ![w].pc = IF rows[v] # NoZone THEN "view row" ELSE "seed view",
                    ![w].seed = IF rows[v] # NoZone THEN rows[v] ELSE {}]
      <4>1. v \in ACLNames BY <3>3, <1>t, AclFacts
      <4> DEFINE pc == IF rows[v] # NoZone THEN "view row" ELSE "seed view"
                 s  == IF rows[v] # NoZone THEN rows[v] ELSE {}
      <4>2. s \in SUBSET Records BY <1>1, <1>t, DataFacts DEF StoreOK
      <4>3. worker' = [worker EXCEPT ![w] = [x EXCEPT !.pc = pc, !.obj = x.obj, !.seed = s]]
        BY <1>1, <3>3 DEF WorkerOK
      <4>4. pc \in EditSteps /\ pc # "apply" BY DEF EditSteps
      <4> HIDE DEF pc, s
      <4> QED BY <1>1, <1>3, <4>1, <4>2, <4>3, <4>4
    <3>4. \A o : o # None /\ (o = reg \/ o = IF v \in ToSet(acls) THEN views[v] ELSE None) => o \in Objects
      <4>1. v \in ToSet(acls) => v \in ACLNames BY <1>t, AclFacts
      <4> QED BY <1>t, <4>1 DEF MemoryOK
    <3> QED BY <1>4, <3>1, <3>2, <3>3, <3>4 DEF recordZone, Req
  <2> QED BY <1>0, <2>1, <2>2, <2>3, RequestFrame DEF TypeInv
<1>5. CASE SeedView(w)
  <2>1. StoreOK' /\ MemoryOK' /\ want' = want
    BY <1>1, <1>5, DataFacts DEF SeedView, Req, TypeInv, StoreOK, MemoryOK, memory
  <2>2. worker[w].pc = "seed view" /\ Goto(w, "view row") BY <1>5 DEF SeedView, At
  <2>3. v \in ACLNames BY <1>1, <1>2, <2>2 DEF WorkerOK
  <2>4. worker' = [worker EXCEPT ![w] = [x EXCEPT !.pc = "view row", !.obj = x.obj, !.seed = x.seed]]
    BY <1>1, <2>2 DEF WorkerOK, Goto
  <2> HIDE DEF v
  <2>5. /\ DOMAIN worker' = Workers /\ \A u \in Workers \ {w} : worker'[u] = worker[u]
        /\ WorkerOK(worker'[w])
    BY <1>1, <1>3, <2>3, <2>4 DEF EditSteps
  <2> QED BY <1>0, <2>1, <2>5, RequestFrame DEF TypeInv
<1>6. CASE UpsertZoneView(w)
  <2>2. worker[w].pc = "view row" /\ Goto(w, "put view") BY <1>6 DEF UpsertZoneView, At
  <2>3. v \in ACLNames BY <1>1, <1>2, <2>2 DEF WorkerOK
  <2>1. StoreOK' /\ MemoryOK' /\ want' = want
    BY <1>1, <1>6, <2>3, DataFacts DEF UpsertZoneView, Req, TypeInv, StoreOK, MemoryOK, memory
  <2>4. worker' = [worker EXCEPT ![w] = [x EXCEPT !.pc = "put view", !.obj = x.obj, !.seed = x.seed]]
    BY <1>1, <2>2 DEF WorkerOK, Goto
  <2> HIDE DEF v
  <2>5. /\ DOMAIN worker' = Workers /\ \A u \in Workers \ {w} : worker'[u] = worker[u]
        /\ WorkerOK(worker'[w])
    BY <1>1, <1>3, <2>3, <2>4 DEF EditSteps
  <2> QED BY <1>0, <2>1, <2>5, RequestFrame DEF TypeInv
<1>7. CASE putView(w)
  <2>2. worker[w].pc = "put view" BY <1>7 DEF putView, At
  <2>3. v \in ACLNames BY <1>1, <1>2, <2>2 DEF WorkerOK
  <2>1. StoreOK' /\ want' = want BY <1>7 DEF putView, sqlite, TypeInv, StoreOK
  <2>4. obj' \in [Objects -> Zones] /\ Fresh \in Objects /\ Fresh # None
    BY <1>1, <1>7, NewObjectOK DEF putView, Req, TypeInv
  <2>6. MemoryOK' BY <1>7, <2>3, <2>4 DEF putView, Req, TypeInv, MemoryOK
  <2>7. worker' = [worker EXCEPT ![w] = [x EXCEPT !.pc = "apply", !.obj = Fresh, !.seed = x.seed]]
    BY <1>1, <1>7 DEF WorkerOK, putView
  <2>8. /\ DOMAIN worker' = Workers /\ \A u \in Workers \ {w} : worker'[u] = worker[u]
        /\ WorkerOK(worker'[w])
    BY <1>1, <1>3, <2>4, <2>7 DEF EditSteps
  <2> QED BY <1>0, <2>1, <2>6, <2>8, RequestFrame DEF TypeInv
<1>8. CASE Apply(w)
  <2> DEFINE o == x.obj
             new == (obj[o].data \ e.del) \cup e.add
  <2>1. worker[w].pc = "apply" BY <1>8 DEF Apply, At
  <2>2. o \in Objects BY <1>1, <2>1 DEF WorkerOK
  <2>3. obj[o].data \in SUBSET Records /\ obj[o].target \in Views BY <1>t, <2>2 DEF MemoryOK, Zones
  <2>4. new \in SUBSET Records /\ new \in Data BY <1>1, <2>3, DataFacts
  <2>5. CASE Reply(w) /\ CutShort({Req(w)}) /\ UNCHANGED <<obj, rows>>
    <3>1. StoreOK' /\ MemoryOK' BY <1>8, <2>5 DEF Apply, TypeInv, StoreOK, MemoryOK
    <3>2. want' \in [Views -> Data \cup {Unknown}] BY <2>5, CutShortOK
    <3> QED BY <1>0, <2>5, <3>1, <3>2, ReplyOK, RequestFrame DEF TypeInv
  <2>6. CASE /\ obj' = [obj EXCEPT ![o].data = new]
              /\ rows' = [rows EXCEPT ![obj[o].target] = new]
              /\ want' = [want EXCEPT ![e.view] = EditWanted(@, e)]
              /\ IF Len(Req(w).todo) = 1 THEN Reply(w)
                 ELSE worker' = [worker EXCEPT ![w].pc = "record zone",
                                   ![w].req.todo = Tail(@), ![w].obj = None]
    <3>1. StoreOK' BY <1>8, <2>3, <2>4, <2>6 DEF Apply, TypeInv, StoreOK
    <3>2. obj' \in [Objects -> Zones]
      <4> HIDE DEF new
      <4> QED BY <1>t, <2>2, <2>4, <2>6 DEF MemoryOK, Zones
    <3>3. MemoryOK' BY <1>8, <3>2 DEF Apply, TypeInv, MemoryOK
    <3>4. \A d \in Data \cup {Unknown} : EditWanted(d, e) \in Data \cup {Unknown}
      BY <1>1, DataFacts DEF EditWanted
    <3>5. want' \in [Views -> Data \cup {Unknown}] BY <1>1, <1>t, <2>6, <3>4
    <3>6. CASE Reply(w) BY <1>0, <3>1, <3>3, <3>5, <3>6, ReplyOK, RequestFrame DEF TypeInv
    <3>7. CASE Len(x.req.todo) # 1 /\ worker' = [worker EXCEPT ![w].pc = "record zone",
                                   ![w].req.todo = Tail(@), ![w].obj = None]
      <4> DEFINE q == [x.req EXCEPT !.todo = Tail(x.req.todo)]
                 y == [x EXCEPT !.pc = "record zone", !.req = q, !.obj = None]
      <4>1. q \in Halves /\ x.req.op = "move" BY <1>1, <3>7, AskedFacts
      <4>2. q.op = "move" BY <4>1 DEF Halves, Ask
      <4>3. worker'[w] = y /\ DOMAIN worker' = Workers /\ \A u \in Workers \ {w} : worker'[u] = worker[u]
        BY <1>1, <3>7 DEF WorkerOK
      <4> HIDE DEF q
      <4>4. /\ y.pc = "record zone" /\ y.req = q
            /\ y \in [pc : Steps, req : Asked, obj : Objects \cup {None}, seed : SUBSET Records,
                      drop : SUBSET ACLNames]
        BY <1>1, <4>1 DEF WorkerOK, Steps, EditSteps, Asked
      <4> HIDE DEF y
      <4>5. WorkerOK(y)
        BY <4>2, <4>4 DEF WorkerOK, Steps, CreateSteps, DeleteSteps, DropSteps, RenameSteps, EditSteps
      <4> QED BY <1>0, <3>1, <3>3, <3>5, <4>3, <4>5, RequestFrame
    <3> QED BY <2>6, <3>6, <3>7 DEF Req
  <2> QED BY <1>8, <2>5, <2>6 DEF Apply, Req
<1> QED BY <1>4, <1>5, <1>6, <1>7, <1>8

LEMMA TypeAcls ==
  ASSUME TypeInv, NEW w \in Workers, CreateACL(w) \/ DeleteACL(w) \/ RenameACL(w)
  PROVE  TypeInv'
<1> DEFINE x == worker[w]
           a == x.req.acl
           b == x.req.to
<1>0. RequestOnly /\ start.pc = "up" /\ x.pc \in DropSteps \cup RenameSteps \cup {"insert acl"}
  BY DEF CreateACL, DeleteACL, RenameACL, At, DropSteps, RenameSteps
<1>1. /\ DOMAIN worker = Workers /\ WorkerOK(x) /\ a \in ACLNames /\ b \in ACLNames
      /\ x.drop \subseteq ACLNames /\ a \in Views /\ b \in Views
  BY <1>0, ReqFacts, DataFacts
<1>t. StoreOK /\ MemoryOK /\ WorkersOK /\ want \in [Views -> Data \cup {Unknown}] BY DEF TypeInv
<1>2. ASSUME NEW S \in {DropSteps, RenameSteps}, NEW pc \in S, x.pc \in S, Goto(w, pc)
      PROVE  /\ DOMAIN worker' = Workers /\ \A u \in Workers \ {w} : worker'[u] = worker[u]
             /\ WorkerOK(worker'[w])
  <2>1. pc \in Steps /\ pc \notin {"publish", "apply", "seed view", "view row", "put view"}
    BY <1>2 DEF Steps, DropSteps, RenameSteps
  <2> QED BY <1>2, <1>t, <2>1, GotoOK
<1>3. CASE CreateACL(w)
  <2>1. StoreOK' /\ MemoryOK' /\ want' = want
    BY <1>1, <1>3, <1>t, InsertFacts DEF CreateACL, Req, StoreOK, MemoryOK, memory
  <2> QED BY <1>0, <1>3, <1>t, <2>1, ReplyOK, RequestFrame DEF CreateACL
<1>4. CASE DeleteACL(w)
  <2>0. UNCHANGED <<zone, obj, reg, primary>> BY <1>4 DEF DeleteACL
  <2>1. CASE /\ At(w, "delete acl rows") /\ rows' = [rows EXCEPT ![a] = NoZone]
             /\ worker' = [worker EXCEPT ![w].pc = "delete acl views",
                                      ![w].drop = zviews \cap {a}]
             /\ UNCHANGED <<zviews, views, acls, want>>
    <3> DEFINE D == zviews \cap {a}
               y == [x EXCEPT !.pc = "delete acl views", !.drop = D]
    <3>1. D \in SUBSET ACLNames BY <1>1
    <3>2. worker'[w] = y /\ DOMAIN worker' = Workers /\ \A u \in Workers \ {w} : worker'[u] = worker[u]
      BY <1>1, <2>1
    <3> HIDE DEF D
    <3>3. WorkerOK(y)
      BY <1>1, <2>1, <3>1 DEF At, WorkerOK, Steps, CreateSteps, DeleteSteps, DropSteps, RenameSteps, EditSteps
    <3>4. StoreOK' /\ MemoryOK' BY <1>1, <1>t, <2>0, <2>1, DataFacts DEF StoreOK, MemoryOK
    <3> QED BY <1>0, <1>t, <2>1, <3>2, <3>3, <3>4, RequestFrame
  <2>2. CASE /\ At(w, "delete acl views") /\ Goto(w, "forget view")
             /\ zviews' = zviews \ {a} /\ UNCHANGED <<rows, views, acls, want>>
    <3>1. StoreOK' /\ MemoryOK' BY <1>t, <2>0, <2>2 DEF StoreOK, MemoryOK
    <3> QED BY <1>0, <1>2, <1>t, <2>2, <3>1, RequestFrame DEF At, DropSteps
  <2>3. CASE /\ At(w, "forget view") /\ Goto(w, "delete acl")
             /\ views' = [c \in ACLNames |-> IF c \in worker[w].drop THEN None ELSE views[c]]
             /\ UNCHANGED <<rows, zviews, acls, want>>
    <3>1. StoreOK' /\ MemoryOK' BY <1>t, <2>0, <2>3 DEF StoreOK, MemoryOK
    <3> QED BY <1>0, <1>2, <1>t, <2>3, <3>1, RequestFrame DEF At, DropSteps
  <2>4. CASE /\ At(w, "delete acl") /\ Reply(w)
             /\ acls' = IF a \in ToSet(acls)
                     THEN RemoveAt(acls, CHOOSE i \in DOMAIN acls : acls[i] = a) ELSE acls
             /\ want' = [want EXCEPT ![a] = IF @ = Unknown THEN @ ELSE NoZone]
             /\ UNCHANGED <<rows, zviews, views>>
    <3>1. acls' \in Seq(ACLNames) /\ IsInjective(acls') /\ ToSet(acls') = ToSet(acls) \ {a}
      BY <2>4, <1>t, DeleteFacts
    <3>2. want' \in [Views -> Data \cup {Unknown}] BY <1>1, <1>t, <2>4, DataFacts
    <3>3. StoreOK' /\ MemoryOK' BY <1>t, <2>0, <2>4, <3>1 DEF StoreOK, MemoryOK
    <3> QED BY <1>0, <1>t, <2>4, <3>2, <3>3, ReplyOK, RequestFrame
  <2> QED BY <1>4, <2>1, <2>2, <2>3, <2>4 DEF DeleteACL, Req
<1>5. CASE RenameACL(w)
  <2>0. UNCHANGED <<zone, reg, primary>> BY <1>5 DEF RenameACL
  <2>1. CASE /\ At(w, "rename acl") /\ b \in ToSet(acls) /\ Reply(w)
             /\ UNCHANGED <<acls, zviews, rows, obj, views, want>>
    <3>1. StoreOK' /\ MemoryOK' BY <1>t, <2>0, <2>1 DEF StoreOK, MemoryOK
    <3> QED BY <1>0, <1>t, <2>1, <3>1, ReplyOK, RequestFrame
  <2>2. CASE /\ At(w, "rename acl") /\ b \notin ToSet(acls) /\ Goto(w, "rename view rows")
             /\ acls' = [i \in DOMAIN acls |-> IF acls[i] = a THEN b ELSE acls[i]]
             /\ UNCHANGED <<zviews, rows, obj, views, want>>
    <3>1. acls' \in Seq(ACLNames) /\ IsInjective(acls')
      <4> HIDE DEF a, b
      <4> QED BY <1>1, <1>t, <2>2, RenamedFacts
    <3>2. StoreOK' /\ MemoryOK' BY <1>t, <2>0, <2>2, <3>1 DEF StoreOK, MemoryOK
    <3> QED BY <1>0, <1>2, <1>t, <2>2, <3>2, RequestFrame DEF At, RenameSteps
  <2>3. CASE /\ At(w, "rename view rows") /\ Goto(w, "rename rows")
             /\ zviews' = IF a \in zviews THEN (zviews \ {a}) \cup {b} ELSE zviews
             /\ UNCHANGED <<acls, rows, obj, views, want>>
    <3>1. StoreOK' /\ MemoryOK' BY <1>1, <1>t, <2>0, <2>3 DEF StoreOK, MemoryOK
    <3> QED BY <1>0, <1>2, <1>t, <2>3, <3>1, RequestFrame DEF At, RenameSteps
  <2>4. CASE /\ At(w, "rename rows") /\ Goto(w, "rename views")
             /\ rows' = IF rows[a] = NoZone THEN rows
                     ELSE [rows EXCEPT ![a] = NoZone, ![b] = rows[a]]
             /\ UNCHANGED <<acls, zviews, obj, views, want>>
    <3>1. rows' \in [Views -> Data]
      <4>1. rows \in [Views -> Data] /\ rows[a] \in Data BY <1>1, <1>t DEF StoreOK
      <4> QED BY <1>1, <2>4, <4>1, DataFacts
    <3>2. StoreOK' /\ MemoryOK' BY <1>t, <2>0, <2>4, <3>1 DEF StoreOK, MemoryOK
    <3> QED BY <1>0, <1>2, <1>t, <2>4, <3>2, RequestFrame DEF At, RenameSteps
  <2>5. CASE /\ Reply(w) /\ CutShort({Req(w)})
             /\ UNCHANGED <<acls, zviews, rows, obj, views>>
    <3>1. StoreOK' /\ MemoryOK' BY <1>t, <2>0, <2>5 DEF StoreOK, MemoryOK
    <3>2. want' \in [Views -> Data \cup {Unknown}] BY <2>5, CutShortOK
    <3> QED BY <1>0, <1>t, <2>5, <3>1, <3>2, ReplyOK, RequestFrame
  <2>7. CASE /\ At(w, "rename rows") /\ NoZone \notin {rows[a], rows[b]}
             /\ rows[a] \cap rows[b] = {} /\ Goto(w, "rename views")
             /\ rows' = [rows EXCEPT ![a] = NoZone, ![b] = rows[a] \cup rows[b]]
             /\ CutShort({Req(w)}) /\ UNCHANGED <<acls, zviews, obj, views>>
    <3>1. rows' \in [Views -> Data]
      <4>1. rows \in [Views -> Data] /\ rows[a] \in Data /\ rows[b] \in Data BY <1>1, <1>t DEF StoreOK
      <4>2. rows[a] \cup rows[b] \in Data BY <2>7, <4>1 DEF Data
      <4> QED BY <1>1, <2>7, <4>1, <4>2, DataFacts
    <3>2. StoreOK' /\ MemoryOK' BY <1>t, <2>0, <2>7, <3>1 DEF StoreOK, MemoryOK
    <3>3. want' \in [Views -> Data \cup {Unknown}] BY <2>7, CutShortOK
    <3> QED BY <1>0, <1>2, <1>t, <2>7, <3>2, <3>3, RequestFrame DEF At, RenameSteps
  <2>6. CASE /\ At(w, "rename views") /\ Reply(w)
             /\ renameViews(a, b)
             /\ want' = [want EXCEPT ![a] = NoZone,
                                  ![b] = IF @ = Unknown THEN @ ELSE want[a]]
             /\ UNCHANGED <<acls, rows>>
    <3>1. want' \in [Views -> Data \cup {Unknown}]
      <4>1. want[a] \in Data \cup {Unknown} /\ NoZone \in Data BY <1>1, <1>t, DataFacts
      <4>2. want' = [want EXCEPT ![a] = NoZone, ![b] = IF @ = Unknown THEN @ ELSE want[a]] BY <2>6
      <4> HIDE DEF a, b
      <4> QED BY <1>1, <1>t, <4>1, <4>2
    <3>2. CASE views[a] = None
      <4>1. StoreOK' /\ MemoryOK' BY <1>t, <2>0, <2>6, <3>2 DEF renameViews, StoreOK, MemoryOK
      <4> QED BY <1>0, <1>t, <2>6, <3>1, <4>1, ReplyOK, RequestFrame
    <3>3. CASE views[a] # None
      <4>1. views[a] \in Objects BY <1>1, <1>t, <3>3 DEF MemoryOK
      <4>2. obj' \in [Objects -> Zones]
        <5>1. obj' = [obj EXCEPT ![views[a]].target = b] BY <2>6, <3>3 DEF renameViews
        <5>2. obj \in [Objects -> Zones] /\ obj[views[a]] \in Zones BY <1>t, <4>1 DEF MemoryOK
        <5>3. [obj[views[a]] EXCEPT !.target = b] \in Zones BY <1>1, <5>2 DEF Zones
        <5>4. obj' = [obj EXCEPT ![views[a]] = [obj[views[a]] EXCEPT !.target = b]] BY <5>1, <5>2
        <5> QED BY <4>1, <5>2, <5>3, <5>4
      <4>3. views' \in [ACLNames -> Objects \cup {None}]
        BY <1>1, <1>t, <2>6, <3>3, <4>1 DEF renameViews, MemoryOK
      <4>4. StoreOK' /\ MemoryOK'
        BY <1>1, <1>t, <2>0, <2>6, <3>3, <4>2, <4>3 DEF renameViews, StoreOK, MemoryOK
      <4> QED BY <1>0, <1>t, <2>6, <3>1, <4>4, ReplyOK, RequestFrame
    <3> QED BY <3>2, <3>3
  <2> QED BY <1>5, <2>1, <2>2, <2>3, <2>4, <2>5, <2>6, <2>7 DEF RenameACL, Req
<1> QED BY <1>3, <1>4, <1>5

LEMMA TypeCrash == TypeInv /\ Crash => TypeInv'
<1> SUFFICES ASSUME TypeInv, Crash PROVE TypeInv' OBVIOUS
<1>1. cfg' = cfg /\ core' = core /\ UNCHANGED sqlite BY DEF Crash
<1>2. MemoryOK' BY DataFacts DEF Crash, MemoryOK, Zones, NoObject
<1>3. StoreOK' BY <1>1 DEF TypeInv, StoreOK, sqlite
<1>4. StartOK'
  <2>1. 1 \in 1 .. Len(cfg.core) + 1 BY ConfigFacts DEF TypeInv
  <2>2. start' = [pc |-> "register", block |-> 1] BY DEF Crash
  <2> QED BY <1>1, <2>1, <2>2 DEF StartOK, StartPC, Early, Importing
<1>5. WorkersOK' BY IdleOK DEF Crash, WorkersOK
<1>6. want' \in [Views -> Data \cup {Unknown}] BY CutShortOK DEF Crash
<1>7. requests' \in 0 .. MaxRequests /\ crashes' \in 0 .. MaxCrashes
  BY ManagerAssumption DEF Crash, TypeInv
<1> QED BY <1>1, <1>2, <1>3, <1>4, <1>5, <1>6, <1>7 DEF TypeInv

(* Every step keeps TypeInv.                                               *)
LEMMA TypeStep == TypeInv /\ [Next]_vars => TypeInv'
<1> SUFFICES ASSUME TypeInv, [Next]_vars PROVE TypeInv' OBVIOUS
<1>1. CASE StartStep BY <1>1, TypeRegister, TypeImport, TypeLoad DEF StartStep
<1>2. CASE Crash BY <1>2, TypeCrash
<1>3. CASE \E w \in Workers : RequestStep(w)
  BY <1>3, TypeCreate, TypeDelete, TypeEdit, TypeAcls DEF RequestStep
<1>4. CASE \E w \in Workers : \E r \in Requests : Request(w, r) BY <1>4, TypeRequest
<1>5. CASE UNCHANGED vars
  BY <1>5 DEF vars, sqlite, memory, bounds, TypeInv, StoreOK, MemoryOK, StartOK, WorkersOK, Ref
<1> QED BY <1>1, <1>2, <1>3, <1>4, <1>5 DEF Next

(* Whatever the Corefile, however many requests run at once and wherever   *)
(* the process dies, the state keeps its types: no zone object is built    *)
(* from rows that are not there, an ACL has one position, and a request    *)
(* under way is one that was sent or the second half of a move.            *)
THEOREM TypeCorrect == Spec => []TypeOK
<1>1. TypeInv => TypeOK
  <2> SUFFICES ASSUME TypeInv PROVE TypeOK OBVIOUS
  <2>1. ToSet(acls) \subseteq ACLNames BY AclFacts DEF TypeInv
  <2>2. ASSUME NEW w \in Workers
        PROVE  /\ \/ worker[w].req \in Requests \cup {NoRequest}
                  \/ worker[w].req.op = "move" /\ Len(worker[w].req.todo) = 1
               /\ worker[w].obj \in Objects \cup {None}
               /\ worker[w].seed \in SUBSET Records
               /\ worker[w].drop \subseteq ACLNames
    <3>1. WorkerOK(worker[w]) BY DEF TypeInv, WorkersOK
    <3>2. ASSUME NEW r \in Halves PROVE r.op = "move" /\ Len(r.todo) = 1
      BY DEF Halves, Ask
    <3> QED BY <3>1, <3>2 DEF WorkerOK, Asked
  <2>3. /\ cfg.core \in Seq(Block) /\ cfg.readonly \in BOOLEAN
        /\ cfg.workers \subseteq Workers /\ cfg.ops \subseteq {r.op : r \in Requests}
    BY ConfigFacts DEF TypeInv
  <2>4. obj \in [Objects -> [data : SUBSET Records, target : Views, source : {"admin", "corefile"}]]
    BY DEF TypeInv, MemoryOK, Zones
  <2>5. start.block \in 1 .. Len(cfg.core) + 1 BY DEF TypeInv, StartOK
  <2> QED BY <2>1, <2>2, <2>3, <2>4, <2>5 DEF TypeInv, TypeOK, StoreOK, MemoryOK
<1> QED BY <1>1, TypeInit, TypeStep, PTL DEF Spec

----------------------------------------------------------------------------
(* What can be started from.  Files that can be read; requests that only   *)
(* edit records; requests one at a time; the first two together; one block *)
(* for a view; dynamic blocks of the public zone only, since a             *)
(* registration goes by origin; the public block before those of views,    *)
(* since the import of a view makes a public zone that the block is then   *)
(* taken for (zone_import shows the other order).                          *)
Readable(b)  == b.file # NoZone
EditsOnly(c) == c.ops \subseteq {"edit", "move"}
Alone(c)     == \A v, w \in c.workers : v = w
Tame(c)      == EditsOnly(c) /\ \A i \in DOMAIN c.core : Readable(c.core[i])
OneEach(c)   == \A i, j \in DOMAIN c.core : c.core[i].view = c.core[j].view => i = j
PublicDynamic(c) ==
    \A i \in DOMAIN c.core : c.core[i].plugin = "dns-update-persistent" => c.core[i].view = "public"
PublicFirst(c) ==
    \A i, j \in DOMAIN c.core :
      c.core[i].view = "public" /\ Readable(c.core[i]) /\ c.core[j].view # "public" => i < j

(* Two requests of other kinds at once may undo each other half way. A     *)
(* Corefile that cannot be stripped is imported again at every start,      *)
(* which brings back what was deleted in between.                          *)
Orderly(c) == PublicDynamic(c) /\ (Alone(c) \/ Tame(c))
Faithful(c) == Orderly(c) /\ OneEach(c) /\ PublicFirst(c) /\ (c.readonly => EditsOnly(c))

(* The block is still to be imported; so are rows of the view; the view    *)
(* has rows; what was acknowledged for it is known; the request is under   *)
(* way.                                                                    *)
Ahead(i) == i \in DOMAIN core /\ start.block <= i /\ start.pc \in Early
Due(v)   == \E i \in DOMAIN core : Ahead(i) /\ core[i].view = v /\ Readable(core[i])
Filled(v) == rows[v] # NoZone
Known(v) == want[v] # Unknown
Busy(w)  == worker[w].pc # "idle"

(* Creations and removals that have changed one of the places and not yet  *)
(* the next.                                                               *)
Swapping == \E w \in Workers : worker[w].pc \in {"publish", "unregister"}
Creating == \E w \in Workers : worker[w].pc \in {"publish", "write zone"}
Dropping == \E w \in Workers : worker[w].pc = "drop views"

(* Who is at work was allowed to be; where only edits are, every ACL has a *)
(* view with rows.                                                         *)
Crew == \A w \in Workers : Busy(w) => w \in cfg.workers /\ worker[w].req.op \in cfg.ops

TameInv ==
    Tame(cfg) =>
      /\ \A w \in Workers : worker[w].pc \in {"idle", "record zone", "apply"}
      /\ \A a \in ToSet(acls) : Filled(a) /\ (a \in zviews \/ Due(a))
      /\ start.pc = "up" => \A a \in ToSet(acls) : views[a] # None

(* What the import has done: the blocks behind it are in the tables, and   *)
(* of the block it is at, the statements up to this one.                   *)
ImportInv ==
    /\ start.pc \in Importing \cup {"strip"} =>
         \A i \in DOMAIN core : i < start.block /\ Readable(core[i]) =>
           /\ Filled(core[i].view) /\ zone
           /\ core[i].view # "public" => core[i].view \in zviews
    /\ start.pc \in Importing \ {"import"} => Filled(Ref.view)
    /\ start.pc \in {"import acl", "import new view", "import apex"} => zone
    /\ start.pc \in {"import zone"} => Ref.view = "public" \/ Ref.view \in zviews
    /\ start.pc = "import apex" => Ref.view \in zviews
    /\ start.pc = "strip" => start.block > Len(core)

(* Before the zones are loaded memory holds at most what the Corefile      *)
(* registered, and that has, or is about to get, rows; a view with rows    *)
(* has an origin by the time the origins are loaded.                       *)
StartInv ==
    /\ start.pc = "register" => reg = None /\ start.block = 1
    /\ ~Loaded => primary = None /\ \A a \in ACLNames : views[a] = None
    /\ ~Loaded /\ reg # None => (Filled("public") /\ zone) \/ Due("public")
    /\ start.pc = "apex" => (zviews # {} => zone)
    /\ start.pc = "load" /\ (\E a \in zviews : Filled(a)) => zone /\ Filled("public")
    /\ start.pc = "load views" /\ (\E a \in zviews : Filled(a)) => reg # None

(* The public zone in memory, in the registry and in the tables.           *)
PublicInv ==
    /\ reg # None => obj[reg].target = "public"
    /\ Loaded => primary = reg \/ (primary = None /\ Swapping)
    /\ Loaded /\ reg # None => /\ obj[reg].data = rows["public"]
                               /\ zone \/ Creating

(* The same for views.  Each has a zone of its own that persists under its *)
(* name; its rows are that zone's unless a removal or renaming is taking   *)
(* them away, or one was cut short.                                        *)
Leaving(a) ==
    \E w \in Workers :
      /\ worker[w].pc \in {"delete acl views", "forget view", "rename rows", "rename views"}
      /\ worker[w].req.acl = a

ViewsInv ==
    \A a \in ACLNames : views[a] # None =>
      /\ obj[views[a]].target = a /\ views[a] # reg
      /\ \A b \in ACLNames : views[a] = views[b] => a = b
      /\ reg # None \/ Dropping
      /\ \/ ~Known(a)
         \/ a \in zviews /\ rows[a] = obj[views[a]].data
         \/ Leaving(a)

(* What each request has behind it at each step.                           *)
Local(w) ==
    LET x == worker[w]
        a == x.req.acl
        b == x.req.to
        v == Editing(x)
        Kept == views[a] # None /\ Known(a)
    IN
    /\ x.pc \in {"write rows", "register"} => reg = None
    /\ x.pc = "publish" => x.obj = reg
    /\ x.pc = "unregister" => primary = None
    /\ x.pc = "rename acl" => a \in ToSet(acls)
    /\ x.pc \in {"publish", "write zone"} => reg # None
    /\ x.pc \in {"register", "publish", "write zone"} => rows["public"] = {}
    /\ x.pc \in {"drop views", "drop rows", "delete rows", "delete view rows", "delete zone row"}
         => reg = None
    /\ x.pc \in {"drop rows", "delete rows", "delete view rows", "delete zone row"}
         => \A c \in ACLNames : views[c] = None
    /\ x.pc \in {"delete view rows", "delete zone row"} => \A u \in Views : rows[u] = NoZone
    /\ x.pc = "delete zone row" => zviews = {}
    /\ x.pc \in {"seed view", "view row", "put view"} =>
         reg # None /\ views[v] = None /\ v \in ToSet(acls)
    /\ x.pc = "seed view" => rows[v] = NoZone /\ x.seed = {}
    /\ x.pc \in {"view row", "put view"} => rows[v] = x.seed
    /\ x.pc = "put view" => v \in zviews
    /\ x.pc = "apply" => IF v = "public" THEN x.obj = reg
                         ELSE x.obj = views[v] /\ v \in ToSet(acls)
    /\ x.pc \in {"delete acl views", "forget view", "delete acl"} => rows[a] = NoZone
    /\ x.pc \in {"delete acl views", "forget view"} => (Kept => a \in x.drop)
    /\ x.pc = "delete acl" => ~Kept
    /\ x.pc \in {"rename view rows", "rename rows", "rename views"} => a # b /\ b \in ToSet(acls)
    /\ x.pc = "rename rows" => (Kept => rows[a] = obj[views[a]].data /\ b \in zviews)
    /\ x.pc = "rename views" => (Kept => rows[b] = obj[views[a]].data /\ b \in zviews)

PlaceInv == /\ TypeInv /\ Orderly(cfg) /\ Crew /\ TameInv /\ ImportInv /\ StartInv /\ PublicInv /\ ViewsInv
            /\ \A w \in Workers : Local(w)

(* Where requests come one at a time, nobody else is at work; where they   *)
(* only edit, nobody is at a step that changes a place others rely on.     *)
LEMMA OthersIdle ==
  ASSUME PlaceInv, NEW w \in Workers, worker[w].pc \notin {"idle", "record zone", "apply"}
  PROVE  ~Tame(cfg) /\ \A u \in Workers \ {w} : worker[u] = Idle
<1>1. ~Tame(cfg) BY DEF PlaceInv, TameInv
<1>2. Alone(cfg) BY <1>1 DEF PlaceInv, Orderly
<1>3. \A u \in Workers \ {w} : ~Busy(u) BY <1>2 DEF Alone, PlaceInv, Crew, Busy
<1> QED BY <1>1, <1>3 DEF Busy, PlaceInv, TypeInv, WorkersOK, WorkerOK

(* What is left to show of a request's step.                               *)
LEMMA PlaceFrame ==
  ASSUME PlaceInv, TypeInv', NEW w \in Workers, RequestOnly, start.pc = "up", Busy(w),
         \A u \in Workers \ {w} : worker'[u] = worker[u],
         worker'[w] = Idle \/ worker'[w].req.op = worker[w].req.op,
         TameInv', PublicInv', ViewsInv', \A u \in Workers : Local(u)'
  PROVE  PlaceInv'
<1>1. cfg' = cfg /\ core' = core /\ start' = start BY DEF RequestOnly
<1>2. Orderly(cfg') BY <1>1 DEF PlaceInv
<1>3. Crew'
  <2>1. ASSUME NEW u \in Workers, Busy(u)' PROVE (u \in cfg.workers /\ worker[u].req.op \in cfg.ops)'
    <3>1. CASE u # w BY <1>1, <2>1, <3>1 DEF PlaceInv, Crew, Busy
    <3>2. CASE u = w BY <1>1, <2>1, <3>2 DEF PlaceInv, Crew, Busy, Idle
    <3> QED BY <3>1, <3>2
  <2> QED BY <2>1 DEF Crew
<1>4. ImportInv' /\ StartInv'
  BY <1>1 DEF ImportInv, StartInv, Importing, Loaded
<1> QED BY <1>2, <1>3, <1>4 DEF PlaceInv

LEMMA AloneFrame ==
  ASSUME PlaceInv, TypeInv', NEW w \in Workers, RequestOnly, start.pc = "up",
         worker[w].pc \notin {"idle", "record zone", "apply"},
         \A u \in Workers \ {w} : worker'[u] = worker[u],
         worker'[w] = Idle \/ worker'[w].req.op = worker[w].req.op,
         PublicInv', ViewsInv', Local(w)'
  PROVE  PlaceInv'
<1>1. ~Tame(cfg) /\ \A u \in Workers \ {w} : worker'[u] = Idle BY OthersIdle
<1>2. ASSUME NEW u \in Workers PROVE Local(u)'
  <2>1. CASE u = w BY <2>1
  <2>2. CASE u # w
    <3>0. Idle.pc = "idle" BY DEF Idle
    <3>1. worker'[u].pc = "idle" BY <1>1, <2>2, <3>0
    <3> QED BY <3>1 DEF Local
  <2> QED BY <2>1, <2>2
<1>3. TameInv' BY <1>1 DEF TameInv, RequestOnly
<1> QED BY <1>2, <1>3, PlaceFrame DEF Busy

(* With the others idle, someone is at a step when this worker is.         *)
LEMMA OnlyOne ==
  ASSUME NEW w \in Workers, \A u \in Workers \ {w} : worker[u] = Idle
  PROVE  /\ Swapping <=> worker[w].pc \in {"publish", "unregister"}
         /\ Creating <=> worker[w].pc \in {"publish", "write zone"}
         /\ Dropping <=> worker[w].pc = "drop views"
         /\ \A a : Leaving(a) <=>
              /\ worker[w].pc \in {"delete acl views", "forget view", "rename rows", "rename views"}
              /\ worker[w].req.acl = a
<1>1. Idle.pc = "idle" BY DEF Idle
<1> QED BY <1>1 DEF Swapping, Creating, Dropping, Leaving

(* The requests keep PlaceInv: one lemma per kind, one case per step.      *)
LEMMA PlaceCreate ==
  ASSUME PlaceInv, TypeInv', NEW w \in Workers,
         CreateRows(w) \/ RegisterPrimary(w) \/ Publish(w) \/ UpsertZone(w)
  PROVE  PlaceInv'
<1> DEFINE x == worker[w]
<1>0. RequestOnly /\ start.pc = "up" /\ x.pc \in CreateSteps
  BY DEF CreateRows, RegisterPrimary, Publish, UpsertZone, At, CreateSteps
<1>1. x.pc \notin {"idle", "record zone", "apply", "drop views", "unregister", "delete acl views",
                   "forget view", "rename rows", "rename views"}
  BY <1>0 DEF CreateSteps
<1>2. \A u \in Workers \ {w} : worker[u] = Idle BY <1>1, OthersIdle
<1>t. /\ TypeInv /\ StoreOK /\ MemoryOK /\ WorkersOK /\ Loaded /\ Local(w) /\ DOMAIN worker = Workers
      /\ PublicInv /\ ViewsInv /\ WorkerOK(x)
  BY <1>0 DEF PlaceInv, TypeInv, Loaded, WorkersOK
<1>3. /\ Swapping <=> x.pc = "publish"
      /\ ~Dropping
      /\ \A a : ~Leaving(a)
  BY <1>0, <1>1, <1>2, OnlyOne DEF CreateSteps
<1>4. /\ primary = reg \/ (x.pc = "publish" /\ primary = None)
      /\ \A a \in ACLNames : views[a] # None =>
           /\ obj[views[a]].target = a /\ views[a] # reg /\ reg # None
           /\ \A b \in ACLNames : views[a] = views[b] => a = b
           /\ Known(a) => a \in zviews /\ rows[a] = obj[views[a]].data
  <2>1. primary = reg \/ (x.pc = "publish" /\ primary = None) BY <1>3, <1>t DEF PublicInv
  <2>2. ASSUME NEW a \in ACLNames, views[a] # None
        PROVE  /\ obj[views[a]].target = a /\ views[a] # reg /\ reg # None
               /\ \A b \in ACLNames : views[a] = views[b] => a = b
               /\ Known(a) => a \in zviews /\ rows[a] = obj[views[a]].data
    BY <1>3, <1>t, <2>2 DEF ViewsInv
  <2> QED BY <2>1, <2>2
<1>5. CASE CreateRows(w)
  <2>1. /\ x.pc = "write rows" /\ reg = None /\ worker'[w] = [x EXCEPT !.pc = "register"]
        /\ \A u \in Workers \ {w} : worker'[u] = worker[u]
    BY <1>5, <1>t DEF CreateRows, At, Goto, Local
  <2>2. worker'[w].pc = "register" /\ worker'[w].req = x.req BY <1>t, <2>1 DEF WorkerOK
  <2>3. rows'["public"] = {} /\ UNCHANGED <<reg, primary, views, obj, zviews, want, start>>
    BY <1>5, <1>t, DataFacts DEF CreateRows, memory, StoreOK, RequestOnly
  <2>4. PublicInv' BY <1>4, <2>1, <2>3 DEF PublicInv
  <2>5. ViewsInv' BY <1>4, <2>1, <2>3 DEF ViewsInv
  <2>6. Local(w)' BY <2>1, <2>2, <2>3 DEF Local
  <2> QED BY <1>0, <1>1, <2>1, <2>2, <2>4, <2>5, <2>6, AloneFrame
<1>6. CASE RegisterPrimary(w)
  <2>1. x.pc = "register" /\ reg = None /\ primary = None /\ rows["public"] = {}
    BY <1>4, <1>6, <1>t DEF RegisterPrimary, At, Local
  <2>2. /\ NewObject({}, "public", "admin") /\ reg' = Fresh
        /\ worker' = [worker EXCEPT ![w].pc = "publish", ![w].obj = Fresh]
        /\ UNCHANGED <<rows, zone, zviews, acls, primary, views, want, start>>
    BY <1>6, <2>1 DEF RegisterPrimary, RequestOnly, sqlite
  <2>3. obj'[Fresh] = [data |-> {}, target |-> "public", source |-> "admin"] /\ Fresh # None
    BY <1>t, <2>2, NewObjectOK, DataFacts
  <2>4. /\ worker'[w].pc = "publish" /\ worker'[w].req = x.req /\ worker'[w].obj = Fresh
        /\ \A u \in Workers \ {w} : worker'[u] = worker[u]
    BY <1>t, <2>2 DEF WorkerOK
  <2>5. PublicInv'
    <3>1. Swapping' /\ Creating'
      BY <2>4 DEF Swapping, Creating, Dropping
    <3>2. obj'[reg'].target = "public" /\ obj'[reg'].data = rows'["public"] BY <2>1, <2>2, <2>3
    <3> QED BY <2>1, <2>2, <3>1, <3>2 DEF PublicInv
  <2>6. ViewsInv' BY <1>4, <2>1, <2>2 DEF ViewsInv
  <2>7. Local(w)' BY <2>1, <2>2, <2>3, <2>4 DEF Local
  <2> QED BY <1>0, <1>1, <2>4, <2>5, <2>6, <2>7, AloneFrame
<1>7. CASE Publish(w)
  <2>1. /\ x.pc = "publish" /\ x.obj = reg /\ reg # None /\ rows["public"] = {}
        /\ worker'[w] = [x EXCEPT !.pc = "write zone"]
        /\ \A u \in Workers \ {w} : worker'[u] = worker[u]
    BY <1>7, <1>t DEF Publish, At, Goto, Local
  <2>2. worker'[w].pc = "write zone" /\ worker'[w].req = x.req BY <1>t, <2>1 DEF WorkerOK
  <2>3. primary' = reg /\ UNCHANGED <<rows, zone, reg, views, obj, zviews, want, start>>
    BY <1>7, <2>1 DEF Publish, sqlite, RequestOnly
  <2>4. PublicInv'
    <3>1. Creating' BY <2>2 DEF Swapping, Creating, Dropping
    <3> QED BY <1>t, <2>1, <2>3, <3>1 DEF PublicInv, Loaded
  <2>5. ViewsInv' BY <1>4, <2>1, <2>3 DEF ViewsInv, Known
  <2>6. Local(w)' BY <2>1, <2>2, <2>3 DEF Local
  <2> QED BY <1>0, <1>1, <2>1, <2>2, <2>4, <2>5, <2>6, AloneFrame
<1>8. CASE UpsertZone(w)
  <2>1. /\ x.pc = "write zone" /\ Reply(w) /\ zone' /\ primary = reg
        /\ UNCHANGED <<rows, zviews, obj, reg, primary, views, start>>
        /\ want' = [want EXCEPT !["public"] = {}]
    BY <1>4, <1>8 DEF UpsertZone, At, memory, RequestOnly
  <2>2. worker'[w] = Idle /\ \A u \in Workers \ {w} : worker'[u] = worker[u] BY <1>t, <2>1, ReplyOK
  <2>3. PublicInv' BY <1>t, <2>1 DEF PublicInv, Loaded
  <2>4. \A a \in ACLNames : want'[a] = want[a] BY <1>t, <2>1, DataFacts DEF TypeInv
  <2>5. ViewsInv' BY <1>4, <2>1, <2>4 DEF ViewsInv, Known
  <2>6. Local(w)'
    <3>1. Idle.pc = "idle" BY DEF Idle
    <3> QED BY <2>2, <3>1 DEF Local
  <2> QED BY <1>0, <1>1, <2>2, <2>3, <2>5, <2>6, AloneFrame
<1> QED BY <1>5, <1>6, <1>7, <1>8

LEMMA PlaceDelete ==
  ASSUME PlaceInv, TypeInv', NEW w \in Workers,
         DeletePrimary(w) \/ Unregister(w) \/ dropViews(w) \/ DeleteZone(w)
  PROVE  PlaceInv'
<1> DEFINE x == worker[w]
<1>0. RequestOnly /\ start.pc = "up" /\ x.pc \in DeleteSteps
  BY DEF DeletePrimary, Unregister, dropViews, DeleteZone, At, DeleteSteps
<1>1. x.pc \notin {"idle", "record zone", "apply", "publish", "write zone", "delete acl views",
                   "forget view", "rename rows", "rename views"}
  BY <1>0 DEF DeleteSteps
<1>2. \A u \in Workers \ {w} : worker[u] = Idle BY <1>1, OthersIdle
<1>t. /\ TypeInv /\ StoreOK /\ MemoryOK /\ WorkersOK /\ Loaded /\ Local(w) /\ DOMAIN worker = Workers
      /\ PublicInv /\ ViewsInv /\ WorkerOK(x)
  BY <1>0 DEF PlaceInv, TypeInv, Loaded, WorkersOK
<1>3. /\ Swapping <=> x.pc = "unregister"
      /\ ~Creating /\ (Dropping <=> x.pc = "drop views")
      /\ \A a : ~Leaving(a)
  BY <1>1, <1>2, OnlyOne
<1>4. /\ primary = reg \/ (x.pc = "unregister" /\ primary = None)
      /\ reg # None => zone
      /\ \A a \in ACLNames : views[a] # None =>
           /\ obj[views[a]].target = a /\ views[a] # reg
           /\ reg # None \/ x.pc = "drop views"
           /\ \A b \in ACLNames : views[a] = views[b] => a = b
           /\ Known(a) => a \in zviews /\ rows[a] = obj[views[a]].data
  <2>1. primary = reg \/ (x.pc = "unregister" /\ primary = None) BY <1>3, <1>t DEF PublicInv
  <2>2. reg # None => zone BY <1>3, <1>t DEF PublicInv
  <2>3. ASSUME NEW a \in ACLNames, views[a] # None
        PROVE  /\ obj[views[a]].target = a /\ views[a] # reg
               /\ reg # None \/ x.pc = "drop views"
               /\ \A b \in ACLNames : views[a] = views[b] => a = b
               /\ Known(a) => a \in zviews /\ rows[a] = obj[views[a]].data
    BY <1>3, <1>t, <2>3 DEF ViewsInv
  <2> QED BY <2>1, <2>2, <2>3
<1>g. ASSUME NEW pc, Goto(w, pc)
      PROVE  /\ worker'[w].pc = pc /\ worker'[w].req = x.req
             /\ \A u \in Workers \ {w} : worker'[u] = worker[u]
  BY <1>g, <1>t DEF Goto, WorkerOK
<1>5. CASE DeletePrimary(w)
  <2>1. /\ x.pc = "delete primary" /\ Goto(w, "unregister") /\ primary' = None
        /\ UNCHANGED <<rows, zone, zviews, acls, obj, reg, views, want, start>>
    BY <1>5 DEF DeletePrimary, At, sqlite, RequestOnly
  <2>2. worker'[w].pc = "unregister" BY <1>g, <2>1
  <2>4. PublicInv'
    <3>1. Swapping' BY <2>2 DEF Swapping
    <3> QED BY <1>4, <1>t, <2>1, <3>1 DEF PublicInv, Loaded
  <2>5. ViewsInv' BY <1>4, <2>1 DEF ViewsInv, Known
  <2>6. Local(w)' BY <2>1, <2>2 DEF Local
  <2> QED BY <1>0, <1>1, <1>g, <2>1, <2>4, <2>5, <2>6, AloneFrame
<1>6. CASE Unregister(w)
  <2>1. /\ x.pc = "unregister" /\ Goto(w, "drop views") /\ reg' = None
        /\ UNCHANGED <<rows, zone, zviews, acls, obj, primary, views, want, start>>
    BY <1>6 DEF Unregister, At, sqlite, RequestOnly
  <2>2. worker'[w].pc = "drop views" BY <1>g, <2>1
  <2>3. primary = None BY <1>t, <2>1 DEF Local
  <2>4. PublicInv' BY <2>1, <2>3 DEF PublicInv
  <2>5. ViewsInv'
    <3>1. Dropping' BY <2>2 DEF Dropping
    <3> QED BY <1>4, <2>1, <3>1 DEF ViewsInv, Known
  <2>6. Local(w)' BY <2>1, <2>2 DEF Local
  <2> QED BY <1>0, <1>1, <1>g, <2>1, <2>4, <2>5, <2>6, AloneFrame
<1>7. ASSUME reg = None, reg' = None, primary = None, primary' = None,
             \A a \in ACLNames : views'[a] = None
      PROVE  PublicInv' /\ ViewsInv'
  BY <1>7 DEF PublicInv, ViewsInv
<1>8. CASE dropViews(w)
  <2>0. x.pc \in {"drop views", "drop rows"} /\ reg = None /\ primary = None
    <3>1. x.pc \in {"drop views", "drop rows"} BY <1>8 DEF dropViews, At
    <3>2. reg = None BY <1>t, <3>1 DEF Local
    <3> QED BY <1>4, <3>1, <3>2
  <2>1. UNCHANGED <<zone, acls, obj, reg, primary, want, start>>
    BY <1>8 DEF dropViews, RequestOnly
  <2>2. \A a \in ACLNames : views'[a] = None
    <3>1. x.pc = "drop rows" => \A a \in ACLNames : views[a] = None BY <1>t DEF Local
    <3> QED BY <1>8, <3>1 DEF dropViews, At
  <2>3. /\ worker'[w].pc \in {"drop rows", "delete rows"} /\ worker'[w].req = x.req
        /\ \A u \in Workers \ {w} : worker'[u] = worker[u]
    <3>1. CASE Goto(w, "delete rows") BY <1>g, <3>1
    <3>2. CASE worker' = [worker EXCEPT ![w].pc = "drop rows",
                          ![w].drop = {a \in ACLNames : views[a] # None}]
      BY <1>t, <3>2 DEF WorkerOK
    <3>3. CASE x.pc = "drop rows" /\ \E a \in worker[w].drop : worker' = [worker EXCEPT ![w].drop = @ \ {a}]
      BY <1>t, <3>3 DEF WorkerOK
    <3> QED BY <1>8, <3>1, <3>2, <3>3 DEF dropViews, At
  <2>4. PublicInv' /\ ViewsInv' BY <1>7, <2>0, <2>1, <2>2
  <2>5. Local(w)' BY <2>0, <2>1, <2>2, <2>3 DEF Local
  <2> QED BY <1>0, <1>1, <2>3, <2>4, <2>5, AloneFrame
<1>9. CASE DeleteZone(w)
  <2>0. /\ x.pc \in {"delete rows", "delete view rows", "delete zone row"} /\ reg = None
        /\ primary = None /\ \A a \in ACLNames : views[a] = None
    <3>1. x.pc \in {"delete rows", "delete view rows", "delete zone row"} BY <1>9 DEF DeleteZone, At
    <3>2. reg = None /\ \A a \in ACLNames : views[a] = None BY <1>t, <3>1 DEF Local
    <3> QED BY <1>4, <3>1, <3>2
  <2>1. UNCHANGED <<acls, obj, reg, primary, views, start>> BY <1>9 DEF DeleteZone, RequestOnly, memory
  <2>2. PublicInv' /\ ViewsInv' BY <1>7, <2>0, <2>1
  <2>3. CASE At(w, "delete rows") /\ Goto(w, "delete view rows") /\ rows' = [v \in Views |-> NoZone]
    <3>1. worker'[w].pc = "delete view rows" /\ \A u \in Views : rows'[u] = NoZone BY <1>g, <2>3
    <3>2. Local(w)' BY <2>0, <2>1, <3>1 DEF Local
    <3> QED BY <1>0, <1>1, <1>g, <2>2, <2>3, <3>2, AloneFrame
  <2>4. CASE At(w, "delete view rows") /\ Goto(w, "delete zone row") /\ zviews' = {} /\ UNCHANGED rows
    <3>1. worker'[w].pc = "delete zone row" BY <1>g, <2>4
    <3>2. \A u \in Views : rows[u] = NoZone BY <1>t, <2>4 DEF Local, At
    <3>3. Local(w)' BY <2>0, <2>1, <2>4, <3>1, <3>2 DEF Local
    <3> QED BY <1>0, <1>1, <1>g, <2>2, <2>4, <3>3, AloneFrame
  <2>5. CASE Reply(w)
    <3>1. worker'[w] = Idle /\ \A u \in Workers \ {w} : worker'[u] = worker[u] BY <1>t, <2>5, ReplyOK
    <3>2. Idle.pc = "idle" BY DEF Idle
    <3>3. Local(w)' BY <3>1, <3>2 DEF Local
    <3> QED BY <1>0, <1>1, <2>2, <3>1, <3>3, AloneFrame
  <2> QED BY <1>9, <2>3, <2>4, <2>5 DEF DeleteZone
<1> QED BY <1>5, <1>6, <1>8, <1>9

LEMMA EditCalm ==
  ASSUME PlaceInv, NEW w \in Workers, worker[w].pc \in EditSteps
  PROVE  /\ ~Swapping /\ ~Creating /\ ~Dropping /\ \A a : ~Leaving(a)
         /\ \/ \A u \in Workers \ {w} : worker[u] = Idle
            \/ Tame(cfg) /\ \A u \in Workers : worker[u].pc \in {"idle", "record zone", "apply"}
<1>1. CASE Tame(cfg)
  <2>1. \A u \in Workers : worker[u].pc \in {"idle", "record zone", "apply"}
    BY <1>1 DEF PlaceInv, TameInv
  <2> QED BY <1>1, <2>1 DEF Swapping, Creating, Dropping, Leaving
<1>2. CASE ~Tame(cfg)
  <2>1. Alone(cfg) BY <1>2 DEF PlaceInv, Orderly
  <2>2. \A u \in Workers \ {w} : ~Busy(u)
    BY <2>1 DEF Alone, PlaceInv, Crew, Busy, EditSteps
  <2>3. \A u \in Workers \ {w} : worker[u] = Idle
    BY <2>2 DEF Busy, PlaceInv, TypeInv, WorkersOK, WorkerOK
  <2>4. worker[w].pc \notin {"publish", "unregister", "write zone", "drop views", "delete acl views",
                             "forget view", "rename rows", "rename views"}
    BY DEF EditSteps
  <2> QED BY <2>3, <2>4, OnlyOne
<1> QED BY <1>1, <1>2

(* Two edits may run at once where no view comes or goes.                  *)
LEMMA EditFrame ==
  ASSUME PlaceInv, TypeInv', NEW w \in Workers, RequestOnly, start.pc = "up",
         worker[w].pc \in {"record zone", "apply"},
         \A u \in Workers \ {w} : worker'[u] = worker[u],
         worker'[w] = Idle \/ worker'[w].req.op = worker[w].req.op,
         UNCHANGED <<reg, views, acls>>, TameInv', PublicInv', ViewsInv', Local(w)'
  PROVE  PlaceInv'
<1>1. ASSUME NEW u \in Workers, u # w PROVE Local(u)'
  <2>1. worker'[u] = worker[u] BY <1>1
  <2>2. worker[u] = Idle \/ worker[u].pc \in {"idle", "record zone", "apply"}
    BY <1>1, EditCalm DEF EditSteps
  <2>3. worker[u].pc \in {"idle", "record zone", "apply"}
    <3>1. Idle.pc = "idle" BY DEF Idle
    <3> QED BY <2>2, <3>1
  <2>4. Local(u) BY DEF PlaceInv
  <2>5. Editing(worker'[u]) = Editing(worker[u]) BY <2>1
  <2> QED BY <2>1, <2>3, <2>4, <2>5 DEF Local
<1>2. \A u \in Workers : Local(u)' BY <1>1
<1> QED BY <1>2, PlaceFrame DEF Busy

LEMMA PlaceEdit ==
  ASSUME PlaceInv, TypeInv', NEW w \in Workers,
         recordZone(w) \/ SeedView(w) \/ UpsertZoneView(w) \/ putView(w) \/ Apply(w)
  PROVE  PlaceInv'
<1> DEFINE x == worker[w]
           e == Head(x.req.todo)
           v == e.view
<1>0. RequestOnly /\ start.pc = "up" /\ x.pc \in EditSteps
  BY DEF recordZone, SeedView, UpsertZoneView, putView, Apply, At, EditSteps
<1>t. /\ TypeInv /\ StoreOK /\ MemoryOK /\ WorkersOK /\ Loaded /\ Local(w) /\ DOMAIN worker = Workers
      /\ PublicInv /\ ViewsInv /\ WorkerOK(x)
  BY <1>0 DEF PlaceInv, TypeInv, Loaded, WorkersOK
<1>1. /\ x.req \in Asked /\ x.req.todo # <<>> /\ Len(x.req.todo) \in {1, 2}
      /\ x.obj \in Objects \cup {None} /\ x.seed \in SUBSET Records
      /\ v \in Views /\ e.add \in SUBSET Records /\ e.del \in SUBSET Records
  <2>1. EditOK(e) BY <1>0, <1>t, ReqFacts
  <2> QED BY <1>0, <1>t, <2>1, ReqFacts DEF EditOK
<1>2. Editing(x) = v BY DEF Editing
<1>3. ~Swapping /\ ~Creating /\ ~Dropping /\ \A a : ~Leaving(a) BY <1>0, EditCalm
<1>4. /\ primary = reg
      /\ reg # None => zone /\ obj[reg].data = rows["public"] /\ obj[reg].target = "public"
      /\ \A a \in ACLNames : views[a] # None =>
           /\ obj[views[a]].target = a /\ views[a] # reg /\ reg # None
           /\ \A b \in ACLNames : views[a] = views[b] => a = b
           /\ Known(a) => a \in zviews /\ rows[a] = obj[views[a]].data
  <2>1. primary = reg BY <1>3, <1>t DEF PublicInv
  <2>2. reg # None => zone /\ obj[reg].data = rows["public"] /\ obj[reg].target = "public"
    BY <1>3, <1>t DEF PublicInv
  <2>3. ASSUME NEW a \in ACLNames, views[a] # None
        PROVE  /\ obj[views[a]].target = a /\ views[a] # reg /\ reg # None
               /\ \A b \in ACLNames : views[a] = views[b] => a = b
               /\ Known(a) => a \in zviews /\ rows[a] = obj[views[a]].data
    BY <1>3, <1>t, <2>3 DEF ViewsInv
  <2> QED BY <2>1, <2>2, <2>3
<1>i. Idle.pc = "idle" BY DEF Idle
<1>a. ToSet(acls) \subseteq ACLNames BY <1>t, AclFacts
<1> HIDE DEF v, e
<1>5. CASE recordZone(w)
  <2>0. x.pc = "record zone" BY <1>5 DEF recordZone, At
  <2>1. UNCHANGED <<rows, zone, zviews, acls, obj, reg, primary, views, start, cfg, core>>
    BY <1>5 DEF recordZone, sqlite, memory, RequestOnly
  <2>2. PublicInv' BY <1>4, <2>1 DEF PublicInv
  <2>k. \A a \in ACLNames : Known(a)' => Known(a)
    <3>1. UNCHANGED want \/ CutShort({Req(w)}) BY <1>5 DEF recordZone
    <3>2. ACLNames \subseteq Views BY DataFacts
    <3> QED BY <3>1, <3>2, CutFacts DEF Known
  <2>3. ViewsInv' BY <1>4, <2>1, <2>k DEF ViewsInv
  <2>4. ASSUME worker'[w].pc \in {"idle", "record zone", "apply"},
               \A u \in Workers \ {w} : worker'[u] = worker[u]
        PROVE  TameInv'
    <3>1. ASSUME Tame(cfg), NEW u \in Workers PROVE worker'[u].pc \in {"idle", "record zone", "apply"}
      BY <2>4, <3>1 DEF PlaceInv, TameInv
    <3> QED BY <2>1, <3>1 DEF PlaceInv, TameInv, Filled, Due, Ahead
  <2>5. CASE Reply(w)
    <3>1. worker'[w] = Idle /\ \A u \in Workers \ {w} : worker'[u] = worker[u] BY <1>t, <2>5, ReplyOK
    <3>3. Local(w)' BY <1>i, <3>1 DEF Local
    <3> QED BY <1>0, <1>i, <2>0, <2>1, <2>2, <2>3, <2>4, <3>1, <3>3, EditFrame
  <2>6. CASE \E o : /\ o # None /\ worker' = [worker EXCEPT ![w].pc = "apply", ![w].obj = o]
                    /\ IF v = "public" THEN o = reg ELSE v \in ToSet(acls) /\ o = views[v]
    <3>1. PICK o : /\ o # None /\ worker' = [worker EXCEPT ![w].pc = "apply", ![w].obj = o]
                   /\ IF v = "public" THEN o = reg ELSE v \in ToSet(acls) /\ o = views[v]
      BY <2>6
    <3>2. /\ worker'[w].pc = "apply" /\ worker'[w].req = x.req /\ worker'[w].obj = o
          /\ \A u \in Workers \ {w} : worker'[u] = worker[u]
      BY <1>t, <3>1 DEF WorkerOK
    <3>3. Editing(worker'[w]) = v BY <1>2, <3>2 DEF Editing
    <3>4. Local(w)' BY <2>1, <3>1, <3>2, <3>3 DEF Local
    <3> QED BY <1>0, <2>0, <2>1, <2>2, <2>3, <2>4, <3>2, <3>4, EditFrame
  <2>7. CASE /\ views[v] = None /\ v \in ToSet(acls) /\ reg # None
             /\ worker' = [worker EXCEPT
                   ![w].pc = IF rows[v] # NoZone THEN "view row" ELSE "seed view",
                   ![w].seed = IF rows[v] # NoZone THEN rows[v] ELSE {}]
    <3>1. ~Tame(cfg) BY <1>0, <2>7 DEF PlaceInv, TameInv
    <3>2. \A u \in Workers \ {w} : worker[u] = Idle BY <1>0, <3>1, EditCalm
    <3>3. /\ worker'[w].pc = (IF rows[v] # NoZone THEN "view row" ELSE "seed view")
          /\ worker'[w].seed = (IF rows[v] # NoZone THEN rows[v] ELSE {})
          /\ worker'[w].req = x.req /\ \A u \in Workers \ {w} : worker'[u] = worker[u]
      BY <1>t, <2>7 DEF WorkerOK
    <3>4. Editing(worker'[w]) = v BY <1>2, <3>3 DEF Editing
    <3>5. Local(w)'
      <4>0. reg' # None /\ views'[v] = None /\ v \in ToSet(acls') /\ rows'[v] = rows[v] BY <2>1, <2>7
      <4>1. CASE rows[v] = NoZone
        <5>1. worker'[w].pc = "seed view" /\ worker'[w].seed = {} BY <3>3, <4>1
        <5> QED BY <3>4, <4>0, <4>1, <5>1 DEF Local
      <4>2. CASE rows[v] # NoZone
        <5>1. worker'[w].pc = "view row" /\ worker'[w].seed = rows[v] BY <3>3, <4>2
        <5> QED BY <3>4, <4>0, <5>1 DEF Local
      <4> QED BY <4>1, <4>2
    <3>6. TameInv' BY <2>1, <3>1 DEF TameInv
    <3> QED BY <1>0, <2>0, <2>1, <2>2, <2>3, <3>3, <3>5, <3>6, EditFrame
  <2> QED
    <3>1. "public" \notin ToSet(acls) BY <1>a, DataFacts
    <3> QED BY <1>5, <2>5, <2>6, <2>7, <3>1 DEF recordZone, Req, v, e
<1>6. CASE SeedView(w)
  <2>1. /\ x.pc = "seed view" /\ Goto(w, "view row") /\ rows' = [rows EXCEPT ![v] = {}]
        /\ UNCHANGED <<zone, zviews, acls, obj, reg, primary, views, want, start>>
    BY <1>6 DEF SeedView, At, memory, RequestOnly, Req, v, e
  <2>2. /\ reg # None /\ views[v] = None /\ v \in ToSet(acls) /\ rows[v] = NoZone /\ x.seed = {}
    BY <1>2, <1>t, <2>1 DEF Local
  <2>3. v \in ACLNames /\ rows'[v] = {} /\ \A u \in Views : u # v => rows'[u] = rows[u]
    BY <1>1, <1>a, <1>t, <2>1, <2>2 DEF StoreOK
  <2>4. /\ worker'[w].pc = "view row" /\ worker'[w].req = x.req /\ worker'[w].seed = x.seed
        /\ \A u \in Workers \ {w} : worker'[u] = worker[u]
    BY <1>t, <2>1 DEF Goto, WorkerOK
  <2>5. Editing(worker'[w]) = v BY <1>2, <2>4 DEF Editing
  <2>6. PublicInv' BY <1>4, <2>1, <2>3, DataFacts DEF PublicInv
  <2>7. ViewsInv' BY <1>4, <2>1, <2>2, <2>3, DataFacts DEF ViewsInv, Known
  <2>8. Local(w)' BY <2>1, <2>2, <2>3, <2>4, <2>5 DEF Local
  <2> QED BY <1>0, <2>1, <2>4, <2>6, <2>7, <2>8, AloneFrame
<1>7. CASE UpsertZoneView(w)
  <2>1. /\ x.pc = "view row" /\ Goto(w, "put view") /\ zviews' = zviews \cup {v}
        /\ UNCHANGED <<rows, zone, acls, obj, reg, primary, views, want, start>>
    BY <1>7 DEF UpsertZoneView, At, memory, RequestOnly, Req, v, e
  <2>2. /\ reg # None /\ views[v] = None /\ v \in ToSet(acls) /\ rows[v] = x.seed
    BY <1>2, <1>t, <2>1 DEF Local
  <2>4. /\ worker'[w].pc = "put view" /\ worker'[w].req = x.req /\ worker'[w].seed = x.seed
        /\ \A u \in Workers \ {w} : worker'[u] = worker[u]
    BY <1>t, <2>1 DEF Goto, WorkerOK
  <2>5. Editing(worker'[w]) = v BY <1>2, <2>4 DEF Editing
  <2>6. PublicInv' BY <1>4, <2>1 DEF PublicInv
  <2>7. ViewsInv' BY <1>4, <2>1 DEF ViewsInv, Known
  <2>8. Local(w)' BY <2>1, <2>2, <2>4, <2>5 DEF Local
  <2> QED BY <1>0, <2>1, <2>4, <2>6, <2>7, <2>8, AloneFrame
<1>8. CASE putView(w)
  <2>1. /\ x.pc = "put view" /\ NewObject(x.seed, v, "admin")
        /\ views' = [views EXCEPT ![v] = Fresh]
        /\ worker' = [worker EXCEPT ![w].pc = "apply", ![w].obj = Fresh]
        /\ UNCHANGED <<rows, zone, zviews, acls, reg, primary, want, start>>
    BY <1>8 DEF putView, At, sqlite, RequestOnly, Req, v, e
  <2>2. /\ reg # None /\ views[v] = None /\ v \in ToSet(acls) /\ rows[v] = x.seed /\ v \in zviews
    BY <1>2, <1>t, <2>1 DEF Local
  <2>3. /\ obj'[Fresh] = [data |-> x.seed, target |-> v, source |-> "admin"]
        /\ \A o \in Objects : o # Fresh => obj'[o] = obj[o]
        /\ Fresh \in Objects /\ Fresh # None /\ Fresh # reg /\ \A a \in ACLNames : Fresh # views[a]
    BY <1>1, <1>t, <2>1, NewObjectOK
  <2>4. /\ worker'[w].pc = "apply" /\ worker'[w].req = x.req /\ worker'[w].obj = Fresh
        /\ \A u \in Workers \ {w} : worker'[u] = worker[u]
    BY <1>t, <2>1 DEF WorkerOK
  <2>5. Editing(worker'[w]) = v BY <1>2, <2>4 DEF Editing
  <2>v. v \in ACLNames /\ views'[v] = Fresh /\ \A a \in ACLNames : a # v => views'[a] = views[a]
    BY <1>a, <1>t, <2>1, <2>2 DEF MemoryOK
  <2>6. PublicInv'
    <3>1. obj'[reg] = obj[reg] BY <1>t, <2>2, <2>3 DEF MemoryOK
    <3> QED BY <1>4, <2>1, <3>1 DEF PublicInv
  <2>7. ViewsInv'
    <3>1. ASSUME NEW a \in ACLNames, views'[a] # None
          PROVE  /\ obj'[views'[a]].target = a /\ views'[a] # reg' /\ reg' # None
                 /\ \A b \in ACLNames : views'[a] = views'[b] => a = b
                 /\ Known(a)' => a \in zviews' /\ rows'[a] = obj'[views'[a]].data
      <4>1. CASE a = v
        <5>1. views'[a] = Fresh /\ obj'[views'[a]].target = a /\ obj'[views'[a]].data = rows'[a]
          <6>1. views'[a] = Fresh BY <2>v, <4>1
          <6>2. obj'[Fresh].target = a /\ obj'[Fresh].data = x.seed BY <2>3, <4>1
          <6>3. rows'[a] = x.seed BY <2>1, <2>2, <4>1
          <6> QED BY <6>1, <6>2, <6>3
        <5>2. \A b \in ACLNames : b # v => views'[b] # Fresh BY <2>3, <2>v
        <5> QED BY <2>1, <2>2, <2>3, <4>1, <5>1, <5>2
      <4>2. CASE a # v
        <5>1. views'[a] = views[a] /\ obj'[views[a]] = obj[views[a]] /\ views[a] # Fresh /\ views[a] # None
          BY <1>t, <2>3, <2>v, <3>1, <4>2 DEF MemoryOK
        <5>2. \A b \in ACLNames : views'[a] = views'[b] => a = b BY <1>4, <2>v, <5>1, <4>2
        <5>3. Known(a)' <=> Known(a) BY <2>1 DEF Known
        <5>4. /\ obj[views[a]].target = a /\ views[a] # reg /\ reg # None
              /\ Known(a) => a \in zviews /\ rows[a] = obj[views[a]].data
          BY <1>4, <5>1
        <5> QED BY <2>1, <5>1, <5>2, <5>3, <5>4
      <4> QED BY <4>1, <4>2
    <3> QED BY <3>1 DEF ViewsInv
  <2>8. Local(w)'
    <3>1. v # "public" BY <2>v, DataFacts
    <3> QED BY <2>1, <2>2, <2>4, <2>5, <2>v, <3>1 DEF Local
  <2> QED BY <1>0, <2>1, <2>4, <2>6, <2>7, <2>8, AloneFrame
<1>9. CASE Apply(w)
  <2> DEFINE o == x.obj
             new == (obj[o].data \ e.del) \cup e.add
  <2>1. /\ x.pc = "apply" /\ UNCHANGED <<zone, zviews, acls, reg, primary, views, start, cfg, core>>
    BY <1>9 DEF Apply, At, RequestOnly
  <2>2. o \in Objects BY <1>t, <2>1 DEF WorkerOK
  <2>3. /\ v = "public" => o = reg
        /\ v # "public" => o = views[v] /\ v \in ToSet(acls) /\ v \in ACLNames
    BY <1>2, <1>a, <1>t, <2>1 DEF Local
  <2>4. new \in SUBSET Records /\ new # NoZone
    <3>1. obj[o].data \in SUBSET Records BY <1>t, <2>2 DEF MemoryOK, Zones
    <3> QED BY <1>1, <3>1, DataFacts
  <2>5. obj[o].target = v
    <3>1. o # None BY <2>2, ObjectFacts
    <3> QED BY <1>4, <2>3, <3>1
  <2>6. ASSUME worker'[w].pc \in {"idle", "record zone", "apply"},
               \A u \in Workers \ {w} : worker'[u] = worker[u],
               \A a \in ACLNames : Filled(a) => Filled(a)'
        PROVE  TameInv'
    <3>1. ASSUME Tame(cfg), NEW u \in Workers PROVE worker'[u].pc \in {"idle", "record zone", "apply"}
      BY <2>6, <3>1 DEF PlaceInv, TameInv
    <3>2. \A a : Due(a)' <=> Due(a) BY <2>1 DEF Due, Ahead
    <3> QED BY <1>a, <2>1, <2>6, <3>1, <3>2 DEF PlaceInv, TameInv
  <2>7. CASE Reply(w) /\ CutShort({Req(w)}) /\ UNCHANGED <<obj, rows>>
    <3>k. \A a \in ACLNames : Known(a)' => Known(a)
      <4>1. ACLNames \subseteq Views BY DataFacts
      <4> QED BY <2>7, <4>1, CutFacts DEF Known
    <3>1. worker'[w] = Idle /\ \A u \in Workers \ {w} : worker'[u] = worker[u] BY <1>t, <2>7, ReplyOK
    <3>2. PublicInv' BY <1>4, <2>1, <2>7 DEF PublicInv
    <3>3. ViewsInv' BY <1>4, <2>1, <2>7, <3>k DEF ViewsInv
    <3>4. TameInv' BY <1>i, <2>6, <2>7, <3>1 DEF Filled
    <3>5. Local(w)' BY <1>i, <3>1 DEF Local
    <3> QED BY <1>0, <2>1, <3>1, <3>2, <3>3, <3>4, <3>5, EditFrame
  <2>8. CASE /\ obj' = [obj EXCEPT ![o].data = new]
             /\ rows' = [rows EXCEPT ![obj[o].target] = new]
             /\ want' = [want EXCEPT ![v] = EditWanted(@, e)]
             /\ IF Len(x.req.todo) = 1 THEN Reply(w)
                ELSE worker' = [worker EXCEPT ![w].pc = "record zone",
                                   ![w].req.todo = Tail(@), ![w].obj = None]
    <3> HIDE DEF new
    <3>1. /\ rows'[v] = new /\ \A u \in Views : u # v => rows'[u] = rows[u]
          /\ \A u \in Views : u # v => want'[u] = want[u]
          /\ want'[v] # Unknown => want[v] # Unknown
      <4>1. rows \in [Views -> Data] /\ want \in [Views -> Data \cup {Unknown}]
        BY <1>t DEF StoreOK, TypeInv
      <4>2. rows' = [rows EXCEPT ![v] = new] /\ want' = [want EXCEPT ![v] = EditWanted(want[v], e)]
        BY <1>1, <2>5, <2>8, <4>1
      <4>3. want'[v] = EditWanted(want[v], e) BY <1>1, <4>1, <4>2
      <4>4. want[v] = Unknown => want'[v] = Unknown BY <4>3 DEF EditWanted
      <4>5. want'[v] # Unknown => want[v] # Unknown BY <4>4
      <4>6. rows'[v] = new /\ \A u \in Views : u # v => rows'[u] = rows[u] BY <1>1, <4>1, <4>2
      <4>7. \A u \in Views : u # v => want'[u] = want[u] BY <1>1, <4>1, <4>2
      <4> QED BY <4>5, <4>6, <4>7
    <3>2. /\ obj'[o].data = new /\ obj'[o].target = obj[o].target
          /\ \A p \in Objects : p # o => obj'[p] = obj[p]
      BY <1>t, <2>2, <2>8 DEF MemoryOK, Zones
    <3>3. PublicInv'
      <4>1. CASE v = "public" BY <1>4, <2>1, <2>3, <2>5, <3>1, <3>2, <4>1 DEF PublicInv
      <4>2. CASE v # "public"
        <5>1. reg # o BY <1>4, <2>2, <2>3, <4>2, ObjectFacts
        <5>2. reg # None => obj'[reg] = obj[reg] BY <1>t, <3>2, <5>1 DEF MemoryOK
        <5> QED BY <1>4, <2>1, <3>1, <4>2, <5>2, DataFacts DEF PublicInv
      <4> QED BY <4>1, <4>2
    <3>4. ViewsInv'
      <4>1. ASSUME NEW a \in ACLNames, views[a] # None
            PROVE  /\ obj'[views[a]].target = a
                   /\ Known(a)' => a \in zviews /\ rows'[a] = obj'[views[a]].data
        <5>1. a \in Views /\ a # "public" /\ views[a] \in Objects
          BY <1>t, <4>1, DataFacts DEF MemoryOK
        <5>2. CASE a = v
          <6>1. views[a] = o BY <2>3, <5>1, <5>2
          <6>2. obj[o].target = a /\ (Known(a) => a \in zviews) BY <1>4, <4>1, <6>1
          <6>3. obj'[views[a]].target = a /\ obj'[views[a]].data = new BY <3>2, <6>1, <6>2
          <6>4. rows'[a] = new /\ (Known(a)' => Known(a)) BY <3>1, <5>2 DEF Known
          <6> QED BY <6>2, <6>3, <6>4
        <5>3. CASE a # v
          <6>1. views[a] # o
            BY <1>4, <2>2, <2>3, <4>1, <5>3, ObjectFacts
          <6>2. rows'[a] = rows[a] /\ want'[a] = want[a] BY <3>1, <5>1, <5>3
          <6>3. obj'[views[a]] = obj[views[a]] BY <3>2, <5>1, <6>1
          <6> QED BY <1>4, <4>1, <6>2, <6>3 DEF Known
        <5> QED BY <5>2, <5>3
      <4> QED BY <1>4, <2>1, <4>1 DEF ViewsInv
    <3>5. \A a \in ACLNames : Filled(a) => Filled(a)'
      BY <2>4, <3>1, DataFacts DEF Filled
    <3>6. CASE Reply(w)
      <4>1. worker'[w] = Idle /\ \A u \in Workers \ {w} : worker'[u] = worker[u] BY <1>t, <3>6, ReplyOK
      <4>2. TameInv' BY <1>i, <2>6, <3>5, <4>1
      <4>3. Local(w)' BY <1>i, <4>1 DEF Local
      <4> QED BY <1>0, <2>1, <3>3, <3>4, <4>1, <4>2, <4>3, EditFrame
    <3>7. CASE worker' = [worker EXCEPT ![w].pc = "record zone",
                                   ![w].req.todo = Tail(@), ![w].obj = None]
      <4>1. /\ worker'[w].pc = "record zone" /\ worker'[w].req.op = x.req.op
            /\ \A u \in Workers \ {w} : worker'[u] = worker[u]
        BY <1>t, <1>1, <3>7, AskedFacts DEF WorkerOK
      <4>2. TameInv' BY <2>6, <3>5, <4>1
      <4>3. Local(w)' BY <4>1 DEF Local
      <4> QED BY <1>0, <2>1, <3>3, <3>4, <4>1, <4>2, <4>3, EditFrame
    <3> QED BY <2>8, <3>6, <3>7
  <2> QED BY <1>9, <2>7, <2>8 DEF Apply, Req, v, e
<1> QED BY <1>5, <1>6, <1>7, <1>8, <1>9

LEMMA PlaceAcls ==
  ASSUME PlaceInv, TypeInv', NEW w \in Workers, CreateACL(w) \/ DeleteACL(w) \/ RenameACL(w)
  PROVE  PlaceInv'
<1> DEFINE x == worker[w]
<1>0. RequestOnly /\ start.pc = "up" /\ x.pc \in DropSteps \cup RenameSteps \cup {"insert acl"}
  BY DEF CreateACL, DeleteACL, RenameACL, At, DropSteps, RenameSteps
<1>1. x.pc \notin {"idle", "record zone", "apply", "publish", "unregister", "write zone", "drop views"}
  BY <1>0 DEF DropSteps, RenameSteps
<1>2. \A u \in Workers \ {w} : worker[u] = Idle BY <1>1, OthersIdle
<1>t. /\ TypeInv /\ StoreOK /\ MemoryOK /\ WorkersOK /\ Loaded /\ Local(w) /\ DOMAIN worker = Workers
      /\ PublicInv /\ ViewsInv /\ WorkerOK(x) /\ want \in [Views -> Data \cup {Unknown}]
  BY <1>0 DEF PlaceInv, TypeInv, Loaded, WorkersOK
<1>p. PICK a, b : a = x.req.acl /\ b = x.req.to OBVIOUS
<1>n. a \in ACLNames /\ b \in ACLNames /\ a \in Views /\ b \in Views /\ a # "public" /\ b # "public"
  BY <1>0, <1>p, <1>t, ReqFacts, DataFacts
<1>3. /\ ~Swapping /\ ~Creating /\ ~Dropping
      /\ \A c : Leaving(c) <=>
           /\ x.pc \in {"delete acl views", "forget view", "rename rows", "rename views"} /\ c = a
  <2>1. ~Swapping /\ ~Creating /\ ~Dropping BY <1>1, <1>2, OnlyOne
  <2>2. \A c : Leaving(c) <=>
          /\ x.pc \in {"delete acl views", "forget view", "rename rows", "rename views"}
          /\ x.req.acl = c
    BY <1>2, OnlyOne
  <2> QED BY <1>p, <2>1, <2>2
<1>4. /\ primary = reg
      /\ reg # None => zone /\ obj[reg].data = rows["public"] /\ obj[reg].target = "public"
      /\ \A c \in ACLNames : views[c] # None =>
           /\ obj[views[c]].target = c /\ views[c] # reg /\ reg # None /\ views[c] \in Objects
           /\ \A d \in ACLNames : views[c] = views[d] => c = d
           /\ \/ ~Known(c)
              \/ c \in zviews /\ rows[c] = obj[views[c]].data
              \/ x.pc \in {"delete acl views", "forget view", "rename rows", "rename views"} /\ c = a
  <2>1. primary = reg BY <1>3, <1>t DEF PublicInv
  <2>2. reg # None => zone /\ obj[reg].data = rows["public"] /\ obj[reg].target = "public"
    BY <1>3, <1>t DEF PublicInv
  <2>3. ASSUME NEW c \in ACLNames, views[c] # None
        PROVE  /\ obj[views[c]].target = c /\ views[c] # reg /\ reg # None
               /\ \A d \in ACLNames : views[c] = views[d] => c = d
               /\ \/ ~Known(c)
                  \/ c \in zviews /\ rows[c] = obj[views[c]].data
                  \/ x.pc \in {"delete acl views", "forget view", "rename rows", "rename views"} /\ c = a
    BY <1>3, <1>t, <2>3 DEF ViewsInv
  <2>4. ASSUME NEW c \in ACLNames, views[c] # None PROVE views[c] \in Objects
    BY <1>t, <2>4 DEF MemoryOK
  <2> QED BY <2>1, <2>2, <2>3, <2>4
<1>j. ASSUME NEW c \in ACLNames, NEW d \in ACLNames, views[c] # None, views[c] = views[d] PROVE c = d
  BY <1>4, <1>j
<1>i. Idle.pc = "idle" BY DEF Idle
<1>g. ASSUME NEW pc, Goto(w, pc)
      PROVE  /\ worker'[w].pc = pc /\ worker'[w].req = x.req /\ worker'[w].drop = x.drop
             /\ worker'[w].req.acl = a /\ worker'[w].req.to = b
             /\ \A u \in Workers \ {w} : worker'[u] = worker[u]
  BY <1>g, <1>p, <1>t DEF Goto, WorkerOK
<1>r. ASSUME Reply(w)
      PROVE  /\ worker'[w] = Idle /\ \A u \in Workers \ {w} : worker'[u] = worker[u]
             /\ Local(w)'
  <2>1. worker'[w] = Idle /\ \A u \in Workers \ {w} : worker'[u] = worker[u] BY <1>r, <1>t, ReplyOK
  <2> QED BY <1>i, <2>1 DEF Local
<1>u. start' = start /\ UNCHANGED <<zone, reg, primary>> BY DEF RequestOnly, CreateACL, DeleteACL, RenameACL, memory
(* What a rename or a removal must show of the views.                      *)
<1>v. ASSUME \A c \in ACLNames : views'[c] # None =>
               /\ obj'[views'[c]].target = c /\ views'[c] # reg /\ reg # None
               /\ \A d \in ACLNames : views'[c] = views'[d] => c = d
               /\ Known(c)' => \/ c \in zviews' /\ rows'[c] = obj'[views'[c]].data
                               \/ Leaving(c)'
      PROVE  ViewsInv'
  BY <1>u, <1>v DEF ViewsInv
<1>w. ASSUME rows'["public"] = rows["public"], reg # None => obj'[reg] = obj[reg] PROVE PublicInv'
  BY <1>4, <1>u, <1>w DEF PublicInv
<1>5. CASE CreateACL(w)
  <2>1. /\ x.pc = "insert acl" /\ Reply(w) /\ UNCHANGED <<rows, zviews, obj, views, want>>
    BY <1>5 DEF CreateACL, At, memory
  <2>2. PublicInv' BY <1>w, <2>1
  <2>3. ViewsInv' BY <1>4, <1>v, <2>1 DEF Known
  <2> QED BY <1>0, <1>1, <1>r, <2>1, <2>2, <2>3, AloneFrame
<1>6. CASE DeleteACL(w)
  <2>0. obj' = obj BY <1>6 DEF DeleteACL
  <2>1. CASE /\ At(w, "delete acl rows") /\ rows' = [rows EXCEPT ![a] = NoZone]
             /\ worker' = [worker EXCEPT ![w].pc = "delete acl views",
                                      ![w].drop = zviews \cap {a}]
             /\ UNCHANGED <<zviews, views, acls, want>>
    <3>1. /\ worker'[w].pc = "delete acl views" /\ worker'[w].req = x.req
          /\ worker'[w].req.acl = a /\ worker'[w].drop = zviews \cap {a}
          /\ \A u \in Workers \ {w} : worker'[u] = worker[u]
      BY <1>p, <1>t, <2>1 DEF WorkerOK
    <3>2. rows'[a] = NoZone /\ \A u \in Views : u # a => rows'[u] = rows[u]
      BY <1>n, <1>t, <2>1 DEF StoreOK
    <3>3. Leaving(a)' BY <3>1 DEF Leaving
    <3>4. PublicInv' BY <1>n, <1>w, <2>0, <3>2, DataFacts
    <3>5. ViewsInv' BY <1>4, <1>v, <2>0, <2>1, <3>2, <3>3, DataFacts DEF Known, At
    <3>6. views[a] # None /\ Known(a) => a \in zviews BY <1>4, <1>n, <2>1 DEF At
    <3>7. Local(w)' BY <2>1, <3>1, <3>2, <3>6 DEF Local, Known
    <3> QED BY <1>0, <1>1, <3>1, <3>4, <3>5, <3>7, AloneFrame
  <2>2. CASE /\ At(w, "delete acl views") /\ Goto(w, "forget view")
             /\ zviews' = zviews \ {a} /\ UNCHANGED <<rows, views, acls, want>>
    <3>1. /\ worker'[w].pc = "forget view" /\ worker'[w].req = x.req /\ worker'[w].req.acl = a
          /\ worker'[w].drop = x.drop /\ \A u \in Workers \ {w} : worker'[u] = worker[u]
      BY <1>g, <2>2
    <3>2. rows[a] = NoZone /\ (views[a] # None /\ Known(a) => a \in x.drop)
      BY <1>p, <1>t, <2>2 DEF Local, At
    <3>3. Leaving(a)' BY <3>1 DEF Leaving
    <3>4. PublicInv' BY <1>w, <2>0, <2>2
    <3>5. ViewsInv' BY <1>4, <1>v, <2>0, <2>2, <3>3 DEF Known, At
    <3>7. Local(w)' BY <2>2, <3>1, <3>2 DEF Local, Known
    <3> QED BY <1>0, <1>1, <3>1, <3>4, <3>5, <3>7, AloneFrame
  <2>3. CASE /\ At(w, "forget view") /\ Goto(w, "delete acl")
             /\ views' = [c \in ACLNames |-> IF c \in worker[w].drop THEN None ELSE views[c]]
             /\ UNCHANGED <<rows, zviews, acls, want>>
    <3>1. /\ worker'[w].pc = "delete acl" /\ worker'[w].req = x.req /\ worker'[w].req.acl = a
          /\ \A u \in Workers \ {w} : worker'[u] = worker[u]
      BY <1>g, <2>3
    <3>2. rows[a] = NoZone /\ (views[a] # None /\ Known(a) => a \in x.drop)
      BY <1>p, <1>t, <2>3 DEF Local, At
    <3>3. \A c \in ACLNames : views'[c] # None => views'[c] = views[c] /\ c \notin x.drop
      BY <2>3
    <3>4. PublicInv' BY <1>w, <2>0, <2>3
    <3>5. ViewsInv'
      <4>1. \A c, d \in ACLNames : views'[c] # None /\ views'[c] = views'[d] => c = d
        <5> SUFFICES ASSUME NEW c \in ACLNames, NEW d \in ACLNames, views'[c] # None,
                            views'[c] = views'[d]
                     PROVE  c = d
          OBVIOUS
        <5>1. views'[c] = views[c] /\ views'[d] = views[d] BY <3>3
        <5> QED BY <1>j, <5>1
      <4> QED BY <1>4, <1>v, <2>0, <2>3, <3>2, <3>3, <4>1 DEF Known
    <3>6. ~(views'[a] # None /\ Known(a)) BY <1>n, <3>2, <3>3
    <3>7. Local(w)' BY <2>3, <3>1, <3>2, <3>6 DEF Local, Known
    <3> QED BY <1>0, <1>1, <3>1, <3>4, <3>5, <3>7, AloneFrame
  <2>4. CASE /\ At(w, "delete acl") /\ Reply(w)
             /\ want' = [want EXCEPT ![a] = IF @ = Unknown THEN @ ELSE NoZone]
             /\ UNCHANGED <<rows, zviews, views>>
    <3>1. views[a] = None \/ ~Known(a) BY <1>p, <1>t, <2>4 DEF Local, At
    <3>2. \A c \in ACLNames : c # a => want'[c] = want[c] BY <1>t, <2>4, DataFacts
    <3>3. want[a] = Unknown => want'[a] = Unknown BY <1>n, <1>t, <2>4
    <3>4. PublicInv' BY <1>w, <2>0, <2>4
    <3>5. ViewsInv' BY <1>4, <1>v, <2>0, <2>4, <3>1, <3>2, <3>3 DEF Known, At
    <3> QED BY <1>0, <1>1, <1>r, <2>4, <3>4, <3>5, AloneFrame
  <2> QED BY <1>6, <1>p, <2>1, <2>2, <2>3, <2>4 DEF DeleteACL, Req
<1>7. CASE RenameACL(w)
  <2>1. CASE /\ At(w, "rename acl") /\ Reply(w)
             /\ UNCHANGED <<acls, zviews, rows, obj, views, want>>
    <3>1. PublicInv' BY <1>w, <2>1
    <3>2. ViewsInv' BY <1>4, <1>v, <2>1 DEF Known, At
    <3> QED BY <1>0, <1>1, <1>r, <2>1, <3>1, <3>2, AloneFrame
  <2>2. CASE /\ At(w, "rename acl") /\ b \notin ToSet(acls) /\ Goto(w, "rename view rows")
             /\ acls' = [i \in DOMAIN acls |-> IF acls[i] = a THEN b ELSE acls[i]]
             /\ UNCHANGED <<zviews, rows, obj, views, want>>
    <3>1. PublicInv' BY <1>w, <2>2
    <3>2. ViewsInv' BY <1>4, <1>v, <2>2 DEF Known, At
    <3>3. a \in ToSet(acls) BY <1>p, <1>t, <2>2 DEF Local, At
    <3>4. ToSet(acls') = (ToSet(acls) \ {a}) \cup {b} BY <1>n, <1>t, <2>2, <3>3, RenamedFacts
    <3>5. a # b /\ b \in ToSet(acls') BY <2>2, <3>3, <3>4
    <3>6. /\ worker'[w].pc = "rename view rows" /\ worker'[w].req.acl = a /\ worker'[w].req.to = b
          /\ worker'[w].req = x.req /\ \A u \in Workers \ {w} : worker'[u] = worker[u]
      BY <1>g, <2>2
    <3>7. Local(w)' BY <3>5, <3>6 DEF Local
    <3> QED BY <1>0, <1>1, <3>1, <3>2, <3>6, <3>7, AloneFrame
  <2>a. x.pc \in {"rename view rows", "rename rows", "rename views"} => a # b /\ b \in ToSet(acls)
    BY <1>p, <1>t DEF Local
  <2>3. CASE /\ At(w, "rename view rows") /\ Goto(w, "rename rows")
             /\ zviews' = IF a \in zviews THEN (zviews \ {a}) \cup {b} ELSE zviews
             /\ UNCHANGED <<acls, rows, obj, views, want>>
    <3>1. PublicInv' BY <1>w, <2>3
    <3>6. /\ worker'[w].pc = "rename rows" /\ worker'[w].req.acl = a /\ worker'[w].req.to = b
          /\ worker'[w].req = x.req /\ \A u \in Workers \ {w} : worker'[u] = worker[u]
      BY <1>g, <2>3
    <3>l. Leaving(a)' BY <3>6 DEF Leaving
    <3>z. \A c \in ACLNames : c # a /\ c \in zviews => c \in zviews' BY <2>3
    <3>2. ViewsInv' BY <1>4, <1>v, <2>3, <3>l, <3>z DEF Known, At
    <3>3. views[a] # None /\ Known(a) => a \in zviews /\ rows[a] = obj[views[a]].data
      BY <1>4, <1>n, <2>3 DEF At
    <3>4. views[a] # None /\ Known(a) => b \in zviews' BY <2>3, <3>3
    <3>7. Local(w)' BY <2>3, <2>a, <3>3, <3>4, <3>6 DEF Local, Known, At
    <3> QED BY <1>0, <1>1, <3>1, <3>2, <3>6, <3>7, AloneFrame
  <2>4. CASE /\ At(w, "rename rows") /\ (rows[a] = NoZone \/ rows[b] = NoZone)
             /\ Goto(w, "rename views")
             /\ rows' = IF rows[a] = NoZone THEN rows
                     ELSE [rows EXCEPT ![a] = NoZone, ![b] = rows[a]]
             /\ UNCHANGED <<acls, zviews, obj, views, want>>
    <3>0. a # b /\ b \in ToSet(acls) BY <2>4, <2>a DEF At
    <3>r. /\ rows[a] = NoZone => rows' = rows
          /\ rows[a] # NoZone => rows'[a] = NoZone /\ rows'[b] = rows[a]
          /\ \A u \in Views : u # a /\ u # b => rows'[u] = rows[u]
      BY <1>n, <1>t, <2>4, <3>0 DEF StoreOK
    <3>1. PublicInv' BY <1>n, <1>w, <2>4, <3>r, DataFacts
    <3>6. /\ worker'[w].pc = "rename views" /\ worker'[w].req.acl = a /\ worker'[w].req.to = b
          /\ worker'[w].req = x.req /\ \A u \in Workers \ {w} : worker'[u] = worker[u]
      BY <1>g, <2>4
    <3>l. Leaving(a)' BY <3>6 DEF Leaving
    <3>d. \A c \in ACLNames : views[c] # None => obj[views[c]].data # NoZone
      <4>1. \A o \in Objects : obj[o].data \in SUBSET Records BY <1>t DEF MemoryOK, Zones
      <4>2. \A c \in ACLNames : views[c] # None => views[c] \in Objects BY <1>4
      <4>3. NoZone \notin SUBSET Records BY DataFacts
      <4> QED BY <4>1, <4>2, <4>3
    <3>b. views[b] # None /\ Known(b) => b \in zviews /\ rows'[b] = obj[views[b]].data
      BY <1>4, <1>n, <2>4, <3>0, <3>d, <3>r DEF At
    <3>2. ViewsInv' BY <1>4, <1>v, <2>4, <3>b, <3>l, <3>r, DataFacts DEF Known, At
    <3>3. views[a] # None /\ Known(a) => rows[a] = obj[views[a]].data /\ b \in zviews
      BY <1>p, <1>t, <2>4 DEF Local, At
    <3>4. views[a] # None /\ Known(a) => rows'[b] = obj[views[a]].data /\ b \in zviews
      BY <1>n, <3>3, <3>d, <3>r
    <3>7. Local(w)' BY <2>4, <3>0, <3>4, <3>6 DEF Local, Known
    <3> QED BY <1>0, <1>1, <3>1, <3>2, <3>6, <3>7, AloneFrame
  <2>7. CASE /\ At(w, "rename rows") /\ NoZone \notin {rows[a], rows[b]}
             /\ rows[a] \cap rows[b] = {} /\ Goto(w, "rename views")
             /\ rows' = [rows EXCEPT ![a] = NoZone, ![b] = rows[a] \cup rows[b]]
             /\ CutShort({Req(w)}) /\ UNCHANGED <<acls, zviews, obj, views>>
    <3>0. a # b /\ b \in ToSet(acls) BY <2>7, <2>a DEF At
    <3>r. \A u \in Views : u # a /\ u # b => rows'[u] = rows[u]
      BY <1>n, <1>t, <2>7, <3>0 DEF StoreOK
    <3>1. PublicInv' BY <1>n, <1>w, <2>7, <3>r, DataFacts
    <3>6. /\ worker'[w].pc = "rename views" /\ worker'[w].req.acl = a /\ worker'[w].req.to = b
          /\ worker'[w].req = x.req /\ \A u \in Workers \ {w} : worker'[u] = worker[u]
      BY <1>g, <2>7
    <3>2. x.req.op = "renameACL" BY <1>t, <2>7 DEF WorkerOK, RenameSteps, At
    <3>3. /\ want'[a] = Unknown /\ want'[b] = Unknown
          /\ \A c \in ACLNames : want'[c] # Unknown => want'[c] = want[c]
      BY <1>n, <1>p, <2>7, <3>2, DataFacts DEF CutShort, Touched, Req
    <3>4. ViewsInv' BY <1>4, <1>v, <2>7, <3>3, <3>r, DataFacts DEF Known, At
    <3>7. Local(w)' BY <2>7, <3>0, <3>3, <3>6 DEF Local, Known
    <3> QED BY <1>0, <1>1, <3>1, <3>4, <3>6, <3>7, AloneFrame
  <2>5. CASE /\ x.pc \in {"rename view rows", "rename rows"}
             /\ Reply(w) /\ CutShort({Req(w)})
             /\ UNCHANGED <<acls, zviews, rows, obj, views>>
    <3>1. PublicInv' BY <1>w, <2>5
    <3>2. x.req.op = "renameACL" BY <1>t, <2>5 DEF WorkerOK, RenameSteps
    <3>3. want'[a] = Unknown /\ \A c \in ACLNames : want'[c] # Unknown => want'[c] = want[c]
      BY <1>n, <1>p, <2>5, <3>2, DataFacts DEF CutShort, Touched, Req
    <3>4. ViewsInv' BY <1>4, <1>v, <2>5, <3>3 DEF Known
    <3> QED BY <1>0, <1>1, <1>r, <2>5, <3>1, <3>4, AloneFrame
  <2>6. CASE /\ At(w, "rename views") /\ Reply(w)
             /\ renameViews(a, b)
             /\ want' = [want EXCEPT ![a] = NoZone,
                                  ![b] = IF @ = Unknown THEN @ ELSE want[a]]
             /\ UNCHANGED <<acls, rows>>
    <3>0. a # b /\ b \in ToSet(acls) BY <2>6, <2>a DEF At
    <3>w. /\ \A c \in ACLNames : c # a /\ c # b => want'[c] = want[c]
          /\ want'[b] # Unknown => want[b] # Unknown /\ want[a] # Unknown
      <4>1. \A c \in ACLNames : c \in Views BY DataFacts
      <4> QED BY <1>n, <1>t, <2>6, <3>0, <4>1
    <3>k. views[a] # None /\ Known(a) => rows[b] = obj[views[a]].data /\ b \in zviews
      BY <1>p, <1>t, <2>6 DEF Local, At
    <3>1. CASE views[a] = None
      <4>1. UNCHANGED <<obj, views, zviews>> BY <2>6, <3>1 DEF renameViews
      <4>2. PublicInv' BY <1>w, <2>6, <4>1
      <4>3. ViewsInv' BY <1>4, <1>v, <2>6, <3>0, <3>1, <3>w, <4>1 DEF Known
      <4> QED BY <1>0, <1>1, <1>r, <2>6, <4>2, <4>3, AloneFrame
    <3>2. CASE views[a] # None
      <4>1. /\ views' = [views EXCEPT ![a] = None, ![b] = views[a]]
            /\ obj' = [obj EXCEPT ![views[a]].target = b] /\ zviews' = zviews \cup {b}
        BY <2>6, <3>2 DEF renameViews
      <4>2. /\ views'[a] = None /\ views'[b] = views[a]
            /\ \A c \in ACLNames : c # a /\ c # b => views'[c] = views[c]
        BY <1>n, <1>t, <3>0, <4>1 DEF MemoryOK
      <4>3. views[a] \in Objects BY <1>4, <1>n, <3>2
      <4>4. /\ obj'[views[a]].target = b /\ obj'[views[a]].data = obj[views[a]].data
            /\ \A o \in Objects : o # views[a] => obj'[o] = obj[o]
        BY <1>t, <4>1, <4>3 DEF MemoryOK, Zones
      <4>5. PublicInv'
        <5>1. reg # None => obj'[reg] = obj[reg] BY <1>4, <1>n, <1>t, <3>2, <4>4 DEF MemoryOK
        <5> QED BY <1>w, <2>6, <5>1
      <4>6. ViewsInv'
        <5>1. ASSUME NEW c \in ACLNames, views'[c] # None
              PROVE  /\ obj'[views'[c]].target = c /\ views'[c] # reg /\ reg # None
                     /\ \A d \in ACLNames : views'[c] = views'[d] => c = d
                     /\ Known(c)' => \/ c \in zviews' /\ rows'[c] = obj'[views'[c]].data
                                     \/ Leaving(c)'
          <6>1. CASE c = b
            <7>1. obj'[views'[c]].target = c /\ views'[c] # reg /\ reg # None
              BY <1>4, <1>n, <3>2, <4>2, <4>4, <6>1
            <7>2. \A d \in ACLNames : views'[c] = views'[d] => c = d
              <8> SUFFICES ASSUME NEW d \in ACLNames, views'[c] = views'[d], d # b PROVE FALSE BY <6>1
              <8>1. views'[d] = views[a] BY <4>2, <6>1
              <8>2. d # a BY <3>2, <4>2, <8>1
              <8>3. views[d] = views[a] BY <4>2, <8>1, <8>2
              <8> QED BY <1>j, <1>n, <3>2, <8>2, <8>3
            <7>3. Known(c)' => c \in zviews' /\ rows'[c] = obj'[views'[c]].data
              BY <2>6, <3>2, <3>k, <3>w, <4>1, <4>2, <4>4, <6>1 DEF Known
            <7> QED BY <7>1, <7>2, <7>3
          <6>2. CASE c # b
            <7>0. c # a /\ views'[c] = views[c] /\ views[c] # None BY <4>2, <5>1, <6>2
            <7>1. views[c] # views[a] /\ views[c] \in Objects BY <1>4, <1>n, <7>0
            <7>2. obj'[views[c]] = obj[views[c]] BY <4>4, <7>1
            <7>3. \A d \in ACLNames : views'[c] = views'[d] => c = d
              <8> SUFFICES ASSUME NEW d \in ACLNames, views'[c] = views'[d] PROVE c = d OBVIOUS
              <8>1. d # a /\ d # b BY <4>2, <7>0, <7>1
              <8> QED BY <1>j, <4>2, <7>0, <8>1
            <7>4. Known(c)' => Known(c) BY <3>w, <6>2, <7>0 DEF Known
            <7>5. Known(c) => c \in zviews /\ rows[c] = obj[views[c]].data BY <1>4, <7>0
            <7>6. obj[views[c]].target = c /\ views[c] # reg /\ reg # None BY <1>4, <7>0
            <7> QED BY <2>6, <4>1, <7>0, <7>2, <7>3, <7>4, <7>5, <7>6
          <6> QED BY <6>1, <6>2
        <5> QED BY <1>v, <5>1
      <4> QED BY <1>0, <1>1, <1>r, <2>6, <4>5, <4>6, AloneFrame
    <3> QED BY <3>1, <3>2
  <2> QED BY <1>7, <1>p, <2>1, <2>2, <2>3, <2>4, <2>5, <2>6, <2>7 DEF RenameACL, Req, At
<1> QED BY <1>5, <1>6, <1>7

(* A new request, a crash, and the first state.                            *)
LEMMA PlaceRequest ==
  ASSUME PlaceInv, TypeInv', NEW w \in Workers, NEW r \in Requests, Request(w, r)
  PROVE  PlaceInv'
<1>1. /\ start.pc = "up" /\ worker[w] = Idle /\ DOMAIN worker = Workers
      /\ w \in cfg.workers /\ r.op \in cfg.ops /\ Admitted(r)
      /\ UNCHANGED <<cfg, core, rows, zone, zviews, acls, obj, reg, primary, views, start, want>>
  BY DEF Request, At, PlaceInv, TypeInv, WorkersOK, WorkerOK, sqlite, memory
<1>2. /\ worker'[w].pc = FirstStep(r) /\ worker'[w].req = r
      /\ \A u \in Workers \ {w} : worker'[u] = worker[u]
  BY <1>1 DEF Request, Idle
<1>i. Idle.pc = "idle" BY DEF Idle
<1>3. r \in Asked BY DEF Asked
<1>4. FirstStep(r) \in {"write rows", "delete primary", "insert acl", "delete acl rows", "rename acl",
                        "record zone"}
  BY DEF FirstStep
<1>5. /\ Swapping' <=> Swapping
      /\ Creating' <=> Creating
      /\ Dropping' <=> Dropping
      /\ \A a : Leaving(a)' <=> Leaving(a)
  <2>1. worker'[w].pc \notin {"publish", "unregister", "write zone", "drop views", "delete acl views",
                              "forget view", "rename rows", "rename views"}
        /\ worker[w].pc = "idle"
    BY <1>1, <1>2, <1>4, <1>i
  <2>2. ASSUME NEW u \in Workers, u # w PROVE worker'[u] = worker[u] BY <1>2, <2>2
  <2>3. Swapping' <=> Swapping BY <2>1, <2>2 DEF Swapping
  <2>4. Creating' <=> Creating BY <2>1, <2>2 DEF Creating
  <2>5. Dropping' <=> Dropping BY <2>1, <2>2 DEF Dropping
  <2>6. \A a : Leaving(a)' <=> Leaving(a) BY <2>1, <2>2 DEF Leaving
  <2> QED BY <2>3, <2>4, <2>5, <2>6
<1>6. PublicInv' BY <1>1, <1>5 DEF PlaceInv, PublicInv, Loaded
<1>7. ViewsInv' BY <1>1, <1>5 DEF PlaceInv, ViewsInv, Known
<1>8. Crew'
  <2>1. ASSUME NEW u \in Workers, Busy(u)' PROVE (u \in cfg.workers /\ worker[u].req.op \in cfg.ops)'
    <3>1. CASE u # w BY <1>1, <1>2, <2>1, <3>1 DEF PlaceInv, Crew, Busy
    <3>2. CASE u = w BY <1>1, <1>2, <3>2
    <3> QED BY <3>1, <3>2
  <2> QED BY <2>1 DEF Crew
<1>9. TameInv'
  <2>1. ASSUME Tame(cfg), NEW u \in Workers PROVE worker'[u].pc \in {"idle", "record zone", "apply"}
    <3>1. CASE u # w BY <1>2, <2>1, <3>1 DEF PlaceInv, TameInv
    <3>2. CASE u = w
      <4>1. r.op \in {"edit", "move"} BY <1>1, <2>1 DEF Tame, EditsOnly
      <4>2. FirstStep(r) = "record zone" BY <4>1 DEF FirstStep
      <4> QED BY <1>2, <3>2, <4>2
    <3> QED BY <3>1, <3>2
  <2>2. \A v : (Due(v)' <=> Due(v)) /\ (Filled(v)' <=> Filled(v)) BY <1>1 DEF Due, Ahead, Filled
  <2> QED BY <1>1, <2>1, <2>2 DEF PlaceInv, TameInv
<1>10. ASSUME NEW u \in Workers PROVE Local(u)'
  <2>1. CASE u # w
    <3>1. worker'[u] = worker[u] /\ Local(u) BY <1>2, <2>1 DEF PlaceInv
    <3>2. Editing(worker'[u]) = Editing(worker[u]) BY <3>1
    <3>3. worker[u].pc \in {"idle", "record zone", "apply"}
      <4>1. CASE Tame(cfg) BY <4>1 DEF PlaceInv, TameInv
      <4>2. CASE Alone(cfg) BY <1>1, <2>1, <4>2 DEF PlaceInv, Crew, Busy, Alone
      <4> QED BY <4>1, <4>2 DEF PlaceInv, Orderly
    <3> QED BY <1>1, <3>1, <3>2, <3>3 DEF Local
  <2>2. CASE u = w
    <3>1. FirstStep(r) = "write rows" => reg = None BY <1>1 DEF FirstStep, Admitted
    <3>2. FirstStep(r) = "rename acl" => r.acl \in ToSet(acls)
      BY <1>1 DEF FirstStep, Admitted
    <3> QED BY <1>1, <1>2, <1>4, <2>2, <3>1, <3>2 DEF Local
  <2> QED BY <2>1, <2>2
<1>11. ImportInv' /\ StartInv' BY <1>1 DEF ImportInv, StartInv, Importing, Loaded
<1> QED BY <1>1, <1>6, <1>7, <1>8, <1>9, <1>10, <1>11 DEF PlaceInv

LEMMA PlaceCrash == PlaceInv /\ TypeInv' /\ Crash => PlaceInv'
<1> SUFFICES ASSUME PlaceInv, TypeInv', Crash PROVE PlaceInv' OBVIOUS
<1>1. /\ cfg' = cfg /\ core' = core /\ UNCHANGED <<rows, zone, zviews, acls>>
      /\ start' = [pc |-> "register", block |-> 1] /\ reg' = None /\ primary' = None
      /\ \A a \in ACLNames : views'[a] = None
      /\ \A w \in Workers : worker'[w] = Idle
  BY DEF Crash, sqlite
<1>2. start'.pc = "register" /\ start'.block = 1 BY <1>1
<1>i. Idle.pc = "idle" BY DEF Idle
<1>3. Crew' BY <1>1, <1>i DEF Crew, Busy
<1>4. TameInv'
  <2>1. ASSUME NEW v, Due(v) PROVE Due(v)'
    <3>1. PICK i \in DOMAIN core : Ahead(i) /\ core[i].view = v /\ Readable(core[i]) BY <2>1 DEF Due
    <3>2. i >= 1 BY <3>1, ConfigFacts DEF PlaceInv, TypeInv
    <3> QED BY <1>1, <1>2, <3>1, <3>2 DEF Due, Ahead, Early
  <2> QED BY <1>1, <1>2, <1>i, <2>1 DEF PlaceInv, TameInv, Filled
<1>5. ImportInv' BY <1>2 DEF ImportInv, Importing
<1>6. StartInv' BY <1>1, <1>2 DEF StartInv, Loaded
<1>7. PublicInv' /\ ViewsInv' BY <1>1, <1>2 DEF PublicInv, ViewsInv, Loaded
<1>8. \A w \in Workers : Local(w)' BY <1>1, <1>i DEF Local
<1> QED BY <1>1, <1>3, <1>4, <1>5, <1>6, <1>7, <1>8 DEF PlaceInv

LEMMA PlaceInit ==
  ASSUME Init, \A c \in Configs : Orderly(c)
  PROVE  PlaceInv
<1>1. TypeInv BY TypeInit
<1>2. /\ cfg \in Configs /\ start.pc = "register" /\ start.block = 1 /\ acls = <<>>
      /\ reg = None /\ primary = None /\ \A a \in ACLNames : views[a] = None
      /\ \A w \in Workers : worker[w] = Idle
  BY DEF Init
<1>i. Idle.pc = "idle" BY DEF Idle
<1>3. Crew BY <1>2, <1>i DEF Crew, Busy
<1>4. TameInv
  <2>1. ToSet(acls) = {} BY <1>2 DEF ToSet
  <2> QED BY <1>2, <1>i, <2>1 DEF TameInv
<1>5. ImportInv BY <1>2 DEF ImportInv, Importing
<1>6. StartInv BY <1>2 DEF StartInv, Loaded
<1>7. PublicInv /\ ViewsInv BY <1>2 DEF PublicInv, ViewsInv, Loaded
<1>8. \A w \in Workers : Local(w) BY <1>2, <1>i DEF Local
<1> QED BY <1>1, <1>2, <1>3, <1>4, <1>5, <1>6, <1>7, <1>8 DEF PlaceInv

(* What a step of the start-up must show.                                  *)
LEMMA PlaceStartFrame ==
  ASSUME PlaceInv, TypeInv', StartOnly, start.pc # "up",
         TameInv', ImportInv', StartInv', PublicInv', ViewsInv'
  PROVE  PlaceInv'
<1>1. cfg' = cfg /\ worker' = worker /\ \A w \in Workers : worker[w] = Idle
  BY DEF StartOnly, PlaceInv, TypeInv, WorkersOK
<1>i. Idle.pc = "idle" BY DEF Idle
<1>2. \A w \in Workers : Local(w)' BY <1>1, <1>i DEF Local
<1>3. Crew' BY <1>1, <1>i DEF Crew, Busy
<1> QED BY <1>1, <1>2, <1>3 DEF PlaceInv

(* Until the zones are loaded, memory holds what the Corefile registered.  *)
LEMMA EarlyFrame ==
  ASSUME PlaceInv, TypeInv', StartOnly, start.pc # "up", ~Loaded, ~Loaded', UNCHANGED memory,
         TameInv', ImportInv', StartInv'
  PROVE  PlaceInv'
<1>1. UNCHANGED <<reg, primary, views, obj>> BY DEF memory
<1>2. \A a \in ACLNames : views[a] = None BY DEF PlaceInv, StartInv
<1>3. PublicInv' BY <1>1 DEF PlaceInv, PublicInv
<1>4. ViewsInv' BY <1>1, <1>2 DEF ViewsInv
<1> QED BY <1>3, <1>4, PlaceStartFrame

(* The tame start-up: every ACL has the rows of its view.                  *)
LEMMA TameFrame ==
  ASSUME PlaceInv, StartOnly, start.pc # "up", start'.pc # "up",
         Tame(cfg) => \A a \in ToSet(acls') : Filled(a)' /\ (a \in zviews' \/ Due(a)')
  PROVE  TameInv'
<1>1. cfg' = cfg /\ worker' = worker /\ \A w \in Workers : worker[w] = Idle
  BY DEF StartOnly, PlaceInv, TypeInv, WorkersOK
<1>i. Idle.pc = "idle" BY DEF Idle
<1>2. \A w \in Workers : worker'[w].pc = "idle" BY <1>1, <1>i
<1>3. Tame(cfg') => Tame(cfg) BY <1>1
<1> QED BY <1>2, <1>3 DEF TameInv

(* The start-up keeps PlaceInv.                                            *)
LEMMA PlaceRegister ==
  ASSUME PlaceInv, TypeInv', RegisterCorefile PROVE PlaceInv'
<1>1. /\ start.pc = "register" /\ start'.pc = "import" /\ start'.block = start.block
      /\ UNCHANGED <<core, rows, zone, zviews, acls, cfg>> /\ StartOnly
  BY DEF RegisterCorefile, Starting, Then, sqlite, PlaceInv, TypeInv, StartOK, StartOnly
<1>2. start.block = 1 /\ reg = None /\ primary = None /\ \A a \in ACLNames : views[a] = None
  BY <1>1 DEF PlaceInv, StartInv, Loaded
<1>3. \A v : (Due(v)' <=> Due(v)) /\ (Filled(v)' <=> Filled(v))
  BY <1>1 DEF Due, Ahead, Filled, Early, Importing
<1>4. TameInv' BY <1>1, <1>3, TameFrame DEF PlaceInv, TameInv
<1>5. ImportInv'
  <2>1. \A i \in DOMAIN core : ~(i < 1) BY ConfigFacts DEF PlaceInv, TypeInv
  <2> QED BY <1>1, <1>2, <2>1 DEF ImportInv, Importing
<1>6. CASE UNCHANGED memory
  <2>1. StartInv' BY <1>1, <1>2, <1>6 DEF StartInv, Loaded, memory
  <2> QED BY <1>1, <1>4, <1>5, <1>6, <2>1, EarlyFrame DEF Loaded
<1>7. CASE \E i \in DOMAIN core : /\ core[i].plugin = "dns-update-persistent"
                                  /\ NewObject(core[i].file, "public", "corefile") /\ reg' = Fresh
                                  /\ UNCHANGED <<primary, views>>
  <2>1. PICK i \in DOMAIN core : /\ core[i].plugin = "dns-update-persistent"
                                 /\ NewObject(core[i].file, "public", "corefile") /\ reg' = Fresh
                                 /\ UNCHANGED <<primary, views>>
    BY <1>7
  <2>t. MemoryOK /\ DOMAIN worker = Workers BY DEF PlaceInv, TypeInv, WorkersOK
  <2>2. /\ core[i].file \in SUBSET Records /\ core[i].view = "public" /\ Readable(core[i])
        /\ core[i] = cfg.core[i] /\ i >= 1
    <3>1. /\ core[i] = cfg.core[i] /\ i \in DOMAIN cfg.core /\ core[i].file \in Data /\ i >= 1
          /\ core[i].file # NoZone
      BY <2>1, ConfigFacts DEF PlaceInv, TypeInv
    <3>2. core[i].view = "public" BY <2>1, <3>1 DEF PlaceInv, Orderly, PublicDynamic
    <3> QED BY <3>1, <3>2, DataFacts DEF Readable
  <2>3. obj'[Fresh].target = "public"
    <3>1. obj'[Fresh] = [data |-> core[i].file, target |-> "public", source |-> "corefile"]
      BY <2>1, <2>2, <2>t, NewObjectOK, DataFacts
    <3> QED BY <3>1
  <2>4. Due("public")' BY <1>1, <1>2, <2>2 DEF Due, Ahead, Early, Importing
  <2>5. StartInv' BY <1>1, <1>2, <2>1, <2>4 DEF StartInv, Loaded
  <2>6. PublicInv' BY <1>1, <2>1, <2>3 DEF PublicInv, Loaded
  <2>7. ViewsInv' BY <1>2, <2>1 DEF ViewsInv
  <2> QED BY <1>1, <1>4, <1>5, <2>5, <2>6, <2>7, PlaceStartFrame
<1> QED BY <1>6, <1>7 DEF RegisterCorefile

(* The block the import is at.                                             *)
LEMMA BlockFacts ==
  ASSUME TypeInv, start.block \in DOMAIN core
  PROVE  /\ Tame(cfg) => Readable(Ref)
         /\ Readable(Ref) /\ start.pc \in Early => Due(Ref.view)
<1>1. /\ core[start.block] = cfg.core[start.block] /\ start.block \in DOMAIN cfg.core
      /\ start.block <= start.block
  BY ConfigFacts DEF TypeInv
<1>2. Tame(cfg) => Readable(Ref) BY <1>1 DEF Tame, Ref
<1>3. Readable(Ref) /\ start.pc \in Early => Due(Ref.view) BY <1>1 DEF Due, Ahead, Ref
<1> QED BY <1>2, <1>3

(* A step of the import that stays with its block.                         *)
LEMMA ImportThen ==
  ASSUME PlaceInv, TypeInv', StartOnly, UNCHANGED memory, core' = core, start.pc \in Importing,
         start.block \in DOMAIN core, NEW pc \in Importing \ {"import"}, Then(pc),
         \A v \in Views : Filled(v) => Filled(v)', zone => zone', zviews \subseteq zviews',
         rows'[Ref.view] # NoZone,
         pc \in {"import acl", "import new view", "import apex"} => zone',
         pc = "import zone" => Ref.view = "public" \/ Ref.view \in zviews',
         pc = "import apex" => Ref.view \in zviews',
         ToSet(acls') \subseteq ToSet(acls) \cup {Ref.view}
  PROVE  PlaceInv'
<1>1. start'.pc = pc /\ start'.block = start.block /\ cfg' = cfg
  BY DEF Then, StartOnly, PlaceInv, TypeInv, StartOK
<1>2. start.pc \in Early /\ start'.pc \in Early /\ start.pc # "up" /\ start'.pc # "up" /\ ~Loaded /\ ~Loaded'
  BY <1>1 DEF Early, Importing, Loaded
<1>3. \A v : Due(v)' <=> Due(v) BY <1>1, <1>2 DEF Due, Ahead
<1>4. Ref' = Ref /\ Ref.view \in Views BY <1>1, RefFacts DEF Ref, PlaceInv
<1>a. ToSet(acls) \subseteq ACLNames BY AclFacts DEF PlaceInv, TypeInv
<1>5. TameInv'
  <2> SUFFICES ASSUME Tame(cfg), NEW a \in ToSet(acls') PROVE Filled(a)' /\ (a \in zviews' \/ Due(a)')
    BY <1>2, TameFrame
  <2>1. CASE a \in ToSet(acls) BY <1>3, <1>a, <2>1, DataFacts DEF PlaceInv, TameInv
  <2>2. CASE a = Ref.view
    <3>1. Readable(Ref) BY BlockFacts DEF PlaceInv
    <3>2. Due(a) BY <1>2, <2>2, <3>1, BlockFacts DEF PlaceInv
    <3> QED BY <1>3, <2>2, <3>2 DEF Filled
  <2> QED BY <2>1, <2>2
<1>6. ImportInv'
  <2>1. ASSUME NEW i \in DOMAIN core, i < start.block, Readable(core[i])
        PROVE  Filled(core[i].view)' /\ zone' /\ (core[i].view # "public" => core[i].view \in zviews')
    <3>1. /\ Filled(core[i].view) /\ zone
          /\ core[i].view # "public" => core[i].view \in zviews
      BY <2>1 DEF PlaceInv, ImportInv
    <3>2. core[i].view \in Views BY ConfigFacts DEF PlaceInv, TypeInv
    <3>3. rows'[core[i].view] # NoZone BY <3>1, <3>2 DEF Filled
    <3> QED BY <3>1, <3>3 DEF Filled
  <2>2. Filled(Ref.view)' BY <1>4 DEF Filled
  <2> QED BY <1>1, <1>4, <2>1, <2>2 DEF ImportInv, Importing
<1>7. StartInv'
  <2>1. UNCHANGED <<reg, primary, views>> /\ primary = None /\ \A a \in ACLNames : views[a] = None
    BY <1>2 DEF memory, PlaceInv, StartInv
  <2>2. reg # None => (Filled("public") /\ zone) \/ Due("public") BY <1>2 DEF PlaceInv, StartInv
  <2>3. reg # None => (Filled("public")' /\ zone') \/ Due("public")' BY <1>3, <2>2, DataFacts
  <2> QED BY <1>1, <1>2, <2>1, <2>3 DEF StartInv, Importing
<1> QED BY <1>2, <1>5, <1>6, <1>7, EarlyFrame

(* A block that the import has passed is no longer due.                    *)
LEMMA DueNext ==
  ASSUME TypeInv, core' = core, start.pc \in Importing, start.block \in DOMAIN core, NextBlock,
         NEW v, Due(v)
  PROVE  Due(v)' \/ (v = Ref.view /\ Readable(Ref))
<1>0. start.block \in Nat /\ \A i \in DOMAIN core : i \in Nat BY ConfigFacts DEF TypeInv
<1>1. start'.pc = "import" /\ start'.block = start.block + 1 BY DEF NextBlock
<1>2. start'.pc \in Early BY <1>1 DEF Early, Importing
<1>3. PICK i \in DOMAIN core : Ahead(i) /\ core[i].view = v /\ Readable(core[i]) BY DEF Due
<1>4. CASE i = start.block BY <1>3, <1>4 DEF Ref
<1>5. CASE i # start.block
  <2>1. start.block + 1 <= i BY <1>0, <1>3, <1>5 DEF Ahead
  <2> QED BY <1>1, <1>2, <1>3, <2>1 DEF Due, Ahead
<1> QED BY <1>4, <1>5

(* A step of the import that goes on to the next block.                    *)
LEMMA ImportNext ==
  ASSUME PlaceInv, TypeInv', StartOnly, UNCHANGED memory, core' = core, start.pc \in Importing,
         start.block \in DOMAIN core, NextBlock, acls' = acls,
         \A v \in Views : Filled(v) => Filled(v)', zone => zone', zviews \subseteq zviews',
         Readable(Ref) => /\ rows'[Ref.view] # NoZone /\ zone'
                          /\ Ref.view # "public" => Ref.view \in zviews'
  PROVE  PlaceInv'
<1>0. start.block \in Nat /\ \A i \in DOMAIN core : i \in Nat
  BY ConfigFacts DEF PlaceInv, TypeInv
<1>1. start'.pc = "import" /\ start'.block = start.block + 1 /\ cfg' = cfg
  BY DEF NextBlock, StartOnly
<1>2. start.pc \in Early /\ start'.pc \in Early /\ start.pc # "up" /\ start'.pc # "up" /\ ~Loaded /\ ~Loaded'
  BY <1>1 DEF Early, Importing, Loaded
<1>a. ToSet(acls) \subseteq ACLNames BY AclFacts DEF PlaceInv, TypeInv
<1>4. Ref.view \in Views BY RefFacts DEF PlaceInv
<1>3. ASSUME NEW v, Due(v) PROVE Due(v)' \/ (v = Ref.view /\ Readable(Ref))
  BY <1>3, DueNext DEF PlaceInv
<1>5. TameInv'
  <2> SUFFICES ASSUME Tame(cfg), NEW a \in ToSet(acls) PROVE Filled(a)' /\ (a \in zviews' \/ Due(a)')
    BY <1>2, TameFrame
  <2>1. Filled(a) /\ (a \in zviews \/ Due(a)) BY DEF PlaceInv, TameInv
  <2>2. a \in Views /\ a # "public" BY <1>a, DataFacts
  <2> QED BY <1>3, <2>1, <2>2
<1>6. ImportInv'
  <2>1. ASSUME NEW i \in DOMAIN core, i < start.block + 1, Readable(core[i])
        PROVE  Filled(core[i].view)' /\ zone' /\ (core[i].view # "public" => core[i].view \in zviews')
    <3>1. CASE i = start.block BY <2>1, <3>1 DEF Ref, Filled
    <3>2. CASE i # start.block
      <4>1. i < start.block BY <1>0, <2>1, <3>2
      <4>2. /\ Filled(core[i].view) /\ zone
            /\ core[i].view # "public" => core[i].view \in zviews
        BY <2>1, <4>1 DEF PlaceInv, ImportInv
      <4>3. core[i].view \in Views BY ConfigFacts DEF PlaceInv, TypeInv
      <4>4. rows'[core[i].view] # NoZone BY <4>2, <4>3 DEF Filled
      <4> QED BY <4>2, <4>4 DEF Filled
    <3> QED BY <3>1, <3>2
  <2> QED BY <1>1, <2>1 DEF ImportInv, Importing
<1>7. StartInv'
  <2>1. UNCHANGED <<reg, primary, views>> /\ primary = None /\ \A a \in ACLNames : views[a] = None
    BY <1>2 DEF memory, PlaceInv, StartInv
  <2>2. reg # None => (Filled("public") /\ zone) \/ Due("public") BY <1>2 DEF PlaceInv, StartInv
  <2>3. reg # None => (Filled("public")' /\ zone') \/ Due("public")'
    BY <1>3, <2>2, DataFacts DEF Filled
  <2> QED BY <1>1, <1>2, <2>1, <2>3 DEF StartInv
<1> QED BY <1>2, <1>5, <1>6, <1>7, EarlyFrame

LEMMA ImportBlock ==
  ASSUME TypeInv, ImportRecords \/ ImportViewRow \/ ImportZone \/ ImportACL \/ ImportApex
  PROVE  /\ core' = core /\ UNCHANGED memory /\ StartOnly /\ start.pc \in Importing
         /\ start.block \in DOMAIN core /\ Ref.view \in Views
<1>0. core' = core /\ UNCHANGED memory /\ StartOnly /\ start.pc \in Importing
  BY DEF ImportRecords, ImportViewRow, ImportZone, ImportACL, ImportApex, Starting, Importing
<1>1. start.block \in DOMAIN core /\ Ref.view \in Views
  <2>1. CASE ImportRecords
    <3>1. start.block \in 1 .. Len(cfg.core) + 1 BY DEF TypeInv, StartOK
    <3>2. start.block <= Len(core) BY <2>1 DEF ImportRecords
    <3>3. Len(cfg.core) \in Nat /\ Len(core) \in Nat /\ DOMAIN core = 1 .. Len(core)
      BY ConfigFacts DEF TypeInv
    <3>4. start.block \in DOMAIN core BY <3>1, <3>2, <3>3
    <3> QED BY <3>4, RefFacts
  <2>2. CASE ~ImportRecords
    <3>1. start.pc # "import"
      BY <2>2 DEF ImportViewRow, ImportZone, ImportACL, ImportApex, Starting
    <3>2. start.block \in DOMAIN core BY <1>0, <3>1 DEF TypeInv, StartOK
    <3> QED BY <3>2, RefFacts
  <2> QED BY <2>1, <2>2
<1> QED BY <1>0, <1>1

LEMMA PlaceImport ==
  ASSUME PlaceInv, TypeInv',
         ImportRecords \/ ImportViewRow \/ ImportZone \/ ImportACL \/ ImportApex
  PROVE  PlaceInv'
<1>0. core' = core /\ UNCHANGED memory /\ StartOnly /\ start.pc \in Importing BY ImportBlock DEF PlaceInv
<1>1. start.block \in DOMAIN core /\ Ref.view \in Views /\ TypeInv BY ImportBlock DEF PlaceInv
<1>2. start.pc # "import" => Filled(Ref.view) BY <1>0 DEF PlaceInv, ImportInv
<1>s. StoreOK /\ rows \in [Views -> Data] BY <1>1 DEF TypeInv, StoreOK
<1>3. CASE ImportRecords
  <2>0. UNCHANGED <<zone, zviews, acls>> BY <1>3 DEF ImportRecords
  <2>1. CASE /\ rows[Ref.view] # NoZone /\ UNCHANGED rows
             /\ Then(IF Ref.view = "public" THEN "import zone" ELSE "import view row")
    <3>1. CASE Ref.view = "public"
      BY <1>0, <1>1, <2>0, <2>1, <3>1, ImportThen DEF Importing, Filled
    <3>2. CASE Ref.view # "public"
      BY <1>0, <1>1, <2>0, <2>1, <3>2, ImportThen DEF Importing, Filled
    <3> QED BY <3>1, <3>2
  <2>2. CASE Ref.file = NoZone /\ NextBlock /\ UNCHANGED rows
    BY <1>0, <1>1, <2>0, <2>2, ImportNext DEF Filled, Readable
  <2>3. CASE /\ Ref.file # NoZone /\ rows' = [rows EXCEPT ![Ref.view] = Ref.file]
             /\ Then("import new zone")
    <3>1. rows'[Ref.view] # NoZone /\ \A v \in Views : Filled(v) => Filled(v)'
      BY <1>1, <1>s, <2>3 DEF Filled
    <3> QED BY <1>0, <1>1, <2>0, <2>3, <3>1, ImportThen DEF Importing
  <2> QED BY <1>3, <2>1, <2>2, <2>3 DEF ImportRecords
<1>4. CASE ImportViewRow
  <2>1. zviews' = zviews \cup {Ref.view} /\ UNCHANGED <<rows, zone, acls>> BY <1>4 DEF ImportViewRow
  <2>2. \A v \in Views : Filled(v) => Filled(v)' BY <2>1 DEF Filled
  <2>3. rows'[Ref.view] # NoZone BY <1>2, <1>4, <2>1 DEF ImportViewRow, Starting, Filled
  <2>4. CASE Starting("import view row") /\ Then("import zone")
    BY <1>0, <1>1, <2>1, <2>2, <2>3, <2>4, ImportThen DEF Importing
  <2>5. CASE Starting("import new view") /\ Then("import apex")
    <3>1. zone BY <2>5 DEF Starting, PlaceInv, ImportInv
    <3> QED BY <1>0, <1>1, <2>1, <2>2, <2>3, <2>5, <3>1, ImportThen DEF Importing
  <2> QED BY <1>4, <2>4, <2>5 DEF ImportViewRow
<1>5. CASE ImportZone
  <2>1. zone' /\ UNCHANGED <<rows, zviews, acls>> BY <1>5 DEF ImportZone
  <2>2. \A v \in Views : Filled(v) => Filled(v)' BY <2>1 DEF Filled
  <2>3. rows'[Ref.view] # NoZone BY <1>2, <1>5, <2>1 DEF ImportZone, Starting, Filled
  <2>4. CASE Starting("import zone") /\ NextBlock
    <3>1. Ref.view = "public" \/ Ref.view \in zviews BY <2>4 DEF Starting, PlaceInv, ImportInv
    <3> QED BY <1>0, <1>1, <2>1, <2>2, <2>3, <2>4, <3>1, ImportNext
  <2>5. CASE Ref.view = "public" /\ NextBlock
    BY <1>0, <1>1, <2>1, <2>2, <2>3, <2>5, ImportNext
  <2>6. CASE Then("import acl")
    BY <1>0, <1>1, <2>1, <2>2, <2>3, <2>6, ImportThen DEF Importing
  <2> QED BY <1>5, <2>4, <2>5, <2>6 DEF ImportZone
<1>6. CASE ImportACL
  <2>1. InsertACL(Ref.view) /\ Then("import new view") /\ UNCHANGED <<rows, zone, zviews>>
        /\ start.pc = "import acl"
    BY <1>6 DEF ImportACL, Starting
  <2>2. \A v \in Views : Filled(v) => Filled(v)' BY <2>1 DEF Filled
  <2>3. rows'[Ref.view] # NoZone BY <1>2, <2>1 DEF Filled
  <2>4. zone /\ Ref.view \in ACLNames BY <2>1 DEF PlaceInv, ImportInv, TypeInv, StartOK
  <2>5. ToSet(acls') \subseteq ToSet(acls) \cup {Ref.view} BY <1>s, <2>1, <2>4, InsertFacts
  <2> QED BY <1>0, <1>1, <2>1, <2>2, <2>3, <2>4, <2>5, ImportThen DEF Importing
<1>7. CASE ImportApex
  <2>1. NextBlock /\ start.pc = "import apex" /\ UNCHANGED <<zone, zviews, acls>> /\ seedPublicApex({Ref.view})
    BY <1>7 DEF ImportApex, Starting
  <2>2. \A v \in Views : Filled(v) => Filled(v)'
    BY <1>s, <2>1, DataFacts DEF seedPublicApex, Filled
  <2>3. Filled(Ref.view) /\ zone /\ Ref.view \in zviews BY <1>2, <2>1 DEF PlaceInv, ImportInv
  <2>4. rows'[Ref.view] # NoZone
    <3>1. PICK v \in Views : v = Ref.view BY <1>1
    <3>2. Filled(v)' BY <2>2, <2>3, <3>1
    <3> QED BY <3>1, <3>2 DEF Filled
  <2> QED BY <1>0, <1>1, <2>1, <2>2, <2>3, <2>4, ImportNext
<1> QED BY <1>3, <1>4, <1>5, <1>6, <1>7

(* Past the import and before the load.                                    *)
LEMMA LateFrame ==
  ASSUME PlaceInv, TypeInv', StartOnly, UNCHANGED memory, \A v : ~Due(v),
         start.pc \in {"import", "strip", "origins", "apex"}, start'.pc \in {"origins", "apex", "load"},
         \A v \in Views : Filled(v) => Filled(v)', zone => zone', zviews' = zviews, acls' = acls,
         start'.pc = "apex" => (zviews # {} => zone'),
         start'.pc = "load" /\ (\E a \in zviews : Filled(a)') => zone' /\ Filled("public")'
  PROVE  PlaceInv'
<1>1. ~Loaded /\ ~Loaded' /\ start.pc # "up" /\ start'.pc # "up" /\ cfg' = cfg BY DEF Loaded, StartOnly
<1>a. ToSet(acls) \subseteq Views BY AclFacts, DataFacts DEF PlaceInv, TypeInv
<1>2. TameInv'
  <2>1. \A a \in ToSet(acls) : Tame(cfg) => Filled(a) /\ a \in zviews BY DEF PlaceInv, TameInv
  <2>2. \A a \in ToSet(acls) : Tame(cfg) => Filled(a)' BY <1>a, <2>1
  <2> QED BY <1>1, <2>1, <2>2, TameFrame
<1>3. ImportInv' BY DEF ImportInv, Importing
<1>4. UNCHANGED <<reg, primary, views>> BY DEF memory
<1>5. reg # None => Filled("public") /\ zone BY <1>1 DEF PlaceInv, StartInv
<1>6. reg' # None => Filled("public")' /\ zone' BY <1>4, <1>5, DataFacts
<1>7. primary = None /\ \A a \in ACLNames : views[a] = None BY <1>1 DEF PlaceInv, StartInv
<1>8. StartInv' BY <1>1, <1>4, <1>6, <1>7 DEF StartInv
<1> QED BY <1>1, <1>2, <1>3, <1>8, EarlyFrame

(* Every block has been passed.                                            *)
LEMMA PastImport ==
  ASSUME TypeInv, start.block > Len(core)
  PROVE  /\ \A i \in DOMAIN core : i < start.block
         /\ \A v : ~Due(v)
<1>1. start.block \in 1 .. Len(cfg.core) + 1 BY DEF TypeInv, StartOK
<1>2. Len(cfg.core) \in Nat /\ Len(core) \in Nat /\ DOMAIN core = 1 .. Len(core)
  BY ConfigFacts DEF TypeInv
<1>3. \A i \in DOMAIN core : i < start.block /\ ~(start.block <= i) BY <1>1, <1>2
<1> QED BY <1>3 DEF Due, Ahead

LEMMA PlaceAclsImport ==
  ASSUME PlaceInv, TypeInv', ImportCorefileACLs
  PROVE  PlaceInv'
<1>1. /\ start.pc = "import" /\ start.block > Len(core) /\ StartOnly /\ UNCHANGED memory
      /\ UNCHANGED <<cfg, core, rows, zone, zviews>>
  BY DEF ImportCorefileACLs, Starting, StartOnly
<1>2. TypeInv /\ StoreOK /\ \A i \in DOMAIN core : i < start.block BY <1>1, PastImport DEF PlaceInv, TypeInv
<1>3. \A v : ~Due(v) BY <1>1, <1>2, PastImport
<1>4. ~Loaded /\ start.pc # "up" BY <1>1 DEF Loaded
<1>5. UNCHANGED <<reg, primary, views>> BY <1>1 DEF memory
<1>6. /\ reg # None => Filled("public") /\ zone
      /\ primary = None /\ \A a \in ACLNames : views[a] = None
  BY <1>3, <1>4 DEF PlaceInv, StartInv
<1>r. \A v : Filled(v)' <=> Filled(v) BY <1>1 DEF Filled
<1>7. \A i \in DOMAIN core : Readable(core[i]) => /\ Filled(core[i].view) /\ zone
                                                  /\ core[i].view # "public" => core[i].view \in zviews
  BY <1>1, <1>2 DEF PlaceInv, ImportInv, Importing
<1>8. CASE Then("strip") /\ UNCHANGED acls
  <2>1. start'.pc = "strip" /\ start'.block = start.block /\ ~Loaded' /\ start'.pc # "up"
    BY <1>2, <1>8 DEF Then, TypeInv, StartOK, Loaded
  <2>2. TameInv'
    <3>1. \A a \in ToSet(acls) : Tame(cfg) => Filled(a) /\ a \in zviews BY <1>3 DEF PlaceInv, TameInv
    <3> QED BY <1>1, <1>4, <1>8, <1>r, <2>1, <3>1, TameFrame
  <2>3. ImportInv'
    <3>1. \A i \in DOMAIN core : Readable(core[i]) =>
             /\ Filled(core[i].view)' /\ zone'
             /\ core[i].view # "public" => core[i].view \in zviews'
      BY <1>1, <1>7, <1>r
    <3> QED BY <1>1, <2>1, <3>1 DEF ImportInv, Importing
  <2>4. StartInv' BY <1>1, <1>5, <1>6, <1>r, <2>1 DEF StartInv
  <2> QED BY <1>1, <1>4, <2>1, <2>2, <2>3, <2>4, EarlyFrame
<1>9. CASE \E a \in {core[i].view : i \in DOMAIN core} \ ({"public"} \cup ToSet(acls)) :
             InsertACL(a) /\ UNCHANGED start
  <2>1. PICK i \in DOMAIN core : core[i].view # "public" /\ InsertACL(core[i].view) /\ UNCHANGED start
    BY <1>9
  <2>2. core[i].view \in ACLNames BY <1>2, <2>1, ConfigFacts, DataFacts DEF TypeInv
  <2>3. ToSet(acls') = ToSet(acls) \cup {core[i].view} BY <1>2, <2>1, <2>2, InsertFacts
  <2>4. TameInv'
    <3>1. ASSUME Tame(cfg), NEW a \in ToSet(acls') PROVE Filled(a)' /\ a \in zviews'
      <4>1. CASE a \in ToSet(acls) BY <1>1, <1>3, <1>r, <3>1, <4>1 DEF PlaceInv, TameInv
      <4>2. CASE a = core[i].view
        <5>1. core[i] = cfg.core[i] /\ i \in DOMAIN cfg.core BY <1>2, ConfigFacts DEF TypeInv
        <5>2. Readable(core[i]) BY <3>1, <5>1 DEF Tame
        <5> QED BY <1>1, <1>7, <1>r, <2>1, <4>2, <5>2
      <4> QED BY <2>3, <4>1, <4>2
    <3> QED BY <1>1, <1>4, <2>1, <3>1, TameFrame
  <2>5. ImportInv' BY <1>1, <1>7, <1>r, <2>1 DEF ImportInv, Importing
  <2>6. StartInv' BY <1>1, <1>4, <1>5, <1>6, <1>r, <2>1 DEF StartInv, Loaded
  <2>7. ~Loaded' BY <1>4, <2>1 DEF Loaded
  <2> QED BY <1>1, <1>4, <2>4, <2>5, <2>6, <2>7, EarlyFrame
<1> QED BY <1>8, <1>9 DEF ImportCorefileACLs

LEMMA PlacePrepare ==
  ASSUME PlaceInv, TypeInv', StripCorefile \/ EnsureOrigin \/ EnsureApex
  PROVE  PlaceInv'
<1>0. UNCHANGED memory /\ StartOnly /\ start.pc \in {"strip", "origins", "apex"}
  BY DEF StripCorefile, EnsureOrigin, EnsureApex, Starting
<1>1. \A v : ~Due(v) BY <1>0 DEF Due, Ahead, Early, Importing
<1>s. TypeInv /\ rows \in [Views -> Data] /\ zviews \subseteq ACLNames /\ zone \in BOOLEAN
  BY DEF PlaceInv, TypeInv, StoreOK
<1>2. CASE StripCorefile
  <2>1. start'.pc = "origins" /\ UNCHANGED <<rows, zone, zviews, acls>> BY <1>2 DEF StripCorefile, sqlite
  <2>2. \A v \in Views : Filled(v) => Filled(v)' BY <2>1 DEF Filled
  <2> QED BY <1>0, <1>1, <2>1, <2>2, LateFrame
<1>3. CASE EnsureOrigin
  <2>1. /\ start'.pc = "apex" /\ UNCHANGED <<rows, zviews, acls>> /\ zone' = (zone \/ zviews # {})
    BY <1>3, <1>s DEF EnsureOrigin, Then, TypeInv, StartOK
  <2>2. \A v \in Views : Filled(v) => Filled(v)' BY <2>1 DEF Filled
  <2> QED BY <1>0, <1>1, <2>1, <2>2, LateFrame
<1>4. CASE EnsureApex
  <2>1. /\ start.pc = "apex" /\ start'.pc = "load" /\ UNCHANGED <<zone, zviews, acls>> /\ seedPublicApex(zviews)
    BY <1>4, <1>s DEF EnsureApex, Then, Starting, TypeInv, StartOK
  <2>2. \A v \in Views : Filled(v) => Filled(v)' BY <1>s, <2>1, DataFacts DEF seedPublicApex, Filled
  <2>3. ASSUME NEW a \in zviews, Filled(a)' PROVE zone' /\ Filled("public")'
    <3>1. zone' BY <2>1 DEF PlaceInv, StartInv
    <3>2. a \in Views /\ a # "public" BY <1>s, DataFacts
    <3>3. rows[a] # NoZone BY <1>s, <2>1, <2>3, <3>2, DataFacts DEF seedPublicApex, Filled
    <3>4. rows'["public"] # NoZone BY <1>s, <2>1, <3>3, DataFacts DEF seedPublicApex
    <3> QED BY <3>1, <3>4 DEF Filled
  <2> QED BY <1>0, <1>1, <2>1, <2>2, <2>3, LateFrame
<1> QED BY <1>2, <1>3, <1>4

LEMMA PlaceLoadZones ==
  ASSUME PlaceInv, TypeInv', LoadZones
  PROVE  PlaceInv'
<1>1. /\ start.pc = "load" /\ start'.pc = "load views" /\ StartOnly
      /\ UNCHANGED <<cfg, core, rows, zone, zviews, acls>>
  BY DEF LoadZones, Starting, Then, StartOnly, PlaceInv, TypeInv, StartOK, sqlite
<1>t. TypeInv /\ MemoryOK /\ StoreOK /\ DOMAIN worker = Workers BY DEF PlaceInv, TypeInv, WorkersOK
<1>2. ~Loaded /\ Loaded' /\ start.pc # "up" /\ start'.pc # "up" BY <1>1 DEF Loaded
<1>3. \A v : ~Due(v) /\ ~Due(v)' BY <1>1 DEF Due, Ahead, Early, Importing
<1>r. \A v : Filled(v)' <=> Filled(v) BY <1>1 DEF Filled
<1>4. /\ reg # None => Filled("public") /\ zone /\ obj[reg].target = "public"
      /\ primary = None /\ \A a \in ACLNames : views[a] = None
      /\ (\E a \in zviews : Filled(a)) => zone /\ Filled("public")
  BY <1>1, <1>2, <1>3 DEF PlaceInv, StartInv, PublicInv
<1>5. views' = views BY DEF LoadZones, memory
<1>6. ViewsInv' BY <1>4, <1>5 DEF ViewsInv
<1>7. TameInv'
  <2>1. \A a \in ToSet(acls) : Tame(cfg) => Filled(a) /\ a \in zviews BY <1>3 DEF PlaceInv, TameInv
  <2> QED BY <1>1, <1>2, <1>r, <2>1, TameFrame
<1>8. ImportInv' BY <1>1 DEF ImportInv, Importing
<1>9. /\ primary' = reg'
      /\ reg' # None => obj'[reg'].target = "public" /\ obj'[reg'].data = rows["public"] /\ zone
      /\ (\E a \in zviews : Filled(a)) => reg' # None
  <2>1. CASE /\ zone /\ reg # None /\ primary' = reg /\ UNCHANGED <<reg, views>>
             /\ obj' = [obj EXCEPT ![reg].data = IF rows["public"] = NoZone THEN @ ELSE rows["public"]]
    <3>1. reg \in Objects /\ rows["public"] # NoZone BY <1>4, <1>t, <2>1 DEF MemoryOK, Filled
    <3>2. obj' = [obj EXCEPT ![reg].data = rows["public"]] BY <2>1, <3>1
    <3>3. obj[reg] \in Zones /\ obj'[reg] = [obj[reg] EXCEPT !.data = rows["public"]]
      BY <1>t, <3>1, <3>2 DEF MemoryOK
    <3>4. obj'[reg].target = obj[reg].target /\ obj'[reg].data = rows["public"] BY <3>3 DEF Zones
    <3> QED BY <1>4, <2>1, <3>4
  <2>2. CASE /\ zone /\ rows["public"] # NoZone /\ NewObject(rows["public"], "public", "admin")
             /\ reg' = Fresh /\ primary' = Fresh
    <3>1. rows["public"] \in SUBSET Records BY <1>t, <2>2, DataFacts DEF StoreOK
    <3>2. obj'[Fresh] = [data |-> rows["public"], target |-> "public", source |-> "admin"] /\ Fresh # None
      BY <1>t, <2>2, <3>1, NewObjectOK, DataFacts
    <3>3. obj'[Fresh].target = "public" /\ obj'[Fresh].data = rows["public"] BY <3>2
    <3> QED BY <2>2, <3>2, <3>3
  <2>3. CASE (~zone \/ (reg = None /\ rows["public"] = NoZone)) /\ UNCHANGED memory
    <3>1. UNCHANGED <<reg, primary>> BY <2>3 DEF memory
    <3> QED BY <1>4, <2>3, <3>1 DEF Filled
  <2> QED BY <2>1, <2>2, <2>3 DEF LoadZones
<1>10. PublicInv' BY <1>1, <1>9 DEF PublicInv
<1>11. StartInv' BY <1>1, <1>2, <1>9, <1>r DEF StartInv
<1> QED BY <1>1, <1>2, <1>6, <1>7, <1>8, <1>10, <1>11, PlaceStartFrame

LEMMA PlaceLoadViews ==
  ASSUME PlaceInv, TypeInv', loadViews
  PROVE  PlaceInv'
<1>1. /\ start.pc = "load views" /\ StartOnly /\ UNCHANGED <<cfg, core, rows, zone, zviews, acls, worker, want>>
  BY DEF loadViews, Starting, StartOnly, sqlite
<1>t. TypeInv /\ MemoryOK /\ StoreOK /\ DOMAIN worker = Workers BY DEF PlaceInv, TypeInv, WorkersOK
<1>2. Loaded /\ start.pc # "up" BY <1>1 DEF Loaded
<1>3. \A v : ~Due(v) BY <1>1 DEF Due, Ahead, Early, Importing
<1>4. \A a \in ToSet(acls) : Tame(cfg) => Filled(a) /\ a \in zviews BY <1>3 DEF PlaceInv, TameInv
<1>w. \A w \in Workers : worker[w].pc = "idle"
  <2>1. Idle.pc = "idle" BY DEF Idle
  <2> QED BY <1>2, <2>1 DEF PlaceInv, TypeInv, WorkersOK
<1>5. ~Swapping /\ ~Creating /\ ~Dropping /\ \A a : ~Leaving(a)
  BY <1>w DEF Swapping, Creating, Dropping, Leaving
<1>6. /\ primary = reg
      /\ reg # None => zone /\ obj[reg].data = rows["public"] /\ obj[reg].target = "public"
  BY <1>2, <1>5 DEF PlaceInv, PublicInv
<1>7. ASSUME NEW a \in ACLNames, views[a] # None
      PROVE  /\ obj[views[a]].target = a /\ views[a] # reg /\ reg # None
             /\ \A b \in ACLNames : views[a] = views[b] => a = b
             /\ Known(a) => a \in zviews /\ rows[a] = obj[views[a]].data
  BY <1>5, <1>7 DEF PlaceInv, ViewsInv
<1>8. CASE /\ {a \in zviews : rows[a] # NoZone /\ views[a] = None} = {}
           /\ Then("up") /\ UNCHANGED memory
  <2>1. start'.pc = "up" /\ UNCHANGED <<obj, reg, primary, views>>
    BY <1>8, <1>t DEF Then, memory, TypeInv, StartOK
  <2>2. TameInv'
    <3>1. ASSUME Tame(cfg), NEW a \in ToSet(acls) PROVE views[a] # None BY <1>4, <1>8, <3>1 DEF Filled
    <3>2. \A a \in ToSet(acls) : Tame(cfg) => Filled(a)' BY <1>1, <1>4 DEF Filled
    <3> QED BY <1>1, <1>4, <1>w, <2>1, <3>1, <3>2 DEF TameInv
  <2>3. ImportInv' /\ StartInv' BY <2>1 DEF ImportInv, StartInv, Importing, Loaded
  <2>4. PublicInv' BY <1>1, <1>6, <2>1 DEF PublicInv
  <2>5. ViewsInv' BY <1>1, <1>7, <2>1 DEF ViewsInv, Known
  <2> QED BY <1>1, <1>2, <2>2, <2>3, <2>4, <2>5, PlaceStartFrame
<1>9. CASE \E a \in {a \in zviews : rows[a] # NoZone /\ views[a] = None} :
             /\ NewObject(rows[a], a, "admin") /\ views' = [views EXCEPT ![a] = Fresh]
             /\ UNCHANGED <<reg, primary, start>>
  <2>1. PICK v \in zviews : /\ rows[v] # NoZone /\ views[v] = None
                            /\ NewObject(rows[v], v, "admin") /\ views' = [views EXCEPT ![v] = Fresh]
                            /\ UNCHANGED <<reg, primary, start>>
    BY <1>9
  <2>2. v \in ACLNames /\ v \in Views /\ rows[v] \in SUBSET Records /\ reg # None
    <3>1. v \in ACLNames /\ v \in Views BY <1>t, DataFacts DEF StoreOK
    <3>2. rows[v] \in SUBSET Records BY <1>t, <2>1, <3>1, DataFacts DEF StoreOK
    <3>3. reg # None BY <1>1, <2>1 DEF PlaceInv, StartInv, Filled
    <3> QED BY <3>1, <3>2, <3>3
  <2>3. /\ obj'[Fresh] = [data |-> rows[v], target |-> v, source |-> "admin"]
        /\ \A o \in Objects : o # Fresh => obj'[o] = obj[o]
        /\ Fresh \in Objects /\ Fresh # None /\ Fresh # reg /\ \A a \in ACLNames : Fresh # views[a]
    BY <1>t, <2>1, <2>2, NewObjectOK
  <2>f. obj'[Fresh].target = v /\ obj'[Fresh].data = rows[v] BY <2>3
  <2>v. views'[v] = Fresh /\ \A a \in ACLNames : a # v => views'[a] = views[a]
    BY <1>t, <2>1, <2>2 DEF MemoryOK
  <2>4. PublicInv'
    <3>1. obj'[reg] = obj[reg] BY <1>t, <2>2, <2>3 DEF MemoryOK
    <3> QED BY <1>1, <1>6, <2>1, <3>1 DEF PublicInv
  <2>5. ASSUME NEW a \in ACLNames, views'[a] # None
        PROVE  /\ obj'[views'[a]].target = a /\ views'[a] # reg' /\ reg' # None
               /\ \A b \in ACLNames : views'[a] = views'[b] => a = b
               /\ Known(a)' => a \in zviews' /\ rows'[a] = obj'[views'[a]].data
    <3>1. CASE a = v
      <4>1. \A b \in ACLNames : b # v => views'[b] # Fresh BY <2>3, <2>v
      <4>2. rows'[a] = obj'[Fresh].data BY <1>1, <2>f, <3>1
      <4> QED BY <1>1, <2>1, <2>2, <2>3, <2>f, <2>v, <3>1, <4>1, <4>2
    <3>2. CASE a # v
      <4>1. views'[a] = views[a] /\ obj'[views[a]] = obj[views[a]] /\ views[a] # Fresh /\ views[a] # None
        BY <1>t, <2>3, <2>v, <2>5, <3>2 DEF MemoryOK
      <4>2. \A b \in ACLNames : views'[a] = views'[b] => a = b BY <1>7, <2>v, <4>1
      <4>3. Known(a)' <=> Known(a) BY <1>1 DEF Known
      <4>4. /\ obj[views[a]].target = a /\ views[a] # reg /\ reg # None
            /\ Known(a) => a \in zviews /\ rows[a] = obj[views[a]].data
        BY <1>7, <4>1
      <4> QED BY <1>1, <2>1, <4>1, <4>2, <4>3, <4>4
    <3> QED BY <3>1, <3>2
  <2>6. ViewsInv' BY <2>5 DEF ViewsInv
  <2>7. TameInv' 
    <3>1. \A a : Filled(a)' <=> Filled(a) BY <1>1 DEF Filled
    <3> QED BY <1>1, <1>2, <1>4, <2>1, <3>1, TameFrame
  <2>8. ImportInv' BY <1>1, <2>1 DEF ImportInv, Importing
  <2>9. StartInv' BY <1>1, <1>2, <2>1, <2>2 DEF StartInv, Loaded
  <2> QED BY <1>1, <1>2, <2>4, <2>6, <2>7, <2>8, <2>9, PlaceStartFrame
<1> QED BY <1>8, <1>9 DEF loadViews

(* Every step keeps PlaceInv.                                              *)
LEMMA PlaceStep == PlaceInv /\ [Next]_vars => PlaceInv'
<1> SUFFICES ASSUME PlaceInv, [Next]_vars PROVE PlaceInv' OBVIOUS
<1>t. TypeInv' BY TypeStep DEF PlaceInv
<1>1. CASE StartStep
  BY <1>1, <1>t, PlaceRegister, PlaceImport, PlaceAclsImport, PlacePrepare, PlaceLoadZones, PlaceLoadViews
  DEF StartStep
<1>2. CASE Crash BY <1>2, <1>t, PlaceCrash
<1>3. ASSUME NEW w \in Workers, RequestStep(w) PROVE PlaceInv'
  BY <1>3, <1>t, PlaceCreate, PlaceDelete, PlaceEdit, PlaceAcls DEF RequestStep
<1>4. ASSUME NEW w \in Workers, NEW r \in Requests, Request(w, r) PROVE PlaceInv'
  BY <1>4, <1>t, PlaceRequest
<1>5. CASE UNCHANGED vars
  <2>1. UNCHANGED <<cfg, core, rows, zone, zviews, acls, obj, reg, primary, views, start, worker, want>>
    BY <1>5 DEF vars, sqlite, memory
  <2>2. \A v : (Due(v)' <=> Due(v)) /\ (Filled(v)' <=> Filled(v)) /\ (Known(v)' <=> Known(v))
    BY <2>1 DEF Due, Ahead, Filled, Known
  <2>3. Crew' /\ TameInv' BY <2>1, <2>2 DEF PlaceInv, Crew, Busy, TameInv
  <2>4. ImportInv' /\ StartInv'
    <3>1. Ref' = Ref BY <2>1 DEF Ref
    <3> QED BY <2>1, <2>2, <3>1 DEF PlaceInv, ImportInv, StartInv, Loaded
  <2>c. /\ (Swapping' <=> Swapping) /\ (Creating' <=> Creating) /\ (Dropping' <=> Dropping)
        /\ \A a : Leaving(a)' <=> Leaving(a)
    BY <2>1 DEF Swapping, Creating, Dropping, Leaving
  <2>p. PublicInv' BY <2>1, <2>c DEF PlaceInv, PublicInv, Loaded
  <2>5. ViewsInv' BY <2>1, <2>2, <2>c DEF PlaceInv, ViewsInv
  <2>6. ASSUME NEW w \in Workers PROVE Local(w)'
    <3>1. Local(w) BY DEF PlaceInv
    <3>2. rows' = rows /\ zviews' = zviews /\ acls' = acls /\ obj' = obj BY <2>1
    <3>3. reg' = reg /\ primary' = primary /\ views' = views /\ worker' = worker /\ want' = want BY <2>1
    <3>4. Editing(worker'[w]) = Editing(worker[w]) BY <3>3
    <3>5. CASE worker[w].pc \in CreateSteps BY <3>1, <3>2, <3>3, <3>5 DEF Local, CreateSteps
    <3>6. CASE worker[w].pc \in DeleteSteps BY <3>1, <3>2, <3>3, <3>6 DEF Local, DeleteSteps
    <3>7. CASE worker[w].pc \in DropSteps BY <3>1, <3>2, <3>3, <3>7 DEF Local, DropSteps, Known
    <3>8. CASE worker[w].pc \in RenameSteps BY <3>1, <3>2, <3>3, <3>8 DEF Local, RenameSteps, Known
    <3>9. CASE worker[w].pc \in EditSteps BY <3>1, <3>2, <3>3, <3>4, <3>9 DEF Local, EditSteps
    <3>10. CASE worker[w].pc \in {"idle", "insert acl"} BY <3>3, <3>10 DEF Local
    <3>11. worker[w].pc \in Steps BY DEF PlaceInv, TypeInv, WorkersOK, WorkerOK
    <3> QED BY <3>5, <3>6, <3>7, <3>8, <3>9, <3>10, <3>11 DEF Steps
  <2> QED BY <1>t, <2>1, <2>3, <2>4, <2>5, <2>6, <2>p DEF PlaceInv
<1> QED BY <1>1, <1>2, <1>3, <1>4, <1>5 DEF Next

(* Whenever no request is under way, the zone, its views and their rows    *)
(* are where PlaceInv says.                                                *)
LEMMA PlaceQuiet == PlaceInv => ViewHasZone /\ EditsPersist
<1> SUFFICES ASSUME PlaceInv, Quiet PROVE ViewHasZone /\ EditsPersist BY DEF ViewHasZone, EditsPersist
<1>1. Loaded /\ ~Swapping /\ ~Creating /\ ~Dropping /\ \A a : ~Leaving(a)
  BY DEF Quiet, Loaded, Swapping, Creating, Dropping, Leaving
<1>2. /\ primary = reg
      /\ reg # None => zone /\ obj[reg].data = rows["public"] /\ obj[reg].target = "public"
  BY <1>1 DEF PlaceInv, PublicInv
<1>3. ASSUME NEW a \in ACLNames, views[a] # None
      PROVE  /\ obj[views[a]].target = a /\ reg # None
             /\ Known(a) => a \in zviews /\ rows[a] = obj[views[a]].data
  BY <1>1, <1>3 DEF PlaceInv, ViewsInv
<1>4. ViewHasZone BY <1>2, <1>3 DEF ViewHasZone
<1>5. EditsPersist BY <1>2, <1>3 DEF EditsPersist, Known
<1> QED BY <1>4, <1>5

(* Where the Corefile's dynamic blocks are of the public zone, and requests *)
(* come one at a time or only edit records, a view that answers has a       *)
(* public zone to be edited through: whatever was created, imported,        *)
(* renamed or deleted before, wherever the process died in between          *)
(* (ensureOriginsFromViews, loadPersistedZones, deleteZone).                *)
THEOREM ViewsServed ==
  ASSUME \A c \in Configs : Orderly(c)
  PROVE  Spec => []ViewHasZone
<1>1. Init => PlaceInv BY PlaceInit
<1> QED BY <1>1, PlaceStep, PlaceQuiet, PTL DEF Spec

(* Under the same condition, every zone in memory persists where a restart *)
(* looks for it: an edit of the public zone, of a view or of a renamed      *)
(* view writes that zone's rows and no other's (ensureView, renameViews,    *)
(* the persist target that Apply writes to).                                *)
THEOREM EditsKept ==
  ASSUME \A c \in Configs : Orderly(c)
  PROVE  Spec => []EditsPersist
<1>1. Init => PlaceInv BY PlaceInit
<1> QED BY <1>1, PlaceStep, PlaceQuiet, PTL DEF Spec

----------------------------------------------------------------------------
(* What was acknowledged.  A view is unsettled while a request that changes *)
(* more than one place for it is between two of them.  A move changes one   *)
(* place after the other, and each of them at once.                         *)
Upset(r) == IF r.op = "move" THEN {} ELSE Touched(r)
Unsettled(v) ==
    \E w \in Workers : v \in Upset(worker[w].req) /\ worker[w].pc # FirstStep(worker[w].req)
Sure(v) == Known(v) /\ ~Unsettled(v)
Hosts(d) == d \cap Records

(* The blocks of the Corefile that are still there: they are imported      *)
(* before the first request, and stay only where the Corefile cannot be    *)
(* written.                                                                *)
CoreInv ==
    /\ ~cfg.readonly /\ start.pc \notin Early \cup {"strip"} => core = <<>>
    /\ start.pc \notin Early => \A i \in DOMAIN core : Readable(core[i]) => Filled(core[i].view)
    /\ \A i \in DOMAIN core : Readable(core[i]) /\ ~Filled(core[i].view)
                               => want[core[i].view] = core[i].file
    /\ want["public"] = NoZone => \A i \in DOMAIN core : ~Readable(core[i])

(* The public zone is what was promised, or what is missing of it is still *)
(* to come from a block of its own or from the apex of a view.             *)
WantPublic ==
    Sure("public") =>
      /\ \/ rows["public"] = want["public"]
         \/ ~Filled("public") /\ Due("public")
         \/ /\ ~Filled("public") /\ want["public"] = {}
            /\ start.pc \notin {"load", "load views", "up"}
            /\ \E a \in ACLNames : Due(a) \/ (a \in zviews /\ Filled(a))
      /\ want["public"] # NoZone => zone \/ \E v \in Views : Due(v)
      /\ want["public"] # NoZone /\ Loaded => reg # None
      /\ want["public"] = NoZone => \A a \in ACLNames : ~Filled(a)

(* So is every view, and one that has hosts is served once the start-up is *)
(* over.                                                                   *)
WantViews ==
    \A a \in ACLNames : Sure(a) =>
      /\ Hosts(rows[a]) = Hosts(want[a]) \/ (~Filled(a) /\ Due(a))
      /\ Hosts(want[a]) # {} => /\ a \in zviews \/ Due(a)
                                /\ start.pc = "up" => views[a] # None
                                /\ \/ a \in ToSet(acls)
                                   \/ start.pc \in Early /\ \E i \in DOMAIN core : core[i].view = a

(* What a removal or a renaming under way has left where.                  *)
LocalWant(w) ==
    LET x == worker[w]
        a == x.req.acl
        b == x.req.to
    IN
    /\ x.pc \in {"delete acl views", "forget view"} => x.drop \subseteq {a}
    /\ x.pc \in {"rename view rows", "rename rows"} =>
         /\ Known(b) => Hosts(rows[b]) = {}
         /\ Known(a) => Hosts(rows[a]) = Hosts(want[a])
    /\ x.pc = "rename view rows" => (Known(a) /\ Hosts(want[a]) # {} => a \in zviews)
    /\ x.pc = "rename views" => rows[a] = NoZone
    /\ x.pc = "rename views" /\ Known(a) /\ Known(b) => Hosts(rows[b]) = Hosts(want[a])
    /\ x.pc \in {"rename rows", "rename views"} => (Known(a) /\ Hosts(want[a]) # {} => b \in zviews)
    /\ x.pc \in {"rename view rows", "rename rows", "rename views"}
         => (Known(a) /\ Hosts(want[a]) # {} => views[a] # None)

WantInv == PlaceInv /\ Faithful(cfg) /\ CoreInv /\ WantPublic /\ WantViews
             /\ \A w \in Workers : LocalWant(w)

(* The same once the start-up is over.                                     *)
PublicKept ==
    /\ rows["public"] = want["public"]
    /\ want["public"] # NoZone => zone /\ reg # None
    /\ want["public"] = NoZone => \A a \in ACLNames : ~Filled(a)

ViewKept(a) ==
    /\ Hosts(rows[a]) = Hosts(want[a])
    /\ Hosts(want[a]) # {} => a \in zviews /\ views[a] # None /\ a \in ToSet(acls)

(* Small facts about the definitions above.                                *)
LEMMA EmptyFacts == \A i : i \notin DOMAIN <<>>
<1>1. <<>> \in Seq({}) /\ Len(<<>>) = 0 BY EmptySeq
<1>2. DOMAIN <<>> = 1 .. 0 BY <1>1, LenProperties
<1> QED BY <1>2

LEMMA HostFacts ==
    /\ Hosts(NoZone) = {} /\ Hosts({}) = {}
    /\ \A d \in SUBSET Records : Hosts(d) = d
BY DEF Hosts, NoZone, Records

LEMMA TouchedFacts ==
  ASSUME NEW r
  PROVE  /\ r.op \in {"none", "createACL", "edit", "move"} => Upset(r) = {}
         /\ r.op = "create" => Upset(r) = {"public"} /\ FirstStep(r) = "write rows"
         /\ r.op = "delete" => Upset(r) = Views /\ FirstStep(r) = "delete primary"
         /\ r.op = "deleteACL" => Upset(r) = {r.acl} /\ FirstStep(r) = "delete acl rows"
         /\ r.op = "renameACL" => Upset(r) = {r.acl, r.to} /\ FirstStep(r) = "rename acl"
         /\ Upset(r) \subseteq Touched(r)
BY DEF Touched, Upset, FirstStep

LEMMA IdleTouches == Idle.pc = "idle" /\ Upset(Idle.req) = {} /\ Touched(Idle.req) = {}
<1>1. Idle.pc = "idle" /\ Idle.req = NoRequest BY DEF Idle
<1>2. NoRequest.op = "none" BY DEF NoRequest, Ask
<1>3. Touched(NoRequest) = {} BY <1>2 DEF Touched
<1> QED BY <1>1, <1>2, <1>3, TouchedFacts

(* During the start-up nobody is at work.                                  *)
LEMMA StartSure ==
  ASSUME TypeInv, StartOnly, start.pc # "up"
  PROVE  /\ want' = want /\ cfg' = cfg
         /\ \A v : (Sure(v) <=> Known(v)) /\ (Sure(v)' <=> Known(v))
         /\ \A w \in Workers : LocalWant(w)'
<1>1. want' = want /\ cfg' = cfg /\ worker' = worker /\ \A w \in Workers : worker[w] = Idle
  BY DEF StartOnly, TypeInv, WorkersOK
<1>2. \A v : ~Unsettled(v) BY <1>1, IdleTouches DEF Unsettled
<1>3. \A v : ~Unsettled(v)' BY <1>1, IdleTouches DEF Unsettled
<1>4. \A v : (Sure(v) <=> Known(v)) /\ (Sure(v)' <=> Known(v)) BY <1>1, <1>2, <1>3 DEF Sure, Known
<1>5. \A w \in Workers : LocalWant(w)'
  <2>1. \A w \in Workers : worker'[w].pc = "idle" BY <1>1, IdleTouches
  <2> QED BY <2>1 DEF LocalWant
<1> QED BY <1>1, <1>4, <1>5

(* A step of the import: rows come from the block that promised them.      *)
LEMMA WantImport ==
  ASSUME WantInv, PlaceInv', StartOnly, core' = core, start.pc \in Early, start'.pc \in Early,
         zviews \subseteq zviews', ToSet(acls) \subseteq ToSet(acls'), zone => zone',
         \A v : Due(v) => \/ Due(v)'
                          \/ rows'[v] # NoZone /\ zone' /\ (v = "public" \/ v \in zviews'),
         \A v \in Views : Filled(v) => Filled(v)',
         \A v \in Views : Known(v) => \/ rows'[v] = rows[v]
                                      \/ rows'[v] = want[v],
         \A a \in ACLNames : ~Filled(a) => ~Filled(a)' \/ want["public"] # NoZone
  PROVE  WantInv'
<1>1. start.pc # "up" /\ start'.pc \notin {"load", "load views", "up"} /\ start'.pc # "up" /\ ~Loaded'
  BY DEF Early, Importing, Loaded
<1>2. /\ want' = want /\ cfg' = cfg
      /\ \A v : (Sure(v) <=> Known(v)) /\ (Sure(v)' <=> Known(v))
      /\ \A w \in Workers : LocalWant(w)'
  BY <1>1, StartSure DEF WantInv, PlaceInv
<1>f. \A v : Filled(v)' <=> rows'[v] # NoZone BY DEF Filled
<1>3. CoreInv'
  <2>1. ASSUME NEW i \in DOMAIN core, Readable(core[i]), ~Filled(core[i].view)'
        PROVE  want[core[i].view] = core[i].file
    <3>1. core[i].view \in Views BY ConfigFacts DEF WantInv, PlaceInv, TypeInv
    <3>2. PICK v \in Views : v = core[i].view BY <3>1
    <3>3. ~Filled(v) BY <2>1, <3>2 DEF Filled
    <3> QED BY <2>1, <3>2, <3>3 DEF WantInv, CoreInv
  <2>2. want["public"] = NoZone => \A i \in DOMAIN core : ~Readable(core[i])
    BY DEF WantInv, CoreInv
  <2> QED BY <1>1, <1>2, <2>1, <2>2 DEF CoreInv
<1>4. WantPublic'
  <2> SUFFICES ASSUME Known("public")
               PROVE  /\ \/ rows'["public"] = want["public"]
                         \/ ~Filled("public")' /\ Due("public")'
                         \/ /\ ~Filled("public")' /\ want["public"] = {}
                            /\ \E a \in ACLNames : Due(a)' \/ (a \in zviews' /\ Filled(a)')
                      /\ want["public"] # NoZone => zone' \/ \E v \in Views : Due(v)'
                      /\ want["public"] = NoZone => \A a \in ACLNames : ~Filled(a)'
    BY <1>1, <1>2 DEF WantPublic
  <2>1. /\ \/ rows["public"] = want["public"]
           \/ ~Filled("public") /\ Due("public")
           \/ /\ ~Filled("public") /\ want["public"] = {}
              /\ \E a \in ACLNames : Due(a) \/ (a \in zviews /\ Filled(a))
        /\ want["public"] # NoZone => zone \/ \E v \in Views : Due(v)
        /\ want["public"] = NoZone => \A a \in ACLNames : ~Filled(a)
    BY <1>2 DEF WantInv, WantPublic
  <2>2. rows'["public"] = want["public"] \/ rows'["public"] = rows["public"] BY DataFacts
  <2>3. ASSUME NEW a \in ACLNames, Due(a) \/ (a \in zviews /\ Filled(a))
        PROVE  Due(a)' \/ (a \in zviews' /\ Filled(a)')
    BY <1>f, <2>3, DataFacts
  <2>4. Filled("public") => Filled("public")' BY DataFacts
  <2>5. /\ \/ rows'["public"] = want["public"]
           \/ ~Filled("public")' /\ Due("public")'
           \/ /\ ~Filled("public")' /\ want["public"] = {}
              /\ \E a \in ACLNames : Due(a)' \/ (a \in zviews' /\ Filled(a)')
    <3>1. CASE rows["public"] = want["public"] BY <2>2, <3>1
    <3>2. CASE ~Filled("public") /\ Due("public") BY <1>f, <2>2, <3>2 DEF Filled
    <3>3. CASE /\ ~Filled("public") /\ want["public"] = {}
               /\ \E a \in ACLNames : Due(a) \/ (a \in zviews /\ Filled(a))
      BY <1>f, <2>2, <2>3, <3>3 DEF Filled
    <3> QED BY <2>1, <3>1, <3>2, <3>3
  <2>6. want["public"] # NoZone => zone' \/ \E v \in Views : Due(v)' BY <2>1
  <2>7. want["public"] = NoZone => \A a \in ACLNames : ~Filled(a)' BY <2>1
  <2> QED BY <2>5, <2>6, <2>7
<1>5. WantViews'
  <2> SUFFICES ASSUME NEW a \in ACLNames, Known(a)
               PROVE  /\ Hosts(rows'[a]) = Hosts(want[a]) \/ (~Filled(a)' /\ Due(a)')
                      /\ Hosts(want[a]) # {} =>
                           /\ a \in zviews' \/ Due(a)'
                           /\ a \in ToSet(acls') \/ \E i \in DOMAIN core : core[i].view = a
    BY <1>1, <1>2 DEF WantViews, Hosts
  <2>1. /\ Hosts(rows[a]) = Hosts(want[a]) \/ (~Filled(a) /\ Due(a))
        /\ Hosts(want[a]) # {} =>
             /\ a \in zviews \/ Due(a)
             /\ a \in ToSet(acls) \/ \E i \in DOMAIN core : core[i].view = a
    BY <1>2 DEF WantInv, WantViews
  <2>2. a \in Views /\ a # "public" BY DataFacts
  <2>3. rows'[a] = rows[a] \/ rows'[a] = want[a] BY <2>2
  <2>4. Hosts(rows'[a]) = Hosts(want[a]) \/ (~Filled(a)' /\ Due(a)')
    <3>1. CASE rows'[a] = want[a] BY <3>1
    <3>2. CASE rows'[a] = rows[a] BY <1>f, <2>1, <3>2 DEF Filled
    <3> QED BY <2>3, <3>1, <3>2
  <2> QED BY <2>1, <2>2, <2>4
<1> QED BY <1>2, <1>3, <1>4, <1>5 DEF WantInv

(* A step of the start-up past the import.                                 *)
LEMMA WantLate ==
  ASSUME WantInv, PlaceInv', StartOnly, start.pc # "up", start'.pc \notin Early,
         \A v : ~Due(v), core' = core \/ core' = <<>>, zviews' = zviews, acls' = acls, zone => zone',
         start.pc \in Early => \A i \in DOMAIN core : core[i].view \in ToSet(acls) \cup {"public"},
         \A i \in DOMAIN core : Readable(core[i]) => Filled(core[i].view),
         ~cfg.readonly /\ start'.pc # "strip" => core' = <<>>,
         \A v \in Views : Filled(v) => Filled(v)', \A a \in ACLNames : rows'[a] = rows[a],
         Known("public") => \/ rows'["public"] = want["public"]
                            \/ rows' = rows /\ start'.pc \notin {"load", "load views", "up"},
         Known("public") /\ want["public"] # NoZone /\ Loaded' => reg' # None,
         start'.pc = "up" =>
           \A a \in ACLNames : Known(a) /\ Hosts(want[a]) # {} => views'[a] # None
  PROVE  WantInv'
<1>2. /\ want' = want /\ cfg' = cfg
      /\ \A v : (Sure(v) <=> Known(v)) /\ (Sure(v)' <=> Known(v))
      /\ \A w \in Workers : LocalWant(w)'
  BY StartSure DEF WantInv, PlaceInv
<1>f. \A v : Filled(v)' <=> rows'[v] # NoZone BY DEF Filled
<1>d. \A v : ~Due(v)' BY DEF Due, Ahead
<1>3. CoreInv'
  <2>1. ASSUME NEW i \in DOMAIN core, Readable(core[i]) PROVE rows'[core[i].view] # NoZone
    <3>1. core[i].view \in Views BY ConfigFacts DEF WantInv, PlaceInv, TypeInv
    <3>2. PICK v \in Views : v = core[i].view BY <3>1
    <3>3. Filled(v)' BY <2>1, <3>2 DEF Filled
    <3> QED BY <3>2, <3>3 DEF Filled
  <2>2. want["public"] = NoZone => \A i \in DOMAIN core : ~Readable(core[i])
    BY DEF WantInv, CoreInv
  <2>3. CASE core' = core BY <1>2, <2>1, <2>2, <2>3 DEF CoreInv, Filled
  <2>4. CASE core' = <<>>
    <3>1. \A i : i \notin DOMAIN core' BY <2>4, EmptyFacts
    <3> QED BY <2>4, <3>1 DEF CoreInv
  <2> QED BY <2>3, <2>4
<1>4. WantPublic'
  <2> SUFFICES ASSUME Known("public")
               PROVE  /\ \/ rows'["public"] = want["public"]
                         \/ /\ ~Filled("public")' /\ want["public"] = {}
                            /\ start'.pc \notin {"load", "load views", "up"}
                            /\ \E a \in ACLNames : a \in zviews' /\ Filled(a)'
                      /\ want["public"] # NoZone => zone'
                      /\ want["public"] # NoZone /\ Loaded' => reg' # None
                      /\ want["public"] = NoZone => \A a \in ACLNames : ~Filled(a)'
    BY <1>2 DEF WantPublic
  <2>1. /\ \/ rows["public"] = want["public"]
           \/ /\ ~Filled("public") /\ want["public"] = {}
              /\ \E a \in ACLNames : a \in zviews /\ Filled(a)
        /\ want["public"] # NoZone => zone
        /\ want["public"] = NoZone => \A a \in ACLNames : ~Filled(a)
    BY <1>2 DEF WantInv, WantPublic
  <2>2. \A a \in ACLNames : Filled(a)' <=> Filled(a) BY DEF Filled
  <2>3. \/ rows'["public"] = want["public"]
        \/ /\ ~Filled("public")' /\ want["public"] = {}
           /\ start'.pc \notin {"load", "load views", "up"}
           /\ \E a \in ACLNames : a \in zviews' /\ Filled(a)'
    <3>1. CASE rows'["public"] = want["public"] BY <3>1
    <3>2. CASE rows' = rows /\ start'.pc \notin {"load", "load views", "up"}
      BY <1>f, <2>1, <2>2, <3>2 DEF Filled
    <3> QED BY <3>1, <3>2
  <2> QED BY <2>1, <2>2, <2>3
<1>5. WantViews'
  <2> SUFFICES ASSUME NEW a \in ACLNames, Known(a)
               PROVE  /\ Hosts(rows'[a]) = Hosts(want[a])
                      /\ Hosts(want[a]) # {} =>
                           a \in zviews' /\ a \in ToSet(acls') /\ (start'.pc = "up" => views'[a] # None)
    BY <1>2 DEF WantViews, Hosts
  <2>1. /\ Hosts(rows[a]) = Hosts(want[a])
        /\ Hosts(want[a]) # {} =>
             /\ a \in zviews
             /\ a \in ToSet(acls) \/ (start.pc \in Early /\ \E i \in DOMAIN core : core[i].view = a)
    BY <1>2 DEF WantInv, WantViews
  <2>2. a # "public" BY DataFacts
  <2>3. Hosts(want[a]) # {} => a \in ToSet(acls) BY <2>1, <2>2
  <2> QED BY <2>1, <2>3
<1> QED BY <1>2, <1>3, <1>4, <1>5 DEF WantInv

(* The start-up keeps WantInv.                                             *)
LEMMA WantRegister ==
  ASSUME WantInv, PlaceInv', RegisterCorefile PROVE WantInv'
<1>1. /\ start.pc = "register" /\ start'.pc = "import" /\ start'.block = start.block
      /\ UNCHANGED <<core, rows, zone, zviews, acls, cfg>> /\ StartOnly
  BY DEF RegisterCorefile, Starting, Then, sqlite, WantInv, PlaceInv, TypeInv, StartOK, StartOnly
<1>2. start.pc \in Early /\ start'.pc \in Early BY <1>1 DEF Early, Importing
<1>3. \A v : (Due(v)' <=> Due(v)) /\ (Filled(v)' <=> Filled(v)) BY <1>1, <1>2 DEF Due, Ahead, Filled
<1> QED BY <1>1, <1>2, <1>3, WantImport

LEMMA WantImports ==
  ASSUME WantInv, PlaceInv',
         ImportRecords \/ ImportViewRow \/ ImportZone \/ ImportACL \/ ImportApex
  PROVE  WantInv'
<1>t. TypeInv /\ PlaceInv /\ StoreOK /\ rows \in [Views -> Data] BY DEF WantInv, PlaceInv, TypeInv, StoreOK
<1>0. core' = core /\ StartOnly /\ start.pc \in Importing /\ start.block \in DOMAIN core /\ Ref.view \in Views
  BY <1>t, ImportBlock
<1>1. start.pc \in Early /\ start.pc # "up" BY <1>0 DEF Early, Importing
<1>2. start.pc # "import" => Filled(Ref.view) BY <1>0, <1>t DEF PlaceInv, ImportInv
<1>3. ASSUME NEW pc \in Importing, Then(pc)
      PROVE  start'.pc \in Early /\ \A v : Due(v) => Due(v)'
  <2>1. start'.pc = pc /\ start'.block = start.block BY <1>3, <1>t DEF Then, TypeInv, StartOK
  <2>2. start'.pc \in Early BY <2>1 DEF Early
  <2> QED BY <1>0, <2>1, <2>2 DEF Due, Ahead
<1>4. ASSUME NextBlock, Readable(Ref) => /\ rows'[Ref.view] # NoZone /\ zone'
                                         /\ Ref.view = "public" \/ Ref.view \in zviews'
      PROVE  /\ start'.pc \in Early
             /\ \A v : Due(v) => \/ Due(v)'
                                 \/ rows'[v] # NoZone /\ zone' /\ (v = "public" \/ v \in zviews')
  <2>1. start'.pc \in Early BY <1>4 DEF NextBlock, Early, Importing
  <2>2. ASSUME NEW v, Due(v) PROVE Due(v)' \/ (v = Ref.view /\ Readable(Ref))
    BY <1>0, <1>4, <1>t, <2>2, DueNext
  <2> QED BY <1>4, <2>1, <2>2
<1>5. CASE ImportRecords
  <2>0. UNCHANGED <<zone, zviews, acls>> BY <1>5 DEF ImportRecords
  <2>1. CASE /\ UNCHANGED rows
             /\ Then(IF Ref.view = "public" THEN "import zone" ELSE "import view row")
    <3>1. \E pc \in Importing : Then(pc) BY <2>1 DEF Importing
    <3> QED BY <1>0, <1>1, <1>3, <2>0, <2>1, <3>1, WantImport DEF Filled
  <2>2. CASE Ref.file = NoZone /\ NextBlock /\ UNCHANGED rows
    <3>1. ~Readable(Ref) BY <2>2 DEF Readable
    <3> QED BY <1>0, <1>1, <1>4, <2>0, <2>2, <3>1, WantImport DEF Filled
  <2>3. CASE /\ rows[Ref.view] = NoZone /\ Ref.file # NoZone
             /\ rows' = [rows EXCEPT ![Ref.view] = Ref.file] /\ Then("import new zone")
    <3>1. want[Ref.view] = Ref.file /\ want["public"] # NoZone
      BY <1>0, <2>3 DEF WantInv, CoreInv, Ref, Readable, Filled
    <3>2. \A v \in Views : rows'[v] = rows[v] \/ rows'[v] = want[v] BY <1>0, <1>t, <2>3, <3>1
    <3>3. \A v \in Views : Filled(v) => Filled(v)' BY <1>0, <1>t, <2>3 DEF Filled
    <3>4. start'.pc \in Early /\ \A v : Due(v) => Due(v)' BY <1>3, <2>3 DEF Importing
    <3> QED BY <1>0, <1>1, <2>0, <3>1, <3>2, <3>3, <3>4, WantImport
  <2> QED BY <1>5, <2>1, <2>2, <2>3 DEF ImportRecords
<1>6. CASE ImportViewRow
  <2>1. zviews \subseteq zviews' /\ UNCHANGED <<rows, zone, acls>> BY <1>6 DEF ImportViewRow
  <2>2. \E pc \in Importing : Then(pc) BY <1>6 DEF ImportViewRow, Importing
  <2> QED BY <1>0, <1>1, <1>3, <2>1, <2>2, WantImport DEF Filled
<1>7. CASE ImportZone
  <2>1. zone' /\ UNCHANGED <<rows, zviews, acls>> BY <1>7 DEF ImportZone
  <2>2. rows'[Ref.view] # NoZone BY <1>2, <1>7, <2>1 DEF ImportZone, Starting, Filled
  <2>3. CASE NextBlock /\ (Ref.view = "public" \/ start.pc = "import zone")
    <3>1. Ref.view = "public" \/ Ref.view \in zviews' BY <1>t, <2>1, <2>3 DEF PlaceInv, ImportInv
    <3> QED BY <1>0, <1>1, <1>4, <2>1, <2>2, <2>3, <3>1, WantImport DEF Filled
  <2>4. CASE Then("import acl")
    <3>1. start'.pc \in Early /\ \A v : Due(v) => Due(v)' BY <1>3, <2>4 DEF Importing
    <3> QED BY <1>0, <1>1, <2>1, <3>1, WantImport DEF Filled
  <2> QED BY <1>7, <2>3, <2>4 DEF ImportZone, Starting
<1>8. CASE ImportACL
  <2>1. InsertACL(Ref.view) /\ Then("import new view") /\ UNCHANGED <<rows, zone, zviews>>
        /\ start.pc = "import acl"
    BY <1>8 DEF ImportACL, Starting
  <2>2. Ref.view \in ACLNames BY <1>t, <2>1 DEF TypeInv, StartOK
  <2>3. ToSet(acls) \subseteq ToSet(acls') BY <1>t, <2>1, <2>2, InsertFacts
  <2>4. start'.pc \in Early /\ \A v : Due(v) => Due(v)' BY <1>3, <2>1 DEF Importing
  <2> QED BY <1>0, <1>1, <2>1, <2>3, <2>4, WantImport DEF Filled
<1>9. CASE ImportApex
  <2>1. NextBlock /\ start.pc = "import apex" /\ UNCHANGED <<zone, zviews, acls>> /\ seedPublicApex({Ref.view})
    BY <1>9 DEF ImportApex, Starting
  <2>2. rows[Ref.view] # NoZone /\ zone /\ Ref.view \in zviews /\ Ref.view \in ACLNames
    BY <1>2, <1>t, <2>1 DEF PlaceInv, ImportInv, Filled, StoreOK
  <2>3. \A v \in Views : v # "public" => rows'[v] = rows[v] BY <1>t, <2>1 DEF seedPublicApex
  <2>4. \A v \in Views : Filled(v) => Filled(v)'
    BY <1>t, <2>1, DataFacts DEF seedPublicApex, Filled
  <2>5. rows'[Ref.view] # NoZone /\ \A a \in ACLNames : rows'[a] = rows[a] BY <2>2, <2>3, DataFacts
  <2>6. Known("public") => rows'["public"] = rows["public"] \/ rows'["public"] = want["public"]
    <3>1. SUFFICES ASSUME Known("public"), rows["public"] = NoZone PROVE rows'["public"] = want["public"]
      BY <1>t, <2>1 DEF seedPublicApex
    <3>2. rows'["public"] = {} BY <1>t, <2>1, <2>2, <3>1, DataFacts DEF seedPublicApex
    <3>3. Sure("public") BY <1>0, <1>1, <1>t, <3>1, StartSure
    <3>4. ~Due("public")
      <4>1. ASSUME NEW i \in DOMAIN core, core[i].view = "public", Readable(core[i]) PROVE i < start.block
        <5>1. /\ core[i] = cfg.core[i] /\ core[start.block] = cfg.core[start.block]
              /\ i \in DOMAIN cfg.core /\ start.block \in DOMAIN cfg.core
          BY <1>0, <1>t, ConfigFacts DEF TypeInv
        <5>2. core[start.block].view # "public" BY <2>2, DataFacts DEF Ref
        <5> QED BY <4>1, <5>1, <5>2 DEF WantInv, Faithful, PublicFirst
      <4>2. start.block \in Nat /\ \A i \in DOMAIN core : i \in Nat BY <1>0, <1>t, ConfigFacts DEF TypeInv
      <4>3. \A i \in DOMAIN core : core[i].view = "public" /\ Readable(core[i]) => ~(start.block <= i)
        BY <4>1, <4>2
      <4> QED BY <4>3 DEF Due, Ahead
    <3>5. want["public"] # NoZone BY <2>2, <3>3 DEF WantInv, WantPublic, Filled
    <3> QED BY <3>1, <3>2, <3>3, <3>4, <3>5 DEF WantInv, WantPublic
  <2>7. \A v \in Views : Known(v) => rows'[v] = rows[v] \/ rows'[v] = want[v] BY <2>3, <2>6
  <2>8. \A a \in ACLNames : ~Filled(a) => ~Filled(a)' BY <2>5 DEF Filled
  <2> QED BY <1>0, <1>1, <1>4, <2>1, <2>2, <2>4, <2>5, <2>7, <2>8, WantImport
<1> QED BY <1>5, <1>6, <1>7, <1>8, <1>9

LEMMA WantAclsImport ==
  ASSUME WantInv, PlaceInv', ImportCorefileACLs PROVE WantInv'
<1>t. TypeInv /\ PlaceInv /\ StoreOK BY DEF WantInv, PlaceInv, TypeInv
<1>1. /\ start.pc = "import" /\ start.block > Len(core) /\ StartOnly /\ UNCHANGED memory
      /\ UNCHANGED <<cfg, core, rows, zone, zviews>>
  BY DEF ImportCorefileACLs, Starting, StartOnly
<1>2. /\ \A i \in DOMAIN core : i < start.block
      /\ \A v : ~Due(v)
  BY <1>1, <1>t, PastImport
<1>3. start.pc \in Early /\ start.pc # "up" BY <1>1 DEF Early, Importing
<1>r. \A v : Filled(v)' <=> Filled(v) BY <1>1 DEF Filled
<1>4. CASE /\ {core[i].view : i \in DOMAIN core} \ ({"public"} \cup ToSet(acls)) = {}
           /\ Then("strip") /\ UNCHANGED acls
  <2>1. start'.pc = "strip" BY <1>4, <1>t DEF Then, TypeInv, StartOK
  <2>2. start'.pc \notin Early /\ ~Loaded' BY <2>1 DEF Early, Importing, Loaded
  <2>3. \A i \in DOMAIN core : core[i].view \in ToSet(acls) \cup {"public"} BY <1>4
  <2>4. \A i \in DOMAIN core : Readable(core[i]) => Filled(core[i].view)
    BY <1>1, <1>2, <1>t DEF PlaceInv, ImportInv, Importing
  <2> QED BY <1>1, <1>2, <1>3, <1>4, <1>r, <2>1, <2>2, <2>3, <2>4, DataFacts, WantLate
<1>5. CASE \E a \in {core[i].view : i \in DOMAIN core} \ ({"public"} \cup ToSet(acls)) :
             InsertACL(a) /\ UNCHANGED start
  <2>1. PICK i \in DOMAIN core : core[i].view # "public" /\ InsertACL(core[i].view) /\ UNCHANGED start
    BY <1>5
  <2>2. core[i].view \in ACLNames BY <1>t, <2>1, ConfigFacts, DataFacts DEF TypeInv
  <2>3. ToSet(acls) \subseteq ToSet(acls') BY <1>t, <2>1, <2>2, InsertFacts
  <2>4. start'.pc \in Early BY <1>3, <2>1
  <2> QED BY <1>1, <1>2, <1>3, <1>r, <2>3, <2>4, WantImport
<1> QED BY <1>4, <1>5 DEF ImportCorefileACLs

LEMMA WantPrepare ==
  ASSUME WantInv, PlaceInv', StripCorefile \/ EnsureOrigin \/ EnsureApex PROVE WantInv'
<1>0. StartOnly /\ start.pc \in {"strip", "origins", "apex"} /\ start.pc # "up" /\ start.pc \notin Early
  BY DEF StripCorefile, EnsureOrigin, EnsureApex, Starting, Early, Importing
<1>1. \A v : ~Due(v) BY <1>0 DEF Due, Ahead
<1>t. TypeInv /\ rows \in [Views -> Data] /\ zviews \subseteq ACLNames /\ zone \in BOOLEAN
  BY DEF WantInv, PlaceInv, TypeInv, StoreOK
<1>2. \A i \in DOMAIN core : Readable(core[i]) => Filled(core[i].view)
  BY <1>0 DEF WantInv, CoreInv
<1>3. ~cfg.readonly /\ start.pc # "strip" => core = <<>> BY <1>0 DEF WantInv, CoreInv
<1>a. ACLNames \subseteq Views BY DataFacts
<1>4. CASE StripCorefile
  <2>1. /\ start'.pc = "origins" /\ UNCHANGED <<rows, zone, zviews, acls>>
        /\ core' = IF cfg.readonly THEN core ELSE <<>>
    <3>1. core \in Seq(Block) BY <1>t, ConfigFacts DEF TypeInv
    <3> QED BY <1>4, <3>1, StripFacts DEF StripCorefile, sqlite
  <2>2. start'.pc \notin Early /\ ~Loaded' BY <2>1 DEF Early, Importing, Loaded
  <2>3. \A v \in Views : Filled(v) => Filled(v)' BY <2>1 DEF Filled
  <2> QED BY <1>0, <1>1, <1>2, <2>1, <2>2, <2>3, WantLate
<1>5. CASE EnsureOrigin
  <2>1. /\ start'.pc = "apex" /\ UNCHANGED <<core, rows, zviews, acls>> /\ (zone => zone') /\ start.pc # "strip"
    BY <1>5, <1>t DEF EnsureOrigin, Then, Starting, TypeInv, StartOK
  <2>2. start'.pc \notin Early /\ ~Loaded' BY <2>1 DEF Early, Importing, Loaded
  <2>3. \A v \in Views : Filled(v) => Filled(v)' BY <2>1 DEF Filled
  <2> QED BY <1>0, <1>1, <1>2, <1>3, <2>1, <2>2, <2>3, WantLate
<1>6. CASE EnsureApex
  <2>1. /\ start.pc = "apex" /\ start'.pc = "load" /\ UNCHANGED <<core, zone, zviews, acls>>
        /\ seedPublicApex(zviews)
    BY <1>6, <1>t DEF EnsureApex, Then, Starting, TypeInv, StartOK
  <2>2. start'.pc \notin Early /\ ~Loaded' /\ start.pc # "strip" BY <2>1 DEF Early, Importing, Loaded
  <2>3. \A v \in Views : Filled(v) => Filled(v)' BY <1>t, <2>1, DataFacts DEF seedPublicApex, Filled
  <2>4. \A a \in ACLNames : rows'[a] = rows[a] BY <1>t, <2>1, DataFacts DEF seedPublicApex
  <2>5. ASSUME Known("public") PROVE rows'["public"] = want["public"]
    <3>1. Sure("public") BY <1>0, <1>t, <2>5, StartSure
    <3>2. \/ rows["public"] = want["public"]
          \/ /\ ~Filled("public") /\ want["public"] = {} /\ \E a \in ACLNames : a \in zviews /\ Filled(a)
      BY <1>1, <3>1 DEF WantInv, WantPublic
    <3>3. want["public"] = NoZone => \A a \in ACLNames : ~Filled(a) BY <3>1 DEF WantInv, WantPublic
    <3>4. CASE rows["public"] = want["public"]
      <4>1. rows["public"] = NoZone => ~\E a \in zviews : rows[a] # NoZone
        BY <1>t, <3>3, <3>4 DEF Filled
      <4> QED BY <2>1, <3>4, <4>1 DEF seedPublicApex
    <3>5. CASE /\ ~Filled("public") /\ want["public"] = {} /\ \E a \in ACLNames : a \in zviews /\ Filled(a)
      BY <1>t, <2>1, <3>5, DataFacts DEF seedPublicApex, Filled
    <3> QED BY <3>2, <3>4, <3>5
  <2> QED BY <1>0, <1>1, <1>2, <1>3, <2>1, <2>2, <2>3, <2>4, <2>5, WantLate
<1> QED BY <1>4, <1>5, <1>6

LEMMA WantLoad ==
  ASSUME WantInv, PlaceInv', LoadZones \/ loadViews PROVE WantInv'
<1>0. /\ StartOnly /\ start.pc \in {"load", "load views"} /\ start.pc # "up" /\ start.pc \notin Early
      /\ start.pc # "strip" /\ UNCHANGED <<core, rows, zone, zviews, acls>>
  BY DEF LoadZones, loadViews, Starting, Early, Importing, sqlite
<1>1. \A v : ~Due(v) BY <1>0 DEF Due, Ahead
<1>t. TypeInv /\ MemoryOK /\ rows \in [Views -> Data] /\ zviews \subseteq ACLNames /\ DOMAIN worker = Workers
  BY DEF WantInv, PlaceInv, TypeInv, StoreOK, WorkersOK
<1>2. /\ \A i \in DOMAIN core : Readable(core[i]) => Filled(core[i].view)
      /\ ~cfg.readonly => core = <<>>
  BY <1>0 DEF WantInv, CoreInv
<1>3. ASSUME Known("public")
      PROVE  rows["public"] = want["public"] /\ (want["public"] # NoZone => zone)
  <2>1. Sure("public") BY <1>0, <1>3, <1>t, StartSure
  <2> QED BY <1>0, <1>1, <2>1 DEF WantInv, WantPublic
<1>4. ASSUME NEW a \in ACLNames, Known(a), Hosts(want[a]) # {}
      PROVE  rows[a] # NoZone /\ a \in zviews
  <2>1. Sure(a) BY <1>0, <1>4, <1>t, StartSure
  <2> QED BY <1>1, <1>4, <2>1, HostFacts DEF WantInv, WantViews
<1>r. \A v \in Views : Filled(v) => Filled(v)' BY <1>0 DEF Filled
<1>o. \A o \in Objects : o # None BY ObjectFacts
<1>5. CASE LoadZones
  <2>1. start'.pc = "load views" BY <1>5, <1>t DEF LoadZones, Then, TypeInv, StartOK
  <2>2. start'.pc \notin Early /\ start'.pc # "up" BY <2>1 DEF Early, Importing
  <2>3. ASSUME Known("public"), want["public"] # NoZone PROVE reg' # None
    <3>1. zone /\ rows["public"] # NoZone BY <1>3, <2>3
    <3> QED BY <1>5, <1>t, <3>1, FreshFacts DEF LoadZones
  <2> QED BY <1>0, <1>1, <1>2, <1>3, <1>r, <2>1, <2>2, <2>3, WantLate
<1>6. CASE loadViews
  <2>0. reg' = reg BY <1>6 DEF loadViews, memory
  <2>1. Known("public") /\ want["public"] # NoZone => reg' # None
    <3>1. Known("public") => Sure("public") BY <1>0, <1>t, StartSure
    <3>2. Loaded BY <1>6 DEF loadViews, Starting, Loaded
    <3> QED BY <2>0, <3>1, <3>2 DEF WantInv, WantPublic
  <2>2. CASE /\ {a \in zviews : rows[a] # NoZone /\ views[a] = None} = {}
             /\ Then("up") /\ UNCHANGED memory
    <3>1. start'.pc = "up" /\ views' = views BY <1>t, <2>2 DEF Then, TypeInv, StartOK, memory
    <3>2. start'.pc \notin Early /\ start'.pc # "strip" BY <3>1 DEF Early, Importing
    <3>3. \A a \in ACLNames : Known(a) /\ Hosts(want[a]) # {} => views'[a] # None BY <1>4, <2>2, <3>1
    <3> QED BY <1>0, <1>1, <1>2, <1>3, <1>r, <2>1, <3>1, <3>2, <3>3, WantLate
  <2>3. CASE UNCHANGED start
    BY <1>0, <1>1, <1>2, <1>3, <1>r, <2>1, <2>3, WantLate
  <2> QED BY <1>6, <2>2, <2>3 DEF loadViews
<1> QED BY <1>5, <1>6

(* A worker that changes more than one place is there only where the       *)
(* Corefile's blocks are gone.                                             *)
LEMMA CoreGone ==
  ASSUME WantInv, NEW w \in Workers, Busy(w), worker[w].req.op \notin {"edit", "move"}
  PROVE  core = <<>> /\ start.pc = "up"
<1>1. start.pc = "up" BY IdleTouches DEF WantInv, PlaceInv, TypeInv, WorkersOK, Busy
<1>2. worker[w].req.op \in cfg.ops BY DEF WantInv, PlaceInv, Crew
<1>3. ~EditsOnly(cfg) BY <1>2 DEF EditsOnly
<1>4. ~cfg.readonly BY <1>3 DEF WantInv, Faithful
<1>5. start.pc \notin Early \cup {"strip"} BY <1>1 DEF Early, Importing
<1> QED BY <1>1, <1>4, <1>5 DEF WantInv, CoreInv

(* A crash makes what a request was changing unknown; the rest is in the   *)
(* tables, or in the Corefile that is read again.                          *)
LEMMA WantCrash ==
  ASSUME WantInv, PlaceInv', Crash PROVE WantInv'
<1>1. /\ cfg' = cfg /\ core' = core /\ UNCHANGED <<rows, zone, zviews, acls>>
      /\ start' = [pc |-> "register", block |-> 1]
      /\ \A w \in Workers : worker'[w] = Idle
      /\ CutShort({Req(w) : w \in Workers})
  BY DEF Crash, sqlite
<1>2. start'.pc = "register" /\ start'.block = 1 BY <1>1
<1>3. start'.pc \in Early /\ start'.pc \notin {"load", "load views", "up"} /\ ~Loaded' /\ start'.pc # "up"
  BY <1>2 DEF Early, Loaded
<1>4. \A v \in Views : want'[v] = IF \E w \in Workers : v \in Touched(worker[w].req) THEN Unknown ELSE want[v]
  BY <1>1 DEF CutShort, Req
<1>5. \A v : ~Unsettled(v)' BY <1>1, IdleTouches DEF Unsettled
<1>6. ASSUME NEW v \in Views, Sure(v)' PROVE Sure(v) /\ want'[v] = want[v]
  <2>1. want'[v] # Unknown BY <1>6 DEF Sure, Known
  <2>2. ~\E w \in Workers : v \in Touched(worker[w].req) BY <1>4, <2>1
  <2>3. ~\E w \in Workers : v \in Upset(worker[w].req) BY <2>2, TouchedFacts
  <2> QED BY <1>4, <2>1, <2>2, <2>3 DEF Sure, Known, Unsettled
<1>7. ASSUME NEW v, Due(v) PROVE Due(v)'
  <2>1. PICK i \in DOMAIN core : Ahead(i) /\ core[i].view = v /\ Readable(core[i]) BY <1>7 DEF Due
  <2>2. i >= 1 BY <2>1, ConfigFacts DEF WantInv, PlaceInv, TypeInv
  <2> QED BY <1>1, <1>2, <1>3, <2>1, <2>2 DEF Due, Ahead
<1>f. \A v : Filled(v)' <=> Filled(v) BY <1>1 DEF Filled
<1>8. CoreInv'
  <2>1. CASE core = <<>>
    <3>1. \A i : i \notin DOMAIN core' BY <1>1, <2>1, EmptyFacts
    <3> QED BY <1>1, <2>1, <3>1 DEF CoreInv
  <2>2. CASE core # <<>>
    <3>1. ASSUME start.pc \in Early PROVE \A v \in Views : want'[v] = want[v]
      <4>1. start.pc # "up" BY <3>1 DEF Early, Importing
      <4>2. \A w \in Workers : worker[w] = Idle BY <4>1 DEF WantInv, PlaceInv, TypeInv, WorkersOK
      <4> QED BY <1>4, <4>2, IdleTouches
    <3>2. \A v \in Views : want'[v] = want[v] \/ want'[v] = Unknown BY <1>4
    <3>3. \A i \in DOMAIN core : core[i].view \in Views BY ConfigFacts DEF WantInv, PlaceInv, TypeInv
    <3>4. ASSUME NEW i \in DOMAIN core, Readable(core[i]), rows[core[i].view] = NoZone
          PROVE  want'[core[i].view] = core[i].file
      <4>1. start.pc \in Early BY <3>4 DEF WantInv, CoreInv, Filled
      <4> QED BY <3>1, <3>3, <3>4, <4>1 DEF WantInv, CoreInv, Filled
    <3>5. want'["public"] = NoZone => \A i \in DOMAIN core : ~Readable(core[i])
      BY <3>2, DataFacts DEF WantInv, CoreInv
    <3> QED BY <1>1, <1>3, <3>4, <3>5 DEF CoreInv, Filled
  <2> QED BY <2>1, <2>2
<1>9. WantPublic'
  <2> SUFFICES ASSUME Sure("public")'
               PROVE  /\ \/ rows'["public"] = want'["public"]
                         \/ ~Filled("public")' /\ Due("public")'
                         \/ /\ ~Filled("public")' /\ want'["public"] = {}
                            /\ \E a \in ACLNames : Due(a)' \/ (a \in zviews' /\ Filled(a)')
                      /\ want'["public"] # NoZone => zone' \/ \E v \in Views : Due(v)'
                      /\ want'["public"] = NoZone => \A a \in ACLNames : ~Filled(a)'
    BY <1>3 DEF WantPublic
  <2>1. Sure("public") /\ want'["public"] = want["public"] BY <1>6, DataFacts
  <2>2. /\ \/ rows["public"] = want["public"]
           \/ ~Filled("public") /\ Due("public")
           \/ /\ ~Filled("public") /\ want["public"] = {}
              /\ \E a \in ACLNames : Due(a) \/ (a \in zviews /\ Filled(a))
        /\ want["public"] # NoZone => zone \/ \E v \in Views : Due(v)
        /\ want["public"] = NoZone => \A a \in ACLNames : ~Filled(a)
    BY <2>1 DEF WantInv, WantPublic
  <2> QED BY <1>1, <1>7, <1>f, <2>1, <2>2
<1>10. WantViews'
  <2> SUFFICES ASSUME NEW a \in ACLNames, Sure(a)'
               PROVE  /\ Hosts(rows'[a]) = Hosts(want'[a]) \/ (~Filled(a)' /\ Due(a)')
                      /\ Hosts(want'[a]) # {} =>
                           /\ a \in zviews' \/ Due(a)'
                           /\ a \in ToSet(acls') \/ \E i \in DOMAIN core : core[i].view = a
    BY <1>1, <1>3 DEF WantViews, Hosts
  <2>1. Sure(a) /\ want'[a] = want[a] BY <1>6, DataFacts
  <2>2. /\ Hosts(rows[a]) = Hosts(want[a]) \/ (~Filled(a) /\ Due(a))
        /\ Hosts(want[a]) # {} =>
             /\ a \in zviews \/ Due(a)
             /\ a \in ToSet(acls) \/ \E i \in DOMAIN core : core[i].view = a
    BY <2>1 DEF WantInv, WantViews
  <2> QED BY <1>1, <1>7, <1>f, <2>1, <2>2
<1>11. \A w \in Workers : LocalWant(w)'
  <2>1. \A w \in Workers : worker'[w].pc = "idle" BY <1>1, IdleTouches
  <2> QED BY <2>1 DEF LocalWant
<1> QED BY <1>1, <1>8, <1>9, <1>10, <1>11 DEF WantInv

(* One block for each view: the file a view was promised is its block's.   *)
LEMMA WantInit ==
  ASSUME Init, \A c \in Configs : Faithful(c)
  PROVE  WantInv
<1>1. \A c \in Configs : Orderly(c) BY DEF Faithful
<1>2. PlaceInv BY <1>1, PlaceInit
<1>3. /\ cfg \in Configs /\ core = cfg.core /\ start.pc = "register" /\ start.block = 1
      /\ \A v \in Views : rows[v] = NoZone
      /\ zviews = {} /\ acls = <<>> /\ \A w \in Workers : worker[w] = Idle
      /\ \A v \in Views : want[v] = IF v = "public" /\ FileOf(core, v) = NoZone
                                       /\ \E a \in ACLNames : FileOf(core, a) # NoZone
                                    THEN {} ELSE FileOf(core, v)
  BY DEF Init
<1>4. Faithful(cfg) BY <1>3
<1>5. start.pc \in Early /\ start.pc # "up" /\ start.pc \notin {"load", "load views", "up"} /\ ~Loaded
  BY <1>3 DEF Early, Loaded
<1>6. DOMAIN core \subseteq Nat /\ \A i \in DOMAIN core : 1 <= i /\ core[i].view \in Views
  BY <1>2, ConfigFacts DEF PlaceInv, TypeInv
<1>7. ASSUME NEW i \in DOMAIN core PROVE FileOf(core, core[i].view) = core[i].file
  <2> DEFINE T == {j \in DOMAIN core : core[j].view = core[i].view}
  <2>1. T \subseteq Nat /\ T # {} BY <1>6
  <2>2. Min(T) \in T BY <2>1, MinFacts
  <2>3. \A j \in T : j = i BY <1>3, <1>4 DEF Faithful, OneEach
  <2>4. Min(T) = i BY <2>2, <2>3
  <2> QED BY <2>1, <2>4 DEF FileOf
<1>8. ASSUME NEW v \in Views, FileOf(core, v) # NoZone PROVE Due(v)
  <2> DEFINE T == {j \in DOMAIN core : core[j].view = v}
  <2>1. T # {} BY <1>8 DEF FileOf
  <2>2. PICK i \in DOMAIN core : core[i].view = v BY <2>1
  <2>3. Readable(core[i]) BY <1>7, <1>8, <2>2 DEF Readable
  <2> QED BY <1>3, <1>5, <1>6, <2>2, <2>3 DEF Due, Ahead
<1>f. \A v \in Views : ~Filled(v) BY <1>3 DEF Filled
<1>9. CoreInv
  <2>1. ASSUME NEW i \in DOMAIN core, Readable(core[i]) PROVE want[core[i].view] = core[i].file
    BY <1>3, <1>6, <1>7, <2>1 DEF Readable
  <2>2. ASSUME want["public"] = NoZone, NEW i \in DOMAIN core PROVE ~Readable(core[i])
    <3>1. FileOf(core, "public") = NoZone /\ \A a \in ACLNames : FileOf(core, a) = NoZone
      BY <1>3, <2>2, DataFacts
    <3>2. FileOf(core, core[i].view) = NoZone BY <1>6, <3>1, DataFacts
    <3> QED BY <1>7, <3>2 DEF Readable
  <2> QED BY <1>5, <2>1, <2>2 DEF CoreInv
<1>10. WantPublic
  <2>1. CASE FileOf(core, "public") # NoZone
    <3>1. Due("public") /\ want["public"] # NoZone BY <1>3, <1>8, <2>1, DataFacts
    <3> QED BY <1>5, <1>f, <3>1, DataFacts DEF WantPublic
  <2>2. CASE FileOf(core, "public") = NoZone /\ \E a \in ACLNames : FileOf(core, a) # NoZone
    <3>1. want["public"] = {} BY <1>3, <2>2, DataFacts
    <3>2. \E a \in ACLNames : Due(a) BY <1>8, <2>2, DataFacts
    <3> QED BY <1>5, <1>f, <3>1, <3>2, DataFacts DEF WantPublic
  <2>3. CASE FileOf(core, "public") = NoZone /\ ~\E a \in ACLNames : FileOf(core, a) # NoZone
    <3>1. want["public"] = NoZone /\ rows["public"] = NoZone BY <1>3, <2>3, DataFacts
    <3> QED BY <1>f, <3>1, DataFacts DEF WantPublic
  <2> QED BY <2>1, <2>2, <2>3
<1>11. WantViews
  <2> SUFFICES ASSUME NEW a \in ACLNames
               PROVE  /\ Hosts(rows[a]) = Hosts(want[a]) \/ (~Filled(a) /\ Due(a))
                      /\ Hosts(want[a]) # {} => Due(a) /\ \E i \in DOMAIN core : core[i].view = a
    BY <1>5 DEF WantViews
  <2>1. a \in Views /\ want[a] = FileOf(core, a) BY <1>3, DataFacts
  <2>2. CASE FileOf(core, a) = NoZone BY <1>3, <2>1, <2>2, HostFacts
  <2>3. CASE FileOf(core, a) # NoZone
    <3>1. Due(a) BY <1>8, <2>1, <2>3
    <3> QED BY <1>f, <2>1, <3>1 DEF Due
  <2> QED BY <2>2, <2>3
<1>12. \A w \in Workers : LocalWant(w)
  <2>1. \A w \in Workers : worker[w].pc = "idle" BY <1>3, IdleTouches
  <2> QED BY <2>1 DEF LocalWant
<1> QED BY <1>2, <1>4, <1>9, <1>10, <1>11, <1>12 DEF WantInv

(* After the start-up nothing is due, and what was acknowledged is in its  *)
(* places.                                                                 *)
LEMMA UpFacts ==
  ASSUME WantInv, start.pc = "up"
  PROVE  /\ Sure("public") => PublicKept
         /\ \A a \in ACLNames : Sure(a) => ViewKept(a)
         /\ reg # None => Filled("public") /\ (Sure("public") => want["public"] # NoZone)
<1>1. start.pc \notin Early /\ Loaded BY DEF Early, Importing, Loaded
<1>2. \A v : ~Due(v) BY <1>1 DEF Due, Ahead
<1>3. Sure("public") => PublicKept BY <1>1, <1>2 DEF WantInv, WantPublic, PublicKept
<1>4. \A a \in ACLNames : Sure(a) => ViewKept(a) BY <1>1, <1>2 DEF WantInv, WantViews, ViewKept
<1>5. reg # None => Filled("public")
  <2> SUFFICES ASSUME reg # None PROVE Filled("public") OBVIOUS
  <2>1. obj[reg].data = rows["public"] BY <1>1 DEF WantInv, PlaceInv, PublicInv
  <2>2. reg \in Objects /\ obj[reg] \in Zones BY DEF WantInv, PlaceInv, TypeInv, MemoryOK
  <2>3. rows["public"] \in SUBSET Records BY <2>1, <2>2 DEF Zones
  <2> QED BY <2>3, DataFacts DEF Filled
<1> QED BY <1>3, <1>4, <1>5 DEF PublicKept, Filled

(* With the requests that may run beside it, only this one unsettles views. *)
LEMMA OthersCalm ==
  ASSUME PlaceInv, NEW w \in Workers, Busy(w), \A u \in Workers \ {w} : worker'[u] = worker[u]
  PROVE  /\ \A u \in Workers \ {w} : worker[u].pc \in {"idle", "record zone", "apply"}
         /\ \A v : Unsettled(v) <=>
              v \in Upset(worker[w].req) /\ worker[w].pc # FirstStep(worker[w].req)
         /\ \A v : Unsettled(v)' <=>
              v \in Upset(worker'[w].req) /\ worker'[w].pc # FirstStep(worker'[w].req)
<1>1. ASSUME NEW u \in Workers \ {w} PROVE worker[u].pc \in {"idle", "record zone", "apply"}
  <2>1. CASE Tame(cfg) BY <2>1 DEF PlaceInv, TameInv
  <2>2. CASE Alone(cfg) BY <2>2 DEF PlaceInv, Crew, Busy, Alone
  <2> QED BY <2>1, <2>2 DEF PlaceInv, Orderly
<1>2. ASSUME NEW u \in Workers \ {w} PROVE Upset(worker[u].req) = {}
  <2>1. WorkerOK(worker[u]) BY DEF PlaceInv, TypeInv, WorkersOK
  <2>2. CASE worker[u].pc = "idle" BY <2>1, <2>2, IdleTouches DEF WorkerOK
  <2>3. CASE worker[u].pc \in {"record zone", "apply"}
    <3>1. worker[u].req.op \in {"edit", "move"} BY <2>1, <2>3 DEF WorkerOK, EditSteps
    <3> QED BY <3>1, TouchedFacts
  <2> QED BY <1>1, <2>2, <2>3
<1>3. \A v : Unsettled(v) <=> v \in Upset(worker[w].req) /\ worker[w].pc # FirstStep(worker[w].req)
  BY <1>2 DEF Unsettled
<1>4. \A v : Unsettled(v)' <=> v \in Upset(worker'[w].req) /\ worker'[w].pc # FirstStep(worker'[w].req)
  BY <1>2 DEF Unsettled
<1> QED BY <1>1, <1>3, <1>4

(* What is left to show of a request's step.                               *)
LEMMA UpFrame ==
  ASSUME WantInv, PlaceInv', NEW w \in Workers, RequestOnly, start.pc = "up", Busy(w),
         \A u \in Workers \ {w} : worker'[u] = worker[u],
         core = <<>> \/ \A v \in Views : Filled(v) => Filled(v)',
         core = <<>> \/ (want'["public"] = NoZone => want["public"] = NoZone),
         Sure("public")' => PublicKept', \A a \in ACLNames : Sure(a)' => ViewKept(a)',
         LocalWant(w)'
  PROVE  WantInv'
<1>1. cfg' = cfg /\ core' = core /\ start' = start BY DEF RequestOnly
<1>2. start'.pc = "up" /\ start'.pc \notin Early /\ Loaded' /\ start.pc \notin Early
  BY <1>1 DEF Early, Importing, Loaded
<1>3. CoreInv'
  <2>1. CASE core = <<>>
    <3>1. \A i : i \notin DOMAIN core' BY <1>1, <2>1, EmptyFacts
    <3> QED BY <1>1, <2>1, <3>1 DEF CoreInv
  <2>2. CASE core # <<>>
    <3>1. ASSUME NEW i \in DOMAIN core, Readable(core[i]) PROVE rows'[core[i].view] # NoZone
      <4>1. core[i].view \in Views BY ConfigFacts DEF WantInv, PlaceInv, TypeInv
      <4>2. PICK v \in Views : v = core[i].view BY <4>1
      <4>3. Filled(v) BY <1>2, <3>1, <4>2 DEF WantInv, CoreInv
      <4>4. Filled(v)' BY <2>2, <4>3
      <4> QED BY <4>2, <4>4 DEF Filled
    <3>2. want'["public"] = NoZone => \A i \in DOMAIN core : ~Readable(core[i])
      BY <2>2 DEF WantInv, CoreInv
    <3>3. ~cfg.readonly /\ start.pc \notin Early \cup {"strip"} => core = <<>> BY DEF WantInv, CoreInv
    <3> QED BY <1>1, <3>1, <3>2, <3>3 DEF CoreInv, Filled
  <2> QED BY <2>1, <2>2
<1>4. WantPublic' BY <1>2 DEF WantPublic, PublicKept
<1>5. WantViews' BY <1>2 DEF WantViews, ViewKept
<1>6. ASSUME NEW u \in Workers PROVE LocalWant(u)'
  <2>1. CASE u = w BY <2>1
  <2>2. CASE u # w
    <3>1. worker[u].pc \in {"idle", "record zone", "apply"} BY <2>2, OthersCalm DEF WantInv
    <3>2. worker'[u].pc \in {"idle", "record zone", "apply"} BY <2>2, <3>1
    <3> QED BY <3>2 DEF LocalWant
  <2> QED BY <2>1, <2>2
<1> QED BY <1>1, <1>3, <1>4, <1>5, <1>6 DEF WantInv

(* The requests keep WantInv.                                              *)
LEMMA WantCreate ==
  ASSUME WantInv, PlaceInv', NEW w \in Workers,
         CreateRows(w) \/ RegisterPrimary(w) \/ Publish(w) \/ UpsertZone(w)
  PROVE  WantInv'
<1> DEFINE x == worker[w]
<1>0. RequestOnly /\ start.pc = "up" /\ x.pc \in CreateSteps
  BY DEF CreateRows, RegisterPrimary, Publish, UpsertZone, At, CreateSteps
<1>t. /\ PlaceInv /\ TypeInv /\ StoreOK /\ MemoryOK /\ WorkersOK /\ Local(w) /\ WorkerOK(x) /\ DOMAIN worker = Workers
      /\ rows \in [Views -> Data] /\ want \in [Views -> Data \cup {Unknown}]
  BY <1>0 DEF WantInv, PlaceInv, TypeInv, WorkersOK, StoreOK
<1>1. x.req.op = "create" /\ Busy(w) /\ x.pc \notin {"idle"} BY <1>0, <1>t DEF WorkerOK, Busy, CreateSteps
<1>2. core = <<>> BY <1>1, CoreGone
<1>3. \A u \in Workers \ {w} : worker'[u] = worker[u]
  <2>1. CASE CreateRows(w) BY <1>t, <2>1 DEF CreateRows, Goto
  <2>2. CASE RegisterPrimary(w) BY <1>t, <2>2 DEF RegisterPrimary, Reply
  <2>3. CASE Publish(w) BY <1>t, <2>3 DEF Publish, Goto
  <2>4. CASE UpsertZone(w) BY <1>t, <2>4 DEF UpsertZone, Reply
  <2> QED BY <2>1, <2>2, <2>3, <2>4
<1>4. \A v : Unsettled(v) <=> v = "public" /\ x.pc # "write rows"
  BY <1>1, <1>3, <1>t, OthersCalm, TouchedFacts
<1>5. \A v : Unsettled(v)' <=> v \in Upset(worker'[w].req) /\ worker'[w].pc # FirstStep(worker'[w].req)
  BY <1>1, <1>3, <1>t, OthersCalm
<1>6. UNCHANGED <<zviews, acls, views>>
  BY DEF CreateRows, RegisterPrimary, Publish, UpsertZone, memory, sqlite
<1>7. \A a \in ACLNames : rows'[a] = rows[a] /\ want'[a] = want[a]
  <2>1. \A a \in ACLNames : a # "public" /\ a \in Views BY DataFacts
  <2>2. CASE CreateRows(w) BY <1>t, <2>1, <2>2 DEF CreateRows
  <2>3. CASE RegisterPrimary(w) \/ Publish(w) BY <2>3 DEF RegisterPrimary, Publish, sqlite
  <2>4. CASE UpsertZone(w) BY <1>t, <2>1, <2>4 DEF UpsertZone
  <2> QED BY <2>2, <2>3, <2>4
<1>8. ASSUME NEW a \in ACLNames, Sure(a)' PROVE ViewKept(a)'
  <2>1. Sure(a)
    <3>1. a # "public" BY DataFacts
    <3> QED BY <1>4, <1>7, <1>8, <3>1 DEF Sure, Known
  <2>2. ViewKept(a) BY <1>0, <2>1, UpFacts
  <2> QED BY <1>6, <1>7, <2>2 DEF ViewKept, Hosts
<1>9. CASE ~UpsertZone(w)
  <2>1. /\ worker'[w].req = x.req /\ worker'[w].pc \in {"register", "publish", "write zone"}
    <3>1. CASE CreateRows(w) BY <1>t, <3>1 DEF CreateRows, Goto, WorkerOK
    <3>2. CASE RegisterPrimary(w)
      <4>1. reg = None BY <1>t, <3>2 DEF RegisterPrimary, At, Local
      <4> QED BY <1>t, <3>2, <4>1 DEF RegisterPrimary, WorkerOK
    <3>3. CASE Publish(w) BY <1>t, <3>3 DEF Publish, Goto, WorkerOK
    <3> QED BY <1>9, <3>1, <3>2, <3>3
  <2>2. Upset(x.req) = {"public"} /\ FirstStep(x.req) = "write rows" BY <1>1, TouchedFacts
  <2>3. Unsettled("public")' BY <1>5, <2>1, <2>2
  <2>4. ~Sure("public")' BY <2>3 DEF Sure
  <2>5. LocalWant(w)' BY <2>1 DEF LocalWant
  <2> QED BY <1>0, <1>1, <1>2, <1>3, <1>8, <2>4, <2>5, UpFrame
<1>10. CASE UpsertZone(w)
  <2>1. /\ x.pc = "write zone" /\ Reply(w) /\ zone' /\ UNCHANGED <<rows, reg>>
        /\ want' = [want EXCEPT !["public"] = {}]
    BY <1>10 DEF UpsertZone, At, memory
  <2>2. worker'[w] = Idle BY <1>t, <2>1, ReplyOK
  <2>3. rows["public"] = {} /\ reg # None BY <1>t, <2>1 DEF Local
  <2>4. want'["public"] = {} /\ {} # NoZone BY <1>t, <2>1, DataFacts
  <2>5. PublicKept' BY <2>1, <2>3, <2>4 DEF PublicKept
  <2>6. LocalWant(w)'
    <3>1. worker'[w].pc = "idle" BY <2>2, IdleTouches
    <3> QED BY <3>1 DEF LocalWant
  <2> QED BY <1>0, <1>1, <1>2, <1>3, <1>8, <2>5, <2>6, UpFrame
<1> QED BY <1>9, <1>10

LEMMA WantDelete ==
  ASSUME WantInv, PlaceInv', NEW w \in Workers,
         DeletePrimary(w) \/ Unregister(w) \/ dropViews(w) \/ DeleteZone(w)
  PROVE  WantInv'
<1> DEFINE x == worker[w]
<1>0. RequestOnly /\ start.pc = "up" /\ x.pc \in DeleteSteps
  BY DEF DeletePrimary, Unregister, dropViews, DeleteZone, At, DeleteSteps
<1>t. /\ PlaceInv /\ TypeInv /\ StoreOK /\ MemoryOK /\ WorkersOK /\ Local(w) /\ WorkerOK(x) /\ DOMAIN worker = Workers
  BY <1>0 DEF WantInv, PlaceInv, TypeInv, WorkersOK, StoreOK
<1>1. x.req.op = "delete" /\ Busy(w) BY <1>0, <1>t DEF WorkerOK, Busy, DeleteSteps
<1>2. core = <<>> BY <1>1, CoreGone
<1>g. ASSUME NEW pc, Goto(w, pc)
      PROVE  /\ worker'[w].pc = pc /\ worker'[w].req = x.req
             /\ \A u \in Workers \ {w} : worker'[u] = worker[u]
  BY <1>g, <1>t DEF Goto, WorkerOK
<1>3. ASSUME \A u \in Workers \ {w} : worker'[u] = worker[u], worker'[w].req = x.req,
             worker'[w].pc \in DeleteSteps \ {"delete primary"}
      PROVE  WantInv'
  <2>1. Upset(x.req) = Views /\ FirstStep(x.req) = "delete primary" BY <1>1, TouchedFacts
  <2>2. \A v \in Views : Unsettled(v)' BY <1>1, <1>3, <1>t, <2>1, OthersCalm
  <2>3. \A v \in Views : ~Sure(v)' BY <2>2 DEF Sure
  <2>4. LocalWant(w)' BY <1>3 DEF LocalWant, DeleteSteps
  <2> QED BY <1>0, <1>1, <1>2, <1>3, <2>3, <2>4, DataFacts, UpFrame
<1>h. ASSUME NEW pc \in DeleteSteps \ {"delete primary"}, Goto(w, pc) PROVE WantInv'
  <2>1. worker'[w].pc = pc /\ worker'[w].req = x.req /\ \A u \in Workers \ {w} : worker'[u] = worker[u]
    BY <1>g, <1>h
  <2> QED BY <1>3, <2>1
<1>4. CASE DeletePrimary(w) BY <1>4, <1>h DEF DeletePrimary, DeleteSteps
<1>5. CASE Unregister(w) BY <1>5, <1>h DEF Unregister, DeleteSteps
<1>6. CASE dropViews(w)
  <2>1. CASE Goto(w, "delete rows") BY <1>h, <2>1 DEF DeleteSteps
  <2>2. CASE worker' = [worker EXCEPT ![w].pc = "drop rows",
                          ![w].drop = {a \in ACLNames : views[a] # None}]
    <3>1. /\ \A u \in Workers \ {w} : worker'[u] = worker[u]
          /\ worker'[w].req = x.req /\ worker'[w].pc = "drop rows"
      BY <1>t, <2>2 DEF WorkerOK
    <3> QED BY <1>3, <3>1 DEF DeleteSteps
  <2>3. CASE x.pc = "drop rows" /\ \E a \in worker[w].drop : worker' = [worker EXCEPT ![w].drop = @ \ {a}]
    <3>1. /\ \A u \in Workers \ {w} : worker'[u] = worker[u]
          /\ worker'[w].req = x.req /\ worker'[w].pc = "drop rows"
      BY <1>t, <2>3 DEF WorkerOK
    <3> QED BY <1>3, <3>1 DEF DeleteSteps
  <2> QED BY <1>6, <2>1, <2>2, <2>3 DEF dropViews, At
<1>7. CASE DeleteZone(w)
  <2>1. CASE Goto(w, "delete view rows") \/ Goto(w, "delete zone row") BY <1>h, <2>1 DEF DeleteSteps
  <2>2. CASE /\ x.pc = "delete zone row" /\ Reply(w) /\ want' = [v \in Views |-> NoZone]
             /\ UNCHANGED <<rows, zviews>>
    <3>1. worker'[w] = Idle /\ \A u \in Workers \ {w} : worker'[u] = worker[u] BY <1>t, <2>2, ReplyOK
    <3>2. \A v \in Views : rows'[v] = NoZone /\ want'[v] = NoZone BY <1>t, <2>2 DEF Local
    <3>3. PublicKept' BY <3>2, DataFacts DEF PublicKept, Filled
    <3>4. \A a \in ACLNames : ViewKept(a)'
      <4>1. \A a \in ACLNames : rows'[a] = NoZone /\ want'[a] = NoZone BY <3>2, DataFacts
      <4>2. NoZone \cap Records = {} BY HostFacts DEF Hosts
      <4> QED BY <4>1, <4>2 DEF ViewKept, Hosts
    <3>5. LocalWant(w)'
      <4>1. worker'[w].pc = "idle" BY <3>1, IdleTouches
      <4> QED BY <4>1 DEF LocalWant
    <3> QED BY <1>0, <1>1, <1>2, <3>1, <3>3, <3>4, <3>5, UpFrame
  <2> QED BY <1>7, <2>1, <2>2 DEF DeleteZone, At
<1> QED BY <1>4, <1>5, <1>6, <1>7

(* An edit changes what is promised as it changes the zone.                *)
LEMMA EditWantedFacts ==
  ASSUME NEW d \in Data \cup {Unknown}, NEW e, EditOK(e)
  PROVE  /\ EditWanted(d, e) # NoZone /\ EditWanted(d, e) \in Data \cup {Unknown}
         /\ EditWanted(d, e) = Unknown <=> d = Unknown
         /\ \A n \in SUBSET Records : d = n => EditWanted(d, e) = (n \ e.del) \cup e.add
         /\ d # Unknown => \A n \in SUBSET Records :
              Hosts(n) = Hosts(d) => Hosts((n \ e.del) \cup e.add) = Hosts(EditWanted(d, e))
<1>1. e.add \in SUBSET Records /\ e.del \in SUBSET Records BY DEF EditOK
<1>2. CASE d = Unknown
  <2>1. Unknown # NoZone /\ Unknown \notin SUBSET Records BY DataFacts
  <2> QED BY <1>2, <2>1 DEF EditWanted
<1>3. CASE d = NoZone
  <2>1. EditWanted(d, e) = ({} \ e.del) \cup e.add BY <1>3, DataFacts DEF EditWanted
  <2>2. EditWanted(d, e) = e.add /\ e.add # NoZone /\ e.add # Unknown /\ e.add \in Data BY <1>1, <2>1, DataFacts
  <2>3. ASSUME NEW n \in SUBSET Records, Hosts(n) = Hosts(d) PROVE (n \ e.del) \cup e.add = e.add
    <3>1. n = {} BY <1>3, <2>3, HostFacts
    <3> QED BY <3>1
  <2>4. d # Unknown /\ d \notin SUBSET Records BY <1>3, DataFacts
  <2> QED BY <2>2, <2>3, <2>4
<1>4. CASE d \in SUBSET Records
  <2>1. d # Unknown /\ d # NoZone BY <1>4, DataFacts
  <2>2. EditWanted(d, e) = (d \ e.del) \cup e.add BY <2>1 DEF EditWanted
  <2>3. EditWanted(d, e) \in SUBSET Records BY <1>1, <1>4, <2>2
  <2>4. EditWanted(d, e) # NoZone /\ EditWanted(d, e) # Unknown /\ EditWanted(d, e) \in Data BY <2>3, DataFacts
  <2>5. ASSUME NEW n \in SUBSET Records, Hosts(n) = Hosts(d) PROVE n = d BY <1>4, <2>5, HostFacts
  <2> QED BY <2>1, <2>2, <2>4, <2>5
<1> QED BY <1>2, <1>3, <1>4, DataFacts

LEMMA WantEdit ==
  ASSUME WantInv, PlaceInv', NEW w \in Workers,
         recordZone(w) \/ SeedView(w) \/ UpsertZoneView(w) \/ putView(w) \/ Apply(w)
  PROVE  WantInv'
<1> DEFINE x == worker[w]
<1>0. RequestOnly /\ start.pc = "up" /\ x.pc \in EditSteps
  BY DEF recordZone, SeedView, UpsertZoneView, putView, Apply, At, EditSteps
<1>t. /\ PlaceInv /\ TypeInv /\ StoreOK /\ MemoryOK /\ WorkersOK /\ Local(w) /\ WorkerOK(x) /\ DOMAIN worker = Workers
      /\ rows \in [Views -> Data] /\ want \in [Views -> Data \cup {Unknown}]
  BY <1>0 DEF WantInv, PlaceInv, TypeInv, WorkersOK, StoreOK
<1>1. x.req.op \in {"edit", "move"} /\ Busy(w) BY <1>0, <1>t DEF WorkerOK, Busy, EditSteps
<1>2. Upset(x.req) = {} BY <1>1, TouchedFacts
<1>p. PICK e, v : e = Head(x.req.todo) /\ v = e.view OBVIOUS
<1>3. EditOK(e) /\ v \in Views /\ Editing(x) = v /\ e.add \in SUBSET Records /\ e.del \in SUBSET Records
  <2>1. EditOK(e) BY <1>0, <1>p, <1>t, ReqFacts
  <2>2. Editing(x) = v BY <1>p DEF Editing
  <2> QED BY <1>p, <2>1, <2>2 DEF EditOK
<1>4. /\ Sure("public") => PublicKept
      /\ \A a \in ACLNames : Sure(a) => ViewKept(a)
      /\ reg # None => Filled("public") /\ (Sure("public") => want["public"] # NoZone)
  BY <1>0, UpFacts
<1>c. ~Swapping /\ ~Creating /\ ~Dropping /\ \A a : ~Leaving(a) BY <1>0, <1>t, EditCalm
<1>5. ASSUME \A u \in Workers \ {w} : worker'[u] = worker[u], Upset(worker'[w].req) = {},
             worker'[w].pc \in EditSteps \cup {"idle"}
      PROVE  /\ \A v1 : Sure(v1) <=> Known(v1)
             /\ \A v1 : Sure(v1)' <=> Known(v1)'
             /\ LocalWant(w)'
  <2>1. \A v1 : ~Unsettled(v1) /\ ~Unsettled(v1)' BY <1>1, <1>2, <1>5, <1>t, OthersCalm
  <2>2. LocalWant(w)' BY <1>5 DEF LocalWant, EditSteps
  <2> QED BY <2>1, <2>2 DEF Sure
<1>6. ASSUME Reply(w)
      PROVE  /\ \A u \in Workers \ {w} : worker'[u] = worker[u]
             /\ Upset(worker'[w].req) = {} /\ worker'[w].pc = "idle"
  BY <1>6, <1>t, ReplyOK, IdleTouches
<1>g. ASSUME NEW pc, Goto(w, pc)
      PROVE  /\ \A u \in Workers \ {w} : worker'[u] = worker[u]
             /\ Upset(worker'[w].req) = {} /\ worker'[w].pc = pc
  BY <1>2, <1>g, <1>t DEF Goto, WorkerOK
<1>a. ACLNames \subseteq Views /\ "public" \in Views /\ "public" \notin ACLNames BY DataFacts
<1>7. ASSUME \A u \in Workers \ {w} : worker'[u] = worker[u], Upset(worker'[w].req) = {},
             worker'[w].pc \in EditSteps \cup {"idle"}, rows' = rows,
             \A v1 \in Views : want'[v1] = want[v1] \/ want'[v1] = Unknown,
             UNCHANGED <<zone, reg, acls>>, zviews \subseteq zviews',
             \A a \in ACLNames : views[a] # None => views'[a] # None
      PROVE  WantInv'
  <2>1. \A v1 \in Views : Known(v1)' => Known(v1) /\ want'[v1] = want[v1] BY <1>7 DEF Known
  <2>2. Sure("public")' => PublicKept' BY <1>4, <1>5, <1>7, <1>a, <2>1 DEF PublicKept, Filled
  <2>3. \A a \in ACLNames : Sure(a)' => ViewKept(a)' BY <1>4, <1>5, <1>7, <1>a, <2>1 DEF ViewKept, Hosts
  <2>6. want'["public"] = NoZone => want["public"] = NoZone BY <1>7, <1>a, DataFacts
  <2>4. \A v1 \in Views : Filled(v1) => Filled(v1)' BY <1>7 DEF Filled
  <2>5. LocalWant(w)' BY <1>5, <1>7
  <2> QED BY <1>0, <1>1, <1>7, <2>2, <2>3, <2>4, <2>5, <2>6, UpFrame
<1>8. CASE recordZone(w)
  <2>0. UNCHANGED <<rows, zone, zviews, acls, reg, views>> BY <1>8 DEF recordZone, sqlite, memory
  <2>1. /\ UNCHANGED <<rows, zone, zviews, acls, reg, views>>
        /\ \A v1 \in Views : want'[v1] = want[v1] \/ want'[v1] = Unknown
    <3>1. UNCHANGED want \/ CutShort({Req(w)}) BY <1>8 DEF recordZone
    <3> QED BY <2>0, <3>1, CutFacts
  <2>2. CASE Reply(w) BY <1>6, <1>7, <2>1, <2>2
  <2>3. CASE \E o : worker' = [worker EXCEPT ![w].pc = "apply", ![w].obj = o]
    <3>1. PICK o : worker' = [worker EXCEPT ![w].pc = "apply", ![w].obj = o] BY <2>3
    <3>2. /\ \A u \in Workers \ {w} : worker'[u] = worker[u]
          /\ worker'[w].req = x.req /\ worker'[w].pc = "apply"
      BY <1>t, <3>1 DEF WorkerOK
    <3> QED BY <1>2, <1>7, <2>1, <3>2 DEF EditSteps
  <2>4. CASE \E s : \E pc \in {"view row", "seed view"} :
               worker' = [worker EXCEPT ![w].pc = pc, ![w].seed = s]
    <3>0. PICK s : \E pc \in {"view row", "seed view"} :
                     worker' = [worker EXCEPT ![w].pc = pc, ![w].seed = s]
      BY <2>4
    <3>1. PICK pc \in {"view row", "seed view"} : worker' = [worker EXCEPT ![w].pc = pc, ![w].seed = s]
      BY <3>0
    <3>2. /\ \A u \in Workers \ {w} : worker'[u] = worker[u]
          /\ worker'[w].req = x.req /\ worker'[w].pc = pc
      BY <1>t, <3>1 DEF WorkerOK
    <3> QED BY <1>2, <1>7, <2>1, <3>2 DEF EditSteps
  <2> QED BY <1>8, <2>2, <2>3, <2>4 DEF recordZone
<1>9. CASE SeedView(w)
  <2>1. /\ x.pc = "seed view" /\ Goto(w, "view row") /\ rows' = [rows EXCEPT ![v] = {}]
        /\ UNCHANGED <<zone, zviews, acls, reg, views, want>>
    BY <1>9, <1>p DEF SeedView, At, memory, Req
  <2>2. v \in ACLNames /\ reg # None /\ rows[v] = NoZone BY <1>3, <1>t, <2>1 DEF WorkerOK, Local
  <2>3. /\ rows'[v] = {} /\ \A u \in Views : u # v => rows'[u] = rows[u] BY <1>a, <1>t, <2>1, <2>2
  <2>4. /\ \A u \in Workers \ {w} : worker'[u] = worker[u]
        /\ Upset(worker'[w].req) = {} /\ worker'[w].pc \in EditSteps \cup {"idle"}
    BY <1>g, <2>1 DEF EditSteps
  <2>5. \A v1 : Known(v1)' <=> Known(v1) BY <2>1 DEF Known
  <2>6. Sure("public")' => PublicKept'
    <3>1. rows'["public"] = rows["public"] BY <1>a, <2>2, <2>3
    <3> QED BY <1>4, <1>5, <2>1, <2>2, <2>4, <2>5, <3>1 DEF PublicKept
  <2>7. ASSUME NEW a \in ACLNames, Sure(a)' PROVE ViewKept(a)'
    <3>1. ViewKept(a) BY <1>4, <1>5, <2>4, <2>5, <2>7
    <3>2. Hosts(rows'[a]) = Hosts(rows[a]) BY <1>a, <2>2, <2>3, HostFacts
    <3> QED BY <2>1, <3>1, <3>2 DEF ViewKept, Hosts
  <2>8. \A v1 \in Views : Filled(v1) => Filled(v1)' BY <2>2, <2>3 DEF Filled
  <2>9. LocalWant(w)' BY <1>5, <2>4
  <2> QED BY <1>0, <1>1, <2>1, <2>4, <2>6, <2>7, <2>8, <2>9, UpFrame
<1>10. CASE UpsertZoneView(w)
  <2>1. /\ Goto(w, "put view") /\ zviews \subseteq zviews'
        /\ UNCHANGED <<rows, zone, acls, reg, views, want>>
    BY <1>10 DEF UpsertZoneView, memory
  <2>2. /\ \A u \in Workers \ {w} : worker'[u] = worker[u]
        /\ Upset(worker'[w].req) = {} /\ worker'[w].pc \in EditSteps \cup {"idle"}
    BY <1>g, <2>1 DEF EditSteps
  <2> QED BY <1>7, <2>1, <2>2
<1>11. CASE putView(w)
  <2>1. /\ x.pc = "put view" /\ views' = [views EXCEPT ![v] = Fresh]
        /\ worker' = [worker EXCEPT ![w].pc = "apply", ![w].obj = Fresh]
        /\ UNCHANGED <<rows, zone, zviews, acls, reg, want>>
    BY <1>11, <1>p DEF putView, At, sqlite, Req
  <2>2. v \in ACLNames /\ Fresh # None BY <1>3, <1>t, <2>1, FreshFacts DEF WorkerOK
  <2>3. \A a \in ACLNames : views[a] # None => views'[a] # None BY <1>t, <2>1, <2>2 DEF MemoryOK
  <2>4. /\ \A u \in Workers \ {w} : worker'[u] = worker[u]
        /\ worker'[w].req = x.req /\ worker'[w].pc = "apply"
    BY <1>t, <2>1 DEF WorkerOK
  <2> QED BY <1>2, <1>7, <2>1, <2>3, <2>4 DEF EditSteps
<1>12. CASE Apply(w)
  <2>0. x.pc = "apply" /\ UNCHANGED <<zone, zviews, acls, reg, primary, views>> BY <1>12 DEF Apply, At
  <2>1. CASE Reply(w) /\ CutShort({Req(w)}) /\ UNCHANGED <<obj, rows>>
    BY <1>6, <1>7, <2>0, <2>1, CutFacts
  <2>o. PICK o, new : o = x.obj /\ new = (obj[o].data \ e.del) \cup e.add OBVIOUS
  <2>2. CASE /\ rows' = [rows EXCEPT ![obj[o].target] = new]
             /\ want' = [want EXCEPT ![v] = EditWanted(@, e)]
             /\ IF Len(x.req.todo) = 1 THEN Reply(w)
                ELSE worker' = [worker EXCEPT ![w].pc = "record zone",
                                  ![w].req.todo = Tail(@), ![w].obj = None]
    <3>1. o # None /\ o \in Objects /\ obj[o].data \in SUBSET Records /\ new \in SUBSET Records
      <4>1. o # None /\ o \in Objects BY <1>t, <2>0, <2>o DEF WorkerOK
      <4>2. obj[o].data \in SUBSET Records BY <1>t, <4>1 DEF MemoryOK, Zones
      <4> QED BY <1>3, <2>o, <4>1, <4>2
    <3>2. IF v = "public" THEN o = reg ELSE o = views[v] /\ v \in ToSet(acls) /\ v \in ACLNames
      <4>1. IF v = "public" THEN o = reg ELSE o = views[v] /\ v \in ToSet(acls)
        BY <1>3, <1>t, <2>0, <2>o DEF Local
      <4> QED BY <1>3, <4>1, DataFacts
    <3>3. obj[o].target = v
      <4>1. CASE v = "public" BY <1>t, <3>1, <3>2, <4>1 DEF PlaceInv, PublicInv
      <4>2. CASE v # "public" BY <1>t, <3>1, <3>2, <4>2 DEF PlaceInv, ViewsInv
      <4> QED BY <4>1, <4>2
    <3>4. /\ rows'[v] = new /\ \A u \in Views : u # v => rows'[u] = rows[u]
          /\ want'[v] = EditWanted(want[v], e) /\ \A u \in Views : u # v => want'[u] = want[u]
      BY <1>3, <1>t, <2>2, <3>3
    <3>5. /\ \A u \in Workers \ {w} : worker'[u] = worker[u]
          /\ Upset(worker'[w].req) = {} /\ worker'[w].pc \in EditSteps \cup {"idle"}
      <4>1. CASE Reply(w) BY <1>6, <4>1
      <4>2. CASE worker' = [worker EXCEPT ![w].pc = "record zone",
                                  ![w].req.todo = Tail(@), ![w].obj = None]
        <5>1. /\ \A u \in Workers \ {w} : worker'[u] = worker[u]
              /\ worker'[w].pc = "record zone"
              /\ worker'[w].req = [x.req EXCEPT !.todo = Tail(@)]
          BY <1>t, <4>2 DEF WorkerOK
        <5>2. x.req \in Asked BY <1>t DEF WorkerOK
        <5>3. worker'[w].req.op = x.req.op BY <5>1, <5>2, AskedFacts
        <5>4. Upset(worker'[w].req) = {} BY <1>1, <5>3, TouchedFacts
        <5> QED BY <5>1, <5>4 DEF EditSteps
      <4> QED BY <2>2, <4>1, <4>2
    <3>6. /\ \A v1 : (Sure(v1) <=> Known(v1)) /\ (Sure(v1)' <=> Known(v1)')
          /\ LocalWant(w)'
      BY <1>5, <3>5
    <3>w. want[v] \in Data \cup {Unknown} BY <1>3, <1>t
    <3>7. \A v1 \in Views : Known(v1)' <=> Known(v1) BY <1>3, <3>4, <3>w, EditWantedFacts DEF Known
    <3>n. new # NoZone BY <3>1, DataFacts
    <3>8. \A v1 \in Views : Filled(v1) => Filled(v1)' BY <3>4, <3>n DEF Filled
    <3>9. want'["public"] = NoZone => want["public"] = NoZone
      BY <1>3, <1>a, <3>4, <3>w, EditWantedFacts
    <3>10. CASE v = "public"
      <4>1. reg # None /\ obj[reg].data = rows["public"]
        BY <1>0, <1>t, <3>1, <3>2, <3>10 DEF PlaceInv, PublicInv, Loaded
      <4>2. Sure("public")' => PublicKept'
        <5> SUFFICES ASSUME Sure("public")' PROVE PublicKept' OBVIOUS
        <5>1. PublicKept /\ want["public"] # NoZone BY <1>4, <1>a, <3>6, <3>7, <4>1
        <5>2. obj[reg].data = want["public"] BY <4>1, <5>1 DEF PublicKept
        <5>3. want'["public"] = new
          <6>1. o = reg /\ want[v] = obj[o].data BY <3>2, <3>10, <5>2
          <6> QED BY <1>3, <2>o, <3>1, <3>4, <3>10, <3>w, <6>1, EditWantedFacts
        <5>4. rows'["public"] = want'["public"] /\ want'["public"] # NoZone BY <3>10, <3>4, <3>n, <5>3
        <5> QED BY <2>0, <5>1, <5>4 DEF PublicKept
      <4>3. ASSUME NEW a \in ACLNames, Sure(a)' PROVE ViewKept(a)'
        <5>1. rows'[a] = rows[a] /\ want'[a] = want[a] BY <1>a, <3>10, <3>4
        <5>2. ViewKept(a) BY <1>4, <1>a, <3>6, <3>7, <4>3
        <5> QED BY <2>0, <5>1, <5>2 DEF ViewKept, Hosts
      <4> QED BY <1>0, <1>1, <3>5, <3>6, <3>8, <3>9, <4>2, <4>3, UpFrame
    <3>11. CASE v # "public"
      <4>0. v \in ACLNames /\ o = views[v] /\ v \in ToSet(acls) /\ views[v] # None BY <3>1, <3>2, <3>11
      <4>1. reg # None /\ (Known(v) => v \in zviews /\ rows[v] = obj[o].data)
        BY <1>c, <1>t, <4>0 DEF PlaceInv, ViewsInv
      <4>2. Sure("public")' => PublicKept'
        <5> SUFFICES ASSUME Sure("public")' PROVE PublicKept' OBVIOUS
        <5>1. PublicKept /\ want["public"] # NoZone BY <1>4, <1>a, <3>6, <3>7, <4>1
        <5>2. rows'["public"] = rows["public"] /\ want'["public"] = want["public"] BY <1>a, <3>11, <3>4
        <5> QED BY <2>0, <5>1, <5>2 DEF PublicKept
      <4>3. ASSUME NEW a \in ACLNames, Sure(a)' PROVE ViewKept(a)'
        <5>1. ViewKept(a) /\ Known(a) BY <1>4, <1>a, <3>6, <3>7, <4>3
        <5>2. CASE a # v
          <6>1. rows'[a] = rows[a] /\ want'[a] = want[a] BY <1>a, <3>4, <5>2
          <6> QED BY <2>0, <5>1, <6>1 DEF ViewKept, Hosts
        <5>3. CASE a = v
          <6>1. Hosts(obj[o].data) = Hosts(want[v]) /\ want[v] # Unknown
            BY <4>1, <5>1, <5>3 DEF ViewKept, Known
          <6>2. Hosts(new) = Hosts(EditWanted(want[v], e))
            BY <1>3, <2>o, <3>1, <3>w, <6>1, EditWantedFacts
          <6>3. Hosts(rows'[a]) = Hosts(want'[a]) BY <3>4, <5>3, <6>2
          <6>4. a \in zviews' /\ views'[a] # None /\ a \in ToSet(acls') BY <2>0, <4>0, <4>1, <5>1, <5>3
          <6> QED BY <6>3, <6>4 DEF ViewKept, Hosts
        <5> QED BY <5>2, <5>3
      <4> QED BY <1>0, <1>1, <3>5, <3>6, <3>8, <3>9, <4>2, <4>3, UpFrame
    <3> QED BY <3>10, <3>11
  <2> QED BY <1>12, <1>p, <2>1, <2>2, <2>o DEF Apply, Req
<1> QED BY <1>8, <1>9, <1>10, <1>11, <1>12

(* A removal names one ACL.                                                *)
LEMMA DropFacts ==
  ASSUME NEW r \in Asked, r.op = "deleteACL"
  PROVE  r.acl = r.to
<1>1. r \in Requests \/ r = NoRequest \/ r \in Halves BY DEF Asked
<1>2. r \notin Halves /\ r # NoRequest BY DEF Halves, NoRequest, Ask
<1> QED BY <1>1, <1>2 DEF Requests, Ask

(* Deleting an ACL takes its rows before the ACL, renaming moves them      *)
(* after it: in between the view is unsettled, and LocalWant says what is  *)
(* where.                                                                  *)
LEMMA WantAcls ==
  ASSUME WantInv, PlaceInv', NEW w \in Workers, CreateACL(w) \/ DeleteACL(w) \/ RenameACL(w)
  PROVE  WantInv'
<1> DEFINE x == worker[w]
<1>0. RequestOnly /\ start.pc = "up" /\ x.pc \in DropSteps \cup RenameSteps \cup {"insert acl"}
  BY DEF CreateACL, DeleteACL, RenameACL, At, DropSteps, RenameSteps
<1>t. /\ PlaceInv /\ TypeInv /\ StoreOK /\ MemoryOK /\ WorkersOK /\ Local(w) /\ LocalWant(w) /\ WorkerOK(x)
      /\ DOMAIN worker = Workers /\ rows \in [Views -> Data] /\ want \in [Views -> Data \cup {Unknown}]
      /\ views \in [ACLNames -> Objects \cup {None}]
  BY <1>0 DEF WantInv, PlaceInv, TypeInv, WorkersOK, StoreOK, MemoryOK
<1>1. x.req.op \in {"createACL", "deleteACL", "renameACL"} /\ Busy(w)
  BY <1>0, <1>t DEF WorkerOK, Busy, DropSteps, RenameSteps
<1>2. core = <<>> BY <1>1, CoreGone
<1>p. PICK a, b : a = x.req.acl /\ b = x.req.to OBVIOUS
<1>n. a \in ACLNames /\ b \in ACLNames /\ a \in Views /\ b \in Views /\ a # "public" /\ b # "public"
  BY <1>0, <1>p, <1>t, ReqFacts, DataFacts
<1>a. ACLNames \subseteq Views /\ "public" \in Views /\ "public" \notin ACLNames BY DataFacts
<1>3. /\ x.pc = "insert acl" => Upset(x.req) = {}
      /\ x.pc \in DropSteps => Upset(x.req) = {a} /\ FirstStep(x.req) = "delete acl rows"
      /\ x.pc \in RenameSteps => Upset(x.req) = {a, b} /\ FirstStep(x.req) = "rename acl"
  BY <1>p, <1>t, TouchedFacts DEF WorkerOK
<1>4. /\ Sure("public") => PublicKept
      /\ \A c \in ACLNames : Sure(c) => ViewKept(c)
  BY <1>0, UpFacts
<1>5. UNCHANGED <<zone, reg>> BY DEF CreateACL, DeleteACL, RenameACL, memory
(* What the step leaves of the others' views.                              *)
<1>6. ASSUME \A u \in Workers \ {w} : worker'[u] = worker[u],
             \A v \in Views \ {a, b} : rows'[v] = rows[v] /\ want'[v] = want[v],
             \A c \in ACLNames \ {a, b} : /\ c \in zviews => c \in zviews'
                                          /\ c \in ToSet(acls) => c \in ToSet(acls')
                                          /\ views[c] # None => views'[c] # None,
             (\A c \in ACLNames : ~Filled(c)) => \A c \in {a, b} : rows'[c] = NoZone,
             Sure(a)' => ViewKept(a)', Sure(b)' => ViewKept(b)', LocalWant(w)'
      PROVE  WantInv'
  <2>1. \A v : Unsettled(v) => v \in {a, b}
    <3>1. \A v : Unsettled(v) => v \in Upset(x.req) BY <1>1, <1>6, <1>t, OthersCalm
    <3> QED BY <1>0, <1>3, <3>1
  <2>2. ASSUME Sure("public")' PROVE PublicKept'
    <3>1. rows'["public"] = rows["public"] /\ want'["public"] = want["public"] BY <1>6, <1>a, <1>n
    <3>2. Sure("public") BY <1>n, <2>1, <2>2, <3>1 DEF Sure, Known
    <3>3. PublicKept BY <1>4, <3>2
    <3>4. (\A c \in ACLNames : ~Filled(c)) => \A c \in ACLNames : rows'[c] = NoZone
      BY <1>6, <1>a DEF Filled
    <3> QED BY <1>5, <3>1, <3>3, <3>4 DEF PublicKept, Filled
  <2>3. ASSUME NEW c \in ACLNames \ {a, b}, Sure(c)' PROVE ViewKept(c)'
    <3>1. rows'[c] = rows[c] /\ want'[c] = want[c] BY <1>6, <1>a
    <3>2. Sure(c) BY <2>1, <2>3, <3>1 DEF Sure, Known
    <3>3. ViewKept(c) BY <1>4, <3>2
    <3>4. /\ c \in zviews => c \in zviews'
          /\ c \in ToSet(acls) => c \in ToSet(acls')
          /\ views[c] # None => views'[c] # None
      BY <1>6
    <3> QED BY <3>1, <3>3, <3>4 DEF ViewKept, Hosts
  <2>4. \A c \in ACLNames : Sure(c)' => ViewKept(c)' BY <1>6, <2>3
  <2> QED BY <1>0, <1>1, <1>2, <1>6, <2>2, <2>4, UpFrame
<1>g. ASSUME NEW pc, Goto(w, pc)
      PROVE  /\ worker'[w].pc = pc /\ worker'[w].req = x.req /\ worker'[w].drop = x.drop
             /\ worker'[w].req.acl = a /\ worker'[w].req.to = b
             /\ \A u \in Workers \ {w} : worker'[u] = worker[u]
  BY <1>g, <1>p, <1>t DEF Goto, WorkerOK
<1>r. ASSUME Reply(w)
      PROVE  /\ \A u \in Workers \ {w} : worker'[u] = worker[u]
             /\ \A v : ~Unsettled(v)'
             /\ LocalWant(w)'
  <2>1. worker'[w] = Idle /\ \A u \in Workers \ {w} : worker'[u] = worker[u] BY <1>r, <1>t, ReplyOK
  <2>2. \A v : ~Unsettled(v)' BY <1>1, <1>t, <2>1, OthersCalm, IdleTouches
  <2>3. worker'[w].pc = "idle" BY <2>1, IdleTouches
  <2>4. LocalWant(w)' BY <2>3 DEF LocalWant
  <2> QED BY <2>1, <2>2, <2>4
(* Between two of its places the view is unsettled.                        *)
<1>u. ASSUME \A u \in Workers \ {w} : worker'[u] = worker[u], worker'[w].req = x.req,
             worker'[w].pc # FirstStep(x.req), NEW c \in Upset(x.req)
      PROVE  ~Sure(c)'
  <2>1. Unsettled(c)' BY <1>1, <1>t, <1>u, OthersCalm
  <2> QED BY <2>1 DEF Sure
<1>7. CASE CreateACL(w)
  <2>1. /\ x.pc = "insert acl" /\ Reply(w) /\ UNCHANGED <<rows, zviews, views, want>>
        /\ InsertACL(a)
    BY <1>7, <1>p DEF CreateACL, At, memory, Req
  <2>2. ToSet(acls) \subseteq ToSet(acls') BY <1>n, <1>t, <2>1, InsertFacts
  <2>3. \A v : ~Unsettled(v)
    <3>1. \A v : Unsettled(v) => v \in Upset(x.req) BY <1>1, <1>r, <1>t, <2>1, OthersCalm
    <3> QED BY <1>3, <2>1, <3>1
  <2>4. ASSUME NEW c \in ACLNames, Sure(c)' PROVE ViewKept(c)'
    <3>1. Sure(c) BY <2>1, <2>3, <2>4 DEF Sure, Known
    <3>2. ViewKept(c) BY <1>4, <3>1
    <3> QED BY <2>1, <2>2, <3>2 DEF ViewKept, Hosts
  <2>5. (\A c \in ACLNames : ~Filled(c)) => \A c \in {a, b} : rows'[c] = NoZone
    BY <1>n, <2>1 DEF Filled
  <2> QED BY <1>6, <1>n, <1>r, <2>1, <2>2, <2>4, <2>5
<1>8. CASE DeleteACL(w)
  <2>0. b = a
    <3>1. x.req.op = "deleteACL" BY <1>8, <1>t DEF DeleteACL, At, WorkerOK, DropSteps
    <3>2. x.req \in Asked BY <1>t DEF WorkerOK
    <3>3. x.req.acl = x.req.to BY <3>1, <3>2, DropFacts
    <3> QED BY <1>p, <3>3
  <2>1. CASE /\ At(w, "delete acl rows") /\ rows' = [rows EXCEPT ![a] = NoZone]
             /\ worker' = [worker EXCEPT ![w].pc = "delete acl views", ![w].drop = zviews \cap {a}]
             /\ UNCHANGED <<zviews, views, acls, want>>
    <3>1. /\ worker'[w].pc = "delete acl views" /\ worker'[w].req = x.req
          /\ worker'[w].drop = zviews \cap {a} /\ worker'[w].req.acl = a
          /\ \A u \in Workers \ {w} : worker'[u] = worker[u]
      BY <1>p, <1>t, <2>1 DEF WorkerOK
    <3>2. x.pc \in DropSteps BY <2>1 DEF At, DropSteps
    <3>3. ~Sure(a)' BY <1>3, <1>u, <3>1, <3>2
    <3>4. rows'[a] = NoZone /\ \A v \in Views \ {a} : rows'[v] = rows[v] BY <1>n, <1>t, <2>1
    <3>5. LocalWant(w)' BY <3>1 DEF LocalWant
    <3> QED BY <1>6, <2>0, <2>1, <3>1, <3>3, <3>4, <3>5
  <2>2. CASE /\ At(w, "delete acl views") /\ Goto(w, "forget view")
             /\ zviews' = zviews \ {a} /\ UNCHANGED <<rows, views, acls, want>>
    <3>1. x.pc \in DropSteps BY <2>2 DEF At, DropSteps
    <3>2. worker'[w].pc = "forget view" /\ worker'[w].req = x.req
          /\ \A u \in Workers \ {w} : worker'[u] = worker[u]
      BY <1>g, <2>2
    <3>9. a \in Upset(x.req) /\ FirstStep(x.req) # worker'[w].pc BY <1>3, <3>1, <3>2
    <3>3. ~Sure(a)' BY <1>u, <3>2, <3>9
    <3>4. x.drop \subseteq {a} BY <1>p, <1>t, <2>2 DEF At, LocalWant
    <3>5. worker'[w].drop = x.drop /\ worker'[w].req.acl = a BY <1>g, <2>2
    <3>6. LocalWant(w)' BY <3>2, <3>4, <3>5 DEF LocalWant
    <3>7. (\A c \in ACLNames : ~Filled(c)) => rows'[a] = NoZone BY <1>n, <2>2 DEF Filled
    <3> QED BY <1>6, <1>g, <2>0, <2>2, <3>3, <3>6, <3>7
  <2>3. CASE /\ At(w, "forget view") /\ Goto(w, "delete acl")
             /\ views' = [c \in ACLNames |-> IF c \in x.drop THEN None ELSE views[c]]
             /\ UNCHANGED <<rows, zviews, acls, want>>
    <3>1. x.pc \in DropSteps BY <2>3 DEF At, DropSteps
    <3>2. worker'[w].pc = "delete acl" /\ worker'[w].req = x.req
          /\ \A u \in Workers \ {w} : worker'[u] = worker[u]
      BY <1>g, <2>3
    <3>9. a \in Upset(x.req) /\ FirstStep(x.req) # worker'[w].pc BY <1>3, <3>1, <3>2
    <3>3. ~Sure(a)' BY <1>u, <3>2, <3>9
    <3>4. x.drop \subseteq {a} BY <1>p, <1>t, <2>3 DEF At, LocalWant
    <3>5. \A c \in ACLNames \ {a} : views'[c] = views[c] BY <2>3, <3>4
    <3>6. LocalWant(w)' BY <3>2 DEF LocalWant
    <3>7. (\A c \in ACLNames : ~Filled(c)) => rows'[a] = NoZone BY <1>n, <2>3 DEF Filled
    <3> QED BY <1>6, <1>g, <2>0, <2>3, <3>3, <3>5, <3>6, <3>7
  <2>4. CASE /\ At(w, "delete acl") /\ Reply(w)
             /\ acls' = IF a \in ToSet(acls)
                        THEN RemoveAt(acls, CHOOSE i \in DOMAIN acls : acls[i] = a) ELSE acls
             /\ want' = [want EXCEPT ![a] = IF @ = Unknown THEN @ ELSE NoZone]
             /\ UNCHANGED <<rows, zviews, views>>
    <3>1. ToSet(acls') = ToSet(acls) \ {a} BY <1>t, <2>4, DeleteFacts
    <3>2. rows[a] = NoZone BY <1>p, <1>t, <2>4 DEF At, Local
    <3>3. /\ want'[a] = IF want[a] = Unknown THEN Unknown ELSE NoZone
          /\ \A v \in Views \ {a} : want'[v] = want[v]
      BY <1>n, <1>t, <2>4
    <3>4. Sure(a)' => ViewKept(a)'
      <4> SUFFICES ASSUME Sure(a)' PROVE ViewKept(a)' OBVIOUS
      <4>1. want'[a] # Unknown BY DEF Sure, Known
      <4>2. want'[a] = NoZone /\ rows'[a] = NoZone BY <2>4, <3>2, <3>3, <4>1
      <4>3. NoZone \cap Records = {} BY HostFacts DEF Hosts
      <4> QED BY <4>2, <4>3 DEF ViewKept, Hosts
    <3> QED BY <1>6, <1>r, <2>0, <2>4, <3>1, <3>2, <3>3, <3>4
  <2> QED BY <1>8, <1>p, <2>1, <2>2, <2>3, <2>4 DEF DeleteACL, Req
<1>9. CASE RenameACL(w)
  <2>0. x.pc \in RenameSteps /\ x.req.op = "renameACL"
    BY <1>9, <1>t DEF RenameACL, At, RenameSteps, WorkerOK
  <2>f. Upset(x.req) = {a, b} /\ FirstStep(x.req) = "rename acl" BY <1>3, <2>0
  <2>g. Touched(x.req) = {a, b} BY <2>0, <2>f DEF Upset
  <2>z. (\A c \in ACLNames : ~Filled(c)) => rows[a] = NoZone /\ rows[b] = NoZone BY <1>n DEF Filled
  <2>u. ASSUME NEW pc \in RenameSteps \ {"rename acl"}, Goto(w, pc)
        PROVE  ~Sure(a)' /\ ~Sure(b)' /\ \A u \in Workers \ {w} : worker'[u] = worker[u]
    BY <1>g, <1>u, <2>f, <2>u
  <2>1. CASE /\ At(w, "rename acl") /\ Reply(w) /\ UNCHANGED <<acls, zviews, rows, views, want>>
    <3>1. \A v : ~Unsettled(v) BY <1>1, <1>r, <1>t, <2>1, <2>f, OthersCalm DEF At
    <3>2. ASSUME NEW c \in ACLNames, Sure(c)' PROVE ViewKept(c)'
      <4>1. Sure(c) BY <2>1, <3>1, <3>2 DEF Sure, Known
      <4>2. ViewKept(c) BY <1>4, <4>1
      <4> QED BY <2>1, <4>2 DEF ViewKept, Hosts
    <3> QED BY <1>6, <1>n, <1>r, <2>1, <2>z, <3>2
  <2>2. CASE /\ At(w, "rename acl") /\ b \notin ToSet(acls) /\ Goto(w, "rename view rows")
             /\ acls' = [i \in DOMAIN acls |-> IF acls[i] = a THEN b ELSE acls[i]]
             /\ UNCHANGED <<zviews, rows, views, want>>
    <3>0. ToSet(acls') = IF a \in ToSet(acls) THEN (ToSet(acls) \ {a}) \cup {b} ELSE ToSet(acls)
      BY <1>n, <1>t, <2>2, RenamedFacts
    <3>1. \A c \in ACLNames \ {a, b} : c \in ToSet(acls) => c \in ToSet(acls')
      BY <3>0
    <3>2. ~Sure(a)' /\ ~Sure(b)' BY <2>2, <2>u DEF RenameSteps
    <3>3. \A v : ~Unsettled(v) BY <1>1, <1>g, <1>t, <2>2, <2>f, OthersCalm DEF At
    <3>4. /\ Known(a) => ViewKept(a)
          /\ Known(b) => ViewKept(b)
      BY <1>4, <1>n, <3>3 DEF Sure
    <3>5. LocalWant(w)'
      <4>1. worker'[w].pc = "rename view rows" /\ worker'[w].req.acl = a /\ worker'[w].req.to = b
        BY <1>g, <2>2
      <4>2. want'[b] # Unknown => Hosts(rows'[b]) = {} BY <2>2, <3>4 DEF ViewKept, Known
      <4>3. want'[a] # Unknown => /\ Hosts(rows'[a]) = Hosts(want'[a])
                                  /\ Hosts(want'[a]) # {} => a \in zviews' /\ views'[a] # None
        BY <2>2, <3>4 DEF ViewKept, Known
      <4> QED BY <4>1, <4>2, <4>3 DEF LocalWant, Known, Hosts
    <3> QED BY <1>6, <1>g, <2>2, <2>z, <3>1, <3>2, <3>5
  <2>3. CASE /\ At(w, "rename view rows") /\ Goto(w, "rename rows")
             /\ zviews' = IF a \in zviews THEN (zviews \ {a}) \cup {b} ELSE zviews
             /\ UNCHANGED <<acls, rows, views, want>>
    <3>1. ~Sure(a)' /\ ~Sure(b)' BY <2>3, <2>u DEF RenameSteps
    <3>2. /\ want[b] # Unknown => Hosts(rows[b]) = {}
          /\ want[a] # Unknown => Hosts(rows[a]) = Hosts(want[a])
          /\ want[a] # Unknown /\ Hosts(want[a]) # {} => a \in zviews /\ views[a] # None
      BY <1>p, <1>t, <2>3 DEF At, LocalWant, Known
    <3>3. LocalWant(w)'
      <4>1. worker'[w].pc = "rename rows" /\ worker'[w].req.acl = a /\ worker'[w].req.to = b
        BY <1>g, <2>3
      <4> QED BY <2>3, <3>2, <4>1 DEF LocalWant, Known, Hosts
    <3> QED BY <1>6, <1>g, <2>3, <2>z, <3>1, <3>3
  <2>4. CASE /\ At(w, "rename rows") /\ (rows[a] = NoZone \/ rows[b] = NoZone) /\ Goto(w, "rename views")
             /\ rows' = IF rows[a] = NoZone THEN rows ELSE [rows EXCEPT ![a] = NoZone, ![b] = rows[a]]
             /\ UNCHANGED <<acls, zviews, views, want>>
    <3>0. a # b BY <1>p, <1>t, <2>4 DEF At, Local
    <3>1. ~Sure(a)' /\ ~Sure(b)' BY <2>4, <2>u DEF RenameSteps
    <3>2. /\ want[b] # Unknown => Hosts(rows[b]) = {}
          /\ want[a] # Unknown => Hosts(rows[a]) = Hosts(want[a])
          /\ want[a] # Unknown /\ Hosts(want[a]) # {} => b \in zviews /\ views[a] # None
      BY <1>p, <1>t, <2>4 DEF At, LocalWant, Known
    <3>3. /\ rows'[a] = NoZone /\ \A v \in Views \ {a, b} : rows'[v] = rows[v]
          /\ rows'[b] = IF rows[a] = NoZone THEN rows[b] ELSE rows[a]
      BY <1>n, <1>t, <2>4, <3>0
    <3>4. want[a] # Unknown /\ want[b] # Unknown => Hosts(rows'[b]) = Hosts(want[a])
      BY <3>2, <3>3, HostFacts
    <3>5. LocalWant(w)'
      <4>1. worker'[w].pc = "rename views" /\ worker'[w].req.acl = a /\ worker'[w].req.to = b
        BY <1>g, <2>4
      <4> QED BY <2>4, <3>2, <3>3, <3>4, <4>1 DEF LocalWant, Known, Hosts
    <3> QED BY <1>6, <1>g, <2>4, <2>z, <3>1, <3>3, <3>5
  <2>7. CASE /\ At(w, "rename rows") /\ NoZone \notin {rows[a], rows[b]} /\ Goto(w, "rename views")
             /\ rows' = [rows EXCEPT ![a] = NoZone, ![b] = rows[a] \cup rows[b]]
             /\ CutShort({Req(w)}) /\ UNCHANGED <<acls, zviews, views>>
    <3>0. a # b BY <1>p, <1>t, <2>7 DEF At, Local
    <3>1. ~Sure(a)' /\ ~Sure(b)' BY <2>7, <2>u DEF RenameSteps
    <3>2. \A v \in Views : want'[v] = IF v \in {a, b} THEN Unknown ELSE want[v]
      BY <2>7, <2>g DEF CutShort, Req
    <3>3. rows'[a] = NoZone /\ \A v \in Views \ {a, b} : rows'[v] = rows[v]
      BY <1>n, <1>t, <2>7, <3>0
    <3>5. LocalWant(w)'
      <4>1. worker'[w].pc = "rename views" /\ worker'[w].req.acl = a /\ worker'[w].req.to = b
        BY <1>g, <2>7
      <4>2. want'[a] = Unknown /\ want'[b] = Unknown BY <1>n, <3>2
      <4> QED BY <3>3, <4>1, <4>2 DEF LocalWant, Known
    <3> QED BY <1>6, <1>g, <2>7, <2>z, <3>1, <3>2, <3>3, <3>5
  <2>5. CASE Reply(w) /\ CutShort({Req(w)}) /\ UNCHANGED <<acls, zviews, rows, views>>
    <3>1. \A v \in Views : want'[v] = IF v \in {a, b} THEN Unknown ELSE want[v]
      BY <2>5, <2>g DEF CutShort, Req
    <3>2. ~Sure(a)' /\ ~Sure(b)' BY <1>n, <3>1 DEF Sure, Known
    <3> QED BY <1>6, <1>r, <2>5, <2>z, <3>1, <3>2
  <2>6. CASE /\ At(w, "rename views") /\ Reply(w) /\ renameViews(a, b) /\ UNCHANGED <<acls, rows>>
             /\ want' = [want EXCEPT ![a] = NoZone, ![b] = IF @ = Unknown THEN @ ELSE want[a]]
    <3>0. a # b /\ b \in ToSet(acls) BY <1>p, <1>t, <2>6 DEF At, Local
    <3>1. /\ rows[a] = NoZone
          /\ want[a] # Unknown /\ want[b] # Unknown => Hosts(rows[b]) = Hosts(want[a])
          /\ want[a] # Unknown /\ Hosts(want[a]) # {} => b \in zviews /\ views[a] # None
      BY <1>p, <1>t, <2>6 DEF At, LocalWant, Known
    <3>2. /\ want'[a] = NoZone /\ want'[b] = (IF want[b] = Unknown THEN Unknown ELSE want[a])
          /\ \A v \in Views \ {a, b} : want'[v] = want[v]
      BY <1>n, <1>t, <2>6, <3>0
    <3>3. /\ zviews \subseteq zviews' /\ \A c \in ACLNames \ {a, b} : views'[c] = views[c]
          /\ views[a] # None => views'[b] = views[a]
      BY <1>n, <1>t, <2>6, <3>0 DEF renameViews
    <3>4. ViewKept(a)'
      <4>1. NoZone \cap Records = {} BY HostFacts DEF Hosts
      <4> QED BY <2>6, <3>1, <3>2, <4>1 DEF ViewKept, Hosts
    <3>5. Sure(b)' => ViewKept(b)'
      <4> SUFFICES ASSUME Sure(b)' PROVE ViewKept(b)' OBVIOUS
      <4>1. want'[b] # Unknown BY DEF Sure, Known
      <4>2. want'[b] = want[a] /\ want[a] # Unknown /\ want[b] # Unknown BY <3>2, <4>1
      <4>3. Hosts(rows'[b]) = Hosts(want'[b]) BY <2>6, <3>1, <4>2
      <4>4. Hosts(want'[b]) # {} => b \in zviews' /\ views'[b] # None /\ b \in ToSet(acls')
        BY <2>6, <3>0, <3>1, <3>3, <4>2
      <4> QED BY <4>3, <4>4 DEF ViewKept, Hosts
    <3> QED BY <1>6, <1>r, <2>6, <2>z, <3>2, <3>3, <3>4, <3>5
  <2> QED BY <1>9, <1>p, <2>1, <2>2, <2>3, <2>4, <2>5, <2>6, <2>7 DEF RenameACL, Req
<1> QED BY <1>7, <1>8, <1>9


(* A step that changes none of the places, and settles no view.            *)
LEMMA SameWant ==
  ASSUME WantInv, PlaceInv', UNCHANGED <<cfg, core, rows, zone, zviews, acls, reg, views, start, want>>,
         \A v : Unsettled(v)' <=> Unsettled(v), \A w \in Workers : LocalWant(w)'
  PROVE  WantInv'
<1>1. \A v : Sure(v)' <=> Sure(v) BY DEF Sure, Known
<1>2. \A v : Due(v)' <=> Due(v) BY DEF Due, Ahead
<1>3. \A v : Filled(v)' <=> Filled(v) BY DEF Filled
<1>4. CoreInv'
  <2>1. CoreInv BY DEF WantInv
  <2> QED BY <2>1 DEF CoreInv, Filled
<1>5. WantPublic'
  <2>1. WantPublic /\ (Loaded' <=> Loaded) BY DEF WantInv, Loaded
  <2> QED BY <1>1, <1>2, <1>3, <2>1 DEF WantPublic
<1>6. WantViews'
  <2>1. WantViews BY DEF WantInv
  <2> QED BY <1>1, <1>2, <1>3, <2>1 DEF WantViews, Hosts
<1> QED BY <1>4, <1>5, <1>6 DEF WantInv

(* A request that has not begun changes nothing.                           *)
LEMMA WantRequest ==
  ASSUME WantInv, PlaceInv', NEW w \in Workers, NEW r \in Requests, Request(w, r)
  PROVE  WantInv'
<1>1. /\ worker[w] = Idle /\ DOMAIN worker = Workers
      /\ UNCHANGED <<cfg, core, rows, zone, zviews, acls, reg, views, start, want>>
  BY DEF Request, At, WantInv, PlaceInv, TypeInv, WorkersOK, WorkerOK, sqlite, memory
<1>2. /\ worker'[w].pc = FirstStep(r) /\ worker'[w].req = r
      /\ \A u \in Workers \ {w} : worker'[u] = worker[u]
  BY <1>1 DEF Request, Idle
<1>3. \A v : Unsettled(v)' <=> Unsettled(v)
  <2>1. \A v : v \notin Upset(worker[w].req) BY <1>1, IdleTouches
  <2>2. worker'[w].pc = FirstStep(worker'[w].req) BY <1>2
  <2> QED BY <1>2, <2>1, <2>2 DEF Unsettled
<1>4. ASSUME NEW u \in Workers PROVE LocalWant(u)'
  <2>1. CASE u = w
    <3>1. worker'[u].pc \in {"write rows", "delete primary", "insert acl", "delete acl rows", "rename acl",
                             "record zone"}
      BY <1>2, <2>1 DEF FirstStep
    <3> QED BY <3>1 DEF LocalWant
  <2>2. CASE u # w
    <3>1. worker'[u].pc \in {"idle", "record zone", "apply"}
      <4>1. worker'[w].pc # "idle" BY <1>2 DEF FirstStep
      <4>2. CASE Tame(cfg)
        <5>1. Tame(cfg)' BY <1>1, <4>2
        <5> QED BY <5>1 DEF PlaceInv, TameInv
      <4>3. CASE Alone(cfg)
        <5>1. Alone(cfg)' /\ Crew' BY <1>1, <4>3 DEF PlaceInv
        <5> QED BY <2>2, <4>1, <5>1 DEF Crew, Busy, Alone
      <4> QED BY <4>2, <4>3 DEF WantInv, PlaceInv, Orderly
    <3> QED BY <3>1 DEF LocalWant
  <2> QED BY <2>1, <2>2
<1> QED BY <1>1, <1>3, <1>4, SameWant

(* Every step keeps WantInv.                                               *)
LEMMA WantStep == WantInv /\ [Next]_vars => WantInv'
<1> SUFFICES ASSUME WantInv, [Next]_vars PROVE WantInv' OBVIOUS
<1>t. PlaceInv' BY PlaceStep DEF WantInv
<1>1. CASE StartStep
  BY <1>1, <1>t, WantRegister, WantImports, WantAclsImport, WantPrepare, WantLoad DEF StartStep
<1>2. CASE Crash BY <1>2, <1>t, WantCrash
<1>3. ASSUME NEW w \in Workers, RequestStep(w) PROVE WantInv'
  BY <1>3, <1>t, WantCreate, WantDelete, WantEdit, WantAcls DEF RequestStep
<1>4. ASSUME NEW w \in Workers, NEW r \in Requests, Request(w, r) PROVE WantInv'
  BY <1>4, <1>t, WantRequest
<1>5. CASE UNCHANGED vars
  <2>1. UNCHANGED <<cfg, core, rows, zone, zviews, acls, reg, views, start, worker, want>>
    BY <1>5 DEF vars, sqlite, memory
  <2>2. \A v : Unsettled(v)' <=> Unsettled(v) BY <2>1 DEF Unsettled
  <2>3. ASSUME NEW w \in Workers PROVE LocalWant(w)'
    <3>1. LocalWant(w) BY DEF WantInv
    <3> QED BY <2>1, <3>1 DEF LocalWant, Known, Hosts
  <2> QED BY <1>t, <2>1, <2>2, <2>3, SameWant
<1> QED BY <1>1, <1>2, <1>3, <1>4, <1>5 DEF Next

(* Whenever no request is under way, the zones in memory hold what was     *)
(* acknowledged, host by host.                                             *)
LEMMA QuietFacts ==
  ASSUME WantInv, Quiet, Known("public")
  PROVE  /\ want["public"] = NoZone => primary = None /\ \A a \in ACLNames : views[a] = None
         /\ want["public"] # NoZone => primary # None /\ obj[primary].data = want["public"]
         /\ \A a \in ACLNames : Known(a) =>
              /\ views[a] = None => Hosts(want[a]) = {}
              /\ views[a] # None => views[a] # primary /\ obj[views[a]].data = Hosts(want[a])
<1>1. PlaceInv /\ TypeInv /\ MemoryOK /\ start.pc = "up" BY DEF WantInv, PlaceInv, TypeInv, Quiet
<1>2. \A v : ~Unsettled(v)
  <2>1. ASSUME NEW w \in Workers PROVE Upset(worker[w].req) = {}
    <3>1. worker[w].pc = "idle" /\ WorkerOK(worker[w]) BY <1>1 DEF Quiet, TypeInv, WorkersOK
    <3>2. worker[w] = Idle BY <3>1 DEF WorkerOK
    <3> QED BY <3>2, IdleTouches
  <2> QED BY <2>1 DEF Unsettled
<1>3. PublicKept BY <1>1, <1>2, UpFacts DEF Sure
<1>4. \A a \in ACLNames : Known(a) => ViewKept(a) BY <1>1, <1>2, UpFacts DEF Sure
<1>5. ViewHasZone /\ EditsPersist BY <1>1, PlaceQuiet
<1>6. primary = reg /\ (reg # None => Filled("public") /\ obj[reg].data = rows["public"])
  BY <1>1, <1>5, UpFacts DEF EditsPersist
<1>7. want["public"] = NoZone => primary = None /\ \A a \in ACLNames : views[a] = None
  BY <1>3, <1>5, <1>6 DEF PublicKept, Filled, ViewHasZone
<1>8. want["public"] # NoZone => primary # None /\ obj[primary].data = want["public"]
  BY <1>3, <1>6 DEF PublicKept
<1>9. ASSUME NEW a \in ACLNames, Known(a)
      PROVE  /\ views[a] = None => Hosts(want[a]) = {}
             /\ views[a] # None => views[a] # primary /\ obj[views[a]].data = Hosts(want[a])
  <2>1. ViewKept(a) BY <1>4, <1>9
  <2>2. ASSUME views[a] # None PROVE views[a] # primary /\ obj[views[a]].data = Hosts(want[a])
    <3>1. views[a] # reg BY <1>1, <2>2 DEF PlaceInv, ViewsInv
    <3>2. rows[a] = obj[views[a]].data BY <1>5, <1>9, <2>2 DEF EditsPersist, Known
    <3>3. obj[views[a]] \in Zones BY <1>1, <2>2 DEF MemoryOK
    <3>4. rows[a] \in SUBSET Records BY <3>2, <3>3 DEF Zones
    <3>5. Hosts(rows[a]) = rows[a] BY <3>4, HostFacts
    <3> QED BY <1>6, <2>1, <3>1, <3>2, <3>5 DEF ViewKept
  <2> QED BY <2>1, <2>2 DEF ViewKept
<1> QED BY <1>7, <1>8, <1>9

(* What is answered is then what was promised: one case per place the      *)
(* owner of the answer can be in.                                          *)
LEMMA WantQuiet == WantInv => AnswersAsAcked
<1> SUFFICES ASSUME WantInv, Quiet, NEW c \in Clients, NEW q \in Queries, Known("public"),
                    c = "lan" /\ acls # <<>> => Known(Head(acls))
             PROVE  Answer(c, q) = Promised(c, q)
  BY DEF AnswersAsAcked, Known
<1> DEFINE m == IF c = "lan" /\ acls # <<>> THEN Head(acls) ELSE "public"
           v == matchingView(c)
           Has(r) == r \in want[m] \cup want["public"]
<1>p. PICK p : p = primary OBVIOUS
<1>q. q \in {"www", "mail"} /\ q # "*" BY DEF Queries
<1>n. "no zone" \notin {"www", "mail", "*"} OBVIOUS
(* A view that is not served holds no hosts; one that is holds its own.    *)
<1>1. /\ want["public"] = NoZone => p = None /\ v = None
      /\ want["public"] # NoZone => p # None /\ obj[p].data = want["public"]
  <2>1. c = "lan" /\ acls # <<>> => Head(acls) \in ACLNames
    BY DEF WantInv, PlaceInv, TypeInv, StoreOK
  <2> QED BY <1>p, <2>1, QuietFacts DEF matchingView
<1>3. CASE want["public"] = NoZone
  <2>1. primary = None /\ matchingView(c) = None BY <1>1, <1>3, <1>p
  <2>2. pickServe(c, q) = None BY <2>1 DEF pickServe
  <2>3. Answer(c, q) = <<"not ours">> BY <2>2 DEF Answer
  <2> QED BY <1>3, <2>3 DEF Promised
<1>2. CASE c = "lan" /\ acls # <<>>
  <2>1. m \in ACLNames /\ m = Head(acls) /\ v = views[m] /\ Known(m)
    BY <1>2 DEF WantInv, PlaceInv, TypeInv, StoreOK, matchingView
  <2>2. /\ v = None => Hosts(want[m]) = {}
        /\ v # None => v # p /\ obj[v].data = Hosts(want[m])
    BY <1>p, <2>1, QuietFacts
  <2>m. want[m] \in Data BY <2>1, DataFacts DEF WantInv, PlaceInv, TypeInv, StoreOK, Known
  <2>3. ASSUME NEW r \in {"www", "mail", "*"}
        PROVE  r \in want[m] <=> v # None /\ r \in obj[v].data
    <3>1. r \in want[m] <=> r \in Hosts(want[m])
      BY <1>n, <2>m DEF Hosts, Data, Records, NoZone
    <3> QED BY <2>2, <3>1
  <2>4. CASE want["public"] # NoZone
    <3> DEFINE P(r) == r \in obj[p].data
               V(r) == v # None /\ r \in obj[v].data
    <3>1. \A r \in {"www", "mail", "*"} : (r \in want[m] <=> V(r)) /\ (r \in want["public"] <=> P(r))
      BY <1>1, <2>3, <2>4
    <3>p. /\ p # None /\ (v # None => v # p)
          /\ pickServe(c, q) = IF V(q) THEN v ELSE IF P(q) THEN p ELSE IF V("*") THEN v ELSE p
      BY <1>1, <1>p, <2>2, <2>4 DEF pickServe, Answers, HasCoveringWildcard
    <3>2. CASE V(q)
      <4>1. Answer(c, q) = <<m, q>> BY <1>p, <2>1, <3>2, <3>p DEF Answer, Answers
      <4>2. Has(q) /\ q \in want[m] BY <1>q, <3>1, <3>2
      <4> QED BY <2>4, <4>1, <4>2 DEF Promised
    <3>3. CASE ~V(q) /\ P(q)
      <4>1. Answer(c, q) = <<"public", q>> BY <1>p, <3>3, <3>p DEF Answer, Answers
      <4>2. Has(q) /\ q \notin want[m] BY <1>q, <3>1, <3>3
      <4> QED BY <2>4, <4>1, <4>2 DEF Promised
    <3>4. CASE ~V(q) /\ ~P(q)
      <4>0. ~Has(q) BY <1>q, <3>1, <3>4
      <4>1. CASE V("*")
        <5>1. Answer(c, q) = <<m, "*">>
          BY <1>p, <2>1, <3>4, <3>p, <4>1 DEF Answer, Answers, HasCoveringWildcard
        <5>2. Has("*") /\ "*" \in want[m] BY <3>1, <4>1
        <5> QED BY <2>4, <4>0, <5>1, <5>2 DEF Promised
      <4>2. CASE ~V("*") /\ P("*")
        <5>1. Answer(c, q) = <<"public", "*">>
          BY <1>p, <3>4, <3>p, <4>2 DEF Answer, Answers, HasCoveringWildcard
        <5>2. Has("*") /\ "*" \notin want[m] BY <3>1, <4>2
        <5> QED BY <2>4, <4>0, <5>1, <5>2 DEF Promised
      <4>3. CASE ~V("*") /\ ~P("*")
        <5>1. Answer(c, q) = <<"no such name">>
          BY <1>p, <3>4, <3>p, <4>3 DEF Answer, Answers, HasCoveringWildcard
        <5>2. ~Has("*") BY <3>1, <4>3
        <5> QED BY <2>4, <4>0, <5>1, <5>2 DEF Promised
      <4> QED BY <4>1, <4>2, <4>3
    <3> QED BY <3>2, <3>3, <3>4
  <2> QED BY <1>3, <2>4
<1>4. CASE ~(c = "lan" /\ acls # <<>>) /\ want["public"] # NoZone
  <2>1. /\ v = None /\ m = "public" /\ p # None /\ obj[p].data = want["public"] /\ pickServe(c, q) = p
    BY <1>1, <1>4, <1>p DEF matchingView, pickServe
  <2>2. /\ Has(q) <=> q \in obj[p].data
        /\ Has("*") <=> "*" \in obj[p].data
    BY <2>1
  <2>3. CASE q \in obj[p].data
    <3>1. Answer(c, q) = <<"public", q>> BY <1>p, <2>1, <2>3 DEF Answer, Answers
    <3> QED BY <1>4, <2>1, <2>2, <2>3, <3>1 DEF Promised
  <2>4. CASE q \notin obj[p].data /\ "*" \in obj[p].data
    <3>1. Answer(c, q) = <<"public", "*">>
      BY <1>p, <2>1, <2>4 DEF Answer, Answers, HasCoveringWildcard
    <3> QED BY <1>4, <2>1, <2>2, <2>4, <3>1 DEF Promised
  <2>5. CASE q \notin obj[p].data /\ "*" \notin obj[p].data
    <3>1. Answer(c, q) = <<"no such name">>
      BY <1>p, <2>1, <2>5 DEF Answer, Answers, HasCoveringWildcard
    <3> QED BY <1>4, <2>1, <2>2, <2>5, <3>1 DEF Promised
  <2> QED BY <2>3, <2>4, <2>5
<1> QED BY <1>2, <1>3, <1>4

(* Where, besides, the Corefile has one block for every view, the public   *)
(* zone's before the others, and may be read-only only if requests just    *)
(* edit records, every client is answered from what was acknowledged or    *)
(* imported and from nothing else: whatever was created, edited, moved,    *)
(* renamed or deleted before and wherever the process died in between      *)
(* (pickServe over what importZonefileRef, loadPersistedZones, Apply,      *)
(* handleDeleteACL and renameViews leave in SQLite and in memory).         *)
THEOREM Acknowledged ==
  ASSUME \A c \in Configs : Faithful(c)
  PROVE  Spec => []AnswersAsAcked
<1>1. Init => WantInv BY WantInit
<1> QED BY <1>1, WantStep, WantQuiet, PTL DEF Spec
=============================================================================
