---------------------------- MODULE ZoneManager ----------------------------
(***************************************************************************)
(* How one origin and its ACL views are created, edited, renamed, deleted, *)
(* imported from the Corefile and loaded again by a primary                *)
(* (admin/manager.go, zones.go, records.go, views.go, acls.go, import.go,  *)
(* internal/zonereg), and which zone answers a client.                     *)
(*                                                                         *)
(* The zone lives in three places: rows of several SQLite tables, the      *)
(* registry that edits go through, and the maps that queries go through.   *)
(* Every statement on SQLite and every critical section is a step, and the *)
(* process can die between any two.  A zone is the set of its records      *)
(* below the apex; rows that are there at all include the SOA and the name *)
(* servers.  Generation and cache epoch are bumped at the end of a request *)
(* (ClusterSync, SplitHorizonCache), Apply is ZoneUpdate's.                *)
(***************************************************************************)
EXTENDS Naturals, Sequences, FiniteSets, SequencesExt

CONSTANTS
    ACLNames,
    Workers,      \* HTTP requests that may run at once
    Configs,      \* what a run may start from: see TypeOK
    MaxRequests,  \* bound: requests of a behaviour
    MaxCrashes    \* bound: crashes of a behaviour

Records == {"www", "*"}       \* a host and the wildcard beside it
Views   == {"public"} \cup ACLNames
NoZone  == {"no zone"}        \* no rows; a zone file that cannot be read
Unknown == {"unknown"}        \* history: a request was cut short
Data    == (SUBSET Records) \cup {NoZone}

Adding(v, r)   == [view |-> v, add |-> {r}, del |-> {}]
Removing(v, r) == [view |-> v, add |-> {}, del |-> {r}]
Replacing(v, r, s) == [view |-> v, add |-> {r}, del |-> {s}]
Ask(op, a, b, edits) == [op |-> op, acl |-> a, to |-> b, todo |-> edits]
NoRequest == Ask("none", "public", "public", <<>>)
Requests ==
    LET R(op, a, b) == Ask(op, a, b, <<>>)
        E(op, s)    == Ask(op, "public", "public", s)
    IN  {R("create", "public", "public"), R("delete", "public", "public")}
        \cup {R(op, a, a) : op \in {"createACL", "deleteACL"}, a \in ACLNames}
        \cup {R("renameACL", a, b) : a \in ACLNames, b \in ACLNames}
        \cup {E("edit", <<Adding(v, r)>>) : v \in Views, r \in Records}
        \cup {E("edit", <<Removing(v, r)>>) : v \in Views, r \in Records}
        \cup {E("edit", <<Replacing(v, r, s)>>) : v \in Views, r \in Records, s \in Records}
        \cup {m \in {Ask("move", v, u, <<Removing(v, r), Adding(u, r)>>) :
                        v \in Views, u \in Views, r \in Records} : m.acl # m.to}

(* What extractZonefileRefs finds: a server block that names a zone file.  *)
Block == [view : Views, plugin : {"file", "dns-update-persistent"}, file : Data]

ASSUME ManagerAssumption ==
    /\ IsFiniteSet(ACLNames) /\ "public" \notin ACLNames /\ IsFiniteSet(Workers)
    /\ MaxRequests \in Nat /\ MaxCrashes \in Nat
    /\ Configs \subseteq [core : Seq(Block), ops : SUBSET {r.op : r \in Requests},
                           workers : SUBSET Workers, readonly : BOOLEAN]
    /\ \A c \in Configs : \A i \in DOMAIN c.core :
         c.core[i].plugin = "dns-update-persistent" => c.core[i].file # NoZone

Objects == 1 .. 3 + Cardinality(ACLNames) + Cardinality(Workers)
None    == 0

VARIABLES
    cfg,       \* the configuration chosen
    core,      \* the Corefile's blocks that name zone files
    rows,      \* SQLite: the records of each view
    zone,      \* SQLite: is there a row for the origin?
    zviews,    \* SQLite: zone_views
    acls,      \* SQLite: the ACLs, in the order of their positions
    obj,       \* the zones in memory: records, persist target, source
    reg,       \* zonereg's entry for the origin
    primary,   \* a.primaries[origin]
    views,     \* a.views[origin]
    start,     \* the start-up: what comes next, and for which block
    worker,    \* the requests under way
    want,      \* history: what the acknowledged requests add up to
    requests,  \* how many requests there were, for the bound
    crashes    \* and how many crashes

memory == <<obj, reg, primary, views>>
sqlite == <<rows, zone, zviews, acls>>
bounds == <<requests, crashes>>
vars   == <<cfg, core, sqlite, memory, start, worker, want, bounds>>

NoObject == [data |-> {}, target |-> "public", source |-> "admin"]
Idle     == [pc |-> "idle", req |-> NoRequest, obj |-> None, seed |-> {},
             drop |-> {}]

(* The variables keep their types: no zone is put into memory without      *)
(* rows, and an ACL has one position.                                      *)
TypeOK ==
    /\ cfg \in Configs /\ cfg.core \in Seq(Block) /\ cfg.readonly \in BOOLEAN
    /\ cfg.workers \subseteq Workers /\ cfg.ops \subseteq {r.op : r \in Requests}
    /\ core \in {<<>>, cfg.core}
    /\ rows \in [Views -> Data] /\ zone \in BOOLEAN
    /\ zviews \subseteq ACLNames
    /\ ToSet(acls) \subseteq ACLNames /\ IsInjective(acls)
    /\ obj \in [Objects -> [data : SUBSET Records, target : Views,
                            source : {"admin", "corefile"}]]
    /\ reg \in Objects \cup {None} /\ primary \in Objects \cup {None}
    /\ views \in [ACLNames -> Objects \cup {None}]
    /\ start.block \in 1 .. Len(cfg.core) + 1
    /\ \A w \in Workers : /\ \/ worker[w].req \in Requests \cup {NoRequest}
                             \/ worker[w].req.op = "move" /\ Len(worker[w].req.todo) = 1
                          /\ worker[w].obj \in Objects \cup {None}
                          /\ worker[w].seed \in SUBSET Records
                          /\ worker[w].drop \subseteq ACLNames
    /\ want \in [Views -> Data \cup {Unknown}]
    /\ requests \in 0 .. MaxRequests /\ crashes \in 0 .. MaxCrashes

(* The contents a Corefile promises: its files, and at least a stub of the *)
(* public zone where there is a view.                                      *)
FileOf(blocks, v) ==
    LET of == {i \in DOMAIN blocks : blocks[i].view = v}
    IN  IF of = {} THEN NoZone ELSE blocks[Min(of)].file

Init ==
    /\ cfg \in Configs /\ core = cfg.core
    /\ rows = [v \in Views |-> NoZone] /\ zone = FALSE
    /\ zviews = {} /\ acls = <<>>
    /\ obj = [o \in Objects |-> NoObject]
    /\ reg = None /\ primary = None /\ views = [a \in ACLNames |-> None]
    /\ start = [pc |-> "register", block |-> 1]
    /\ worker = [w \in Workers |-> Idle]
    /\ want = [v \in Views |->
                 IF v = "public" /\ FileOf(core, v) = NoZone
                    /\ \E a \in ACLNames : FileOf(core, a) # NoZone
                 THEN {} ELSE FileOf(core, v)]
    /\ requests = 0 /\ crashes = 0

(* The zones that something points to; the others are collected.           *)
Referenced == {reg, primary} \cup {views[a] : a \in ACLNames}
                             \cup {worker[w].obj : w \in Workers}

Fresh == CHOOSE o \in Objects : o \notin Referenced

NewObject(data, v, src) ==
    obj' = [obj EXCEPT ![Fresh] = [data |-> data, target |-> v, source |-> src]]

----------------------------------------------------------------------------
(* Start-up.                                                               *)

Starting(pc) == start.pc = pc
Then(pc)     == start' = [start EXCEPT !.pc = pc]
NextBlock    == start' = [pc |-> "import", block |-> start.block + 1]
Ref          == core[start.block]
StartOnly    == UNCHANGED <<cfg, worker, want, bounds>>

(* The start-up callbacks of dns-update-persistent run before admin's.     *)
RegisterCorefile ==
    /\ Starting("register") /\ Then("import")
    /\ LET dynamic == {i \in DOMAIN core : core[i].plugin = "dns-update-persistent"} IN
         \/ dynamic = {} /\ UNCHANGED memory
         \/ \E i \in dynamic :
              /\ \A j \in dynamic : i <= j
              /\ NewObject(core[i].file, "public", "corefile") /\ reg' = Fresh
              /\ UNCHANGED <<primary, views>>
    /\ UNCHANGED <<core, sqlite>> /\ StartOnly

(* importZonefileRef: rows that are there already are kept, a file that    *)
(* cannot be read is passed over.                                          *)
ImportRecords ==
    /\ Starting("import") /\ start.block <= Len(core)
    /\ \/ /\ rows[Ref.view] # NoZone
          /\ Then(IF Ref.view = "public" THEN "import zone" ELSE "import view row")
          /\ UNCHANGED rows
       \/ /\ rows[Ref.view] = NoZone /\ Ref.file = NoZone
          /\ NextBlock /\ UNCHANGED rows
       \/ /\ rows[Ref.view] = NoZone /\ Ref.file # NoZone
          /\ rows' = [rows EXCEPT ![Ref.view] = Ref.file]
          /\ Then("import new zone")
    /\ UNCHANGED <<core, zone, zviews, acls, memory>> /\ StartOnly

ImportViewRow ==
    /\ \/ Starting("import view row") /\ Then("import zone")
       \/ Starting("import new view") /\ Then("import apex")
    /\ zviews' = zviews \cup {Ref.view}
    /\ UNCHANGED <<core, rows, zone, acls, memory>> /\ StartOnly

ImportZone ==
    /\ \/ Starting("import zone") /\ NextBlock
       \/ /\ Starting("import new zone")
          /\ IF Ref.view = "public" THEN NextBlock ELSE Then("import acl")
    /\ zone' = TRUE
    /\ UNCHANGED <<core, rows, zviews, acls, memory>> /\ StartOnly

InsertACL(a) == acls' = IF a \in ToSet(acls) THEN acls ELSE Append(acls, a)

ImportACL ==
    /\ Starting("import acl") /\ InsertACL(Ref.view) /\ Then("import new view")
    /\ UNCHANGED <<core, rows, zone, zviews, memory>> /\ StartOnly

seedPublicApex(from) ==
    rows' = IF rows["public"] = NoZone /\ \E v \in from : rows[v] # NoZone
            THEN [rows EXCEPT !["public"] = {}] ELSE rows

ImportApex ==
    /\ Starting("import apex") /\ seedPublicApex({Ref.view}) /\ NextBlock
    /\ UNCHANGED <<core, zone, zviews, acls, memory>> /\ StartOnly

(* importCorefileACLs, for the views whose files could not be read too: a  *)
(* map is ranged over, so they come in any order.                          *)
ImportCorefileACLs ==
    /\ Starting("import") /\ start.block > Len(core)
    /\ LET todo == {core[i].view : i \in DOMAIN core} \ ({"public"} \cup ToSet(acls)) IN
         \/ todo = {} /\ Then("strip") /\ UNCHANGED acls
         \/ \E a \in todo : InsertACL(a) /\ UNCHANGED start
    /\ UNCHANGED <<core, rows, zone, zviews, memory>> /\ StartOnly

(* Every block that names a zone file goes, whether it was imported or not. *)
stripZonefileBlocks(blocks) ==
    Restrict(blocks, {i \in DOMAIN blocks :
                        blocks[i].plugin \notin {"file", "dns-update-persistent"}})

(* simplifyCorefile, and the rename that may fail.                         *)
StripCorefile ==
    /\ Starting("strip") /\ start' = [pc |-> "origins", block |-> 1]
    /\ core' = IF cfg.readonly THEN core ELSE stripZonefileBlocks(core)
    /\ UNCHANGED <<sqlite, memory>> /\ StartOnly

(* ensureOriginsFromViews; the slip leaves the public zone to the import.  *)
EnsureOrigin ==
    /\ Starting("origins") /\ Then("apex")
    /\ zone' = (zone \/ zviews # {})
    /\ UNCHANGED <<core, rows, zviews, acls, memory>> /\ StartOnly

EnsureApexNever ==
    /\ Starting("apex") /\ Then("load")
    /\ UNCHANGED <<core, sqlite, memory>> /\ StartOnly

EnsureApex ==
    /\ Starting("apex") /\ Then("load")
    /\ seedPublicApex(zviews)
    /\ UNCHANGED <<core, zone, zviews, acls, memory>> /\ StartOnly

(* loadPersistedZones: a zone the Corefile has registered is taken over.   *)
LoadZones ==
    /\ Starting("load") /\ Then("load views")
    /\ \/ /\ zone /\ reg # None
          /\ obj' = [obj EXCEPT ![reg].data = IF rows["public"] = NoZone THEN @
                                              ELSE rows["public"]]
          /\ primary' = reg /\ UNCHANGED <<reg, views>>
       \/ /\ zone /\ reg = None /\ rows["public"] # NoZone
          /\ NewObject(rows["public"], "public", "admin")
          /\ reg' = Fresh /\ primary' = Fresh /\ UNCHANGED views
       \/ /\ ~zone \/ (reg = None /\ rows["public"] = NoZone)
          /\ UNCHANGED memory
    /\ UNCHANGED <<core, sqlite>> /\ StartOnly

(* The slip takes a view without rows for an empty one.                    *)
loadViewsAnyway ==
    /\ Starting("load views")
    /\ LET todo == {a \in zviews : views[a] = None} IN
         \/ /\ todo = {} /\ Then("up") /\ UNCHANGED memory
         \/ \E a \in todo :
              /\ NewObject(rows[a], a, "admin") /\ views' = [views EXCEPT ![a] = Fresh]
              /\ UNCHANGED <<reg, primary, start>>
    /\ UNCHANGED <<core, sqlite>> /\ StartOnly

loadViews ==
    /\ Starting("load views")
    /\ LET todo == {a \in zviews : rows[a] # NoZone /\ views[a] = None} IN
         \/ /\ todo = {} /\ Then("up") /\ UNCHANGED memory
         \/ \E a \in todo :
              /\ NewObject(rows[a], a, "admin") /\ views' = [views EXCEPT ![a] = Fresh]
              /\ UNCHANGED <<reg, primary, start>>
    /\ UNCHANGED <<core, sqlite>> /\ StartOnly

StartStep ==
    \/ RegisterCorefile \/ ImportRecords \/ ImportViewRow \/ ImportZone
    \/ ImportACL \/ ImportApex \/ ImportCorefileACLs \/ StripCorefile
    \/ EnsureOrigin \/ EnsureApex \/ LoadZones \/ loadViews

----------------------------------------------------------------------------
(* Requests.                                                               *)

At(w, pc)     == start.pc = "up" /\ worker[w].pc = pc
Goto(w, pc)   == worker' = [worker EXCEPT ![w].pc = pc]
Reply(w)      == worker' = [worker EXCEPT ![w] = Idle]
Req(w)        == worker[w].req
RequestOnly   == UNCHANGED <<cfg, core, start, bounds>>

(* The views whose contents are anybody's guess when a request is cut short: *)
(* of a move, the view that has already lost the record.                    *)
Touched(r) ==
    CASE r.op = "create"    -> {"public"}
      [] r.op = "delete"    -> Views
      [] r.op = "deleteACL" -> {r.acl}
      [] r.op = "renameACL" -> {r.acl, r.to}
      [] r.op = "move" /\ Len(r.todo) = 1 -> {r.acl}
      [] OTHER              -> {}

CutShort(rs) ==
    want' = [v \in Views |-> IF \E r \in rs : v \in Touched(r) THEN Unknown
                             ELSE want[v]]

(* The checks each handler begins with.                                    *)
Admitted(r) ==
    CASE r.op = "create"    -> reg = None
      [] r.op = "delete"    -> IF reg = None THEN zone ELSE obj[reg].source = "admin"
      [] r.op = "createACL" -> r.acl \notin ToSet(acls)
      [] r.op = "renameACL" -> r.acl \in ToSet(acls)
      [] OTHER              -> TRUE

FirstStep(r) ==
    CASE r.op = "create"    -> "write rows"
      [] r.op = "delete"    -> "delete primary"
      [] r.op = "createACL" -> "insert acl"
      [] r.op = "deleteACL" -> "delete acl rows"
      [] r.op = "renameACL" -> "rename acl"
      [] OTHER              -> "record zone"

(* A refused request changes nothing and is left out.                      *)
Request(w, r) ==
    /\ w \in cfg.workers /\ At(w, "idle") /\ requests < MaxRequests /\ requests' = requests + 1
    /\ r.op \in cfg.ops /\ Admitted(r)
    /\ worker' = [worker EXCEPT ![w].pc = FirstStep(r), ![w].req = r]
    /\ UNCHANGED <<cfg, core, sqlite, memory, start, want, crashes>>

(* createPrimary.                                                          *)
CreateRows(w) ==
    /\ At(w, "write rows") /\ Goto(w, "register")
    /\ rows' = [rows EXCEPT !["public"] = {}]
    /\ UNCHANGED <<zone, zviews, acls, memory, want>> /\ RequestOnly

RegisterPrimary(w) ==
    /\ At(w, "register")
    /\ \/ /\ reg = None /\ NewObject({}, "public", "admin") /\ reg' = Fresh
          /\ worker' = [worker EXCEPT ![w].pc = "publish", ![w].obj = Fresh]
       \/ /\ reg # None /\ Reply(w) /\ UNCHANGED <<obj, reg>>
    /\ UNCHANGED <<sqlite, primary, views, want>> /\ RequestOnly

Publish(w) ==
    /\ At(w, "publish") /\ Goto(w, "write zone") /\ primary' = worker[w].obj
    /\ UNCHANGED <<sqlite, obj, reg, views, want>> /\ RequestOnly

UpsertZone(w) ==
    /\ At(w, "write zone") /\ Reply(w) /\ zone' = TRUE
    /\ want' = [want EXCEPT !["public"] = {}]
    /\ UNCHANGED <<rows, zviews, acls, memory>> /\ RequestOnly

(* deleteZone, dropViews, DeleteZone.                                      *)
DeletePrimary(w) ==
    /\ At(w, "delete primary") /\ Goto(w, "unregister") /\ primary' = None
    /\ UNCHANGED <<sqlite, obj, reg, views, want>> /\ RequestOnly

Unregister(w) ==
    /\ At(w, "unregister") /\ Goto(w, "drop views") /\ reg' = None
    /\ UNCHANGED <<sqlite, obj, primary, views, want>> /\ RequestOnly

dropViews(w) ==
    /\ \/ /\ At(w, "drop views")
          /\ worker' = [worker EXCEPT ![w].pc = "drop rows",
                          ![w].drop = {a \in ACLNames : views[a] # None}]
          /\ views' = [a \in ACLNames |-> None] /\ UNCHANGED <<rows, zviews>>
       \/ /\ At(w, "drop rows")
          /\ \E a \in worker[w].drop :
               /\ worker' = [worker EXCEPT ![w].drop = @ \ {a}]
               /\ rows' = [rows EXCEPT ![a] = NoZone]
          /\ UNCHANGED <<views, zviews>>
       \/ /\ At(w, "drop rows") /\ worker[w].drop = {}
          /\ Goto(w, "delete rows") /\ zviews' = {} /\ UNCHANGED <<views, rows>>
    /\ UNCHANGED <<zone, acls, obj, reg, primary, want>> /\ RequestOnly

DeleteZone(w) ==
    /\ \/ /\ At(w, "delete rows") /\ Goto(w, "delete view rows")
          /\ rows' = [v \in Views |-> NoZone] /\ UNCHANGED <<zviews, zone, want>>
       \/ /\ At(w, "delete view rows") /\ Goto(w, "delete zone row")
          /\ zviews' = {} /\ UNCHANGED <<rows, zone, want>>
       \/ /\ At(w, "delete zone row") /\ Reply(w)
          /\ zone' = FALSE /\ want' = [v \in Views |-> NoZone]
          /\ UNCHANGED <<rows, zviews>>
    /\ UNCHANGED <<acls, memory>> /\ RequestOnly

(* recordZone, ensureView: the zone an edit goes to.  The ACL, the view,   *)
(* the primary and the rows are looked at in one step.  The second half of *)
(* a move may find no zone.                                                *)
recordZone(w) ==
    /\ At(w, "record zone")
    /\ LET v == Head(Req(w).todo).view
           known == IF v = "public" THEN reg
                    ELSE IF v \in ToSet(acls) THEN views[v] ELSE None
       IN  \/ /\ known # None
              /\ worker' = [worker EXCEPT ![w].pc = "apply", ![w].obj = known]
              /\ UNCHANGED want
           \/ /\ known = None /\ v \in ToSet(acls) /\ reg # None
              /\ worker' = [worker EXCEPT
                   ![w].pc = IF rows[v] # NoZone THEN "view row" ELSE "seed view",
                   ![w].seed = IF rows[v] # NoZone THEN rows[v] ELSE {}]
              /\ UNCHANGED want
           \/ /\ known = None /\ (v \notin ToSet(acls) \/ reg = None)
              /\ Reply(w) /\ CutShort({Req(w)})
    /\ UNCHANGED <<sqlite, memory>> /\ RequestOnly

SeedView(w) ==
    /\ At(w, "seed view") /\ Goto(w, "view row")
    /\ rows' = [rows EXCEPT ![Head(Req(w).todo).view] = {}]
    /\ UNCHANGED <<zone, zviews, acls, memory, want>> /\ RequestOnly

UpsertZoneView(w) ==
    /\ At(w, "view row") /\ Goto(w, "put view")
    /\ zviews' = zviews \cup {Head(Req(w).todo).view}
    /\ UNCHANGED <<rows, zone, acls, memory, want>> /\ RequestOnly

putView(w) ==
    /\ At(w, "put view")
    /\ LET v == Head(Req(w).todo).view IN
         /\ NewObject(worker[w].seed, v, "admin")
         /\ views' = [views EXCEPT ![v] = Fresh]
         /\ worker' = [worker EXCEPT ![w].pc = "apply", ![w].obj = Fresh]
    /\ UNCHANGED <<sqlite, reg, primary, want>> /\ RequestOnly

(* Apply: persisted and swapped under the zone's lock, or refused.  A move *)
(* then goes on to the zone the record is added to: when that is refused,  *)
(* the client is answered 400 and the record is gone from the first zone.  *)
EditWanted(d, e) ==
    IF d = Unknown THEN d
    ELSE ((IF d = NoZone THEN {} ELSE d) \ e.del) \cup e.add

Apply(w) ==
    /\ At(w, "apply")
    /\ LET e == Head(Req(w).todo)
           o == worker[w].obj
           new == (obj[o].data \ e.del) \cup e.add
       IN  \/ /\ obj' = [obj EXCEPT ![o].data = new]
              /\ rows' = [rows EXCEPT ![obj[o].target] = new]
              /\ want' = [want EXCEPT ![e.view] = EditWanted(@, e)]
              /\ IF Len(Req(w).todo) = 1 THEN Reply(w)
                 ELSE worker' = [worker EXCEPT ![w].pc = "record zone",
                                   ![w].req.todo = Tail(@), ![w].obj = None]
           \/ Reply(w) /\ CutShort({Req(w)}) /\ UNCHANGED <<obj, rows>>
    /\ UNCHANGED <<zone, zviews, acls, reg, primary, views>> /\ RequestOnly

(* handleCreateACL, handleDeleteACL: the view goes before the ACL.         *)
CreateACL(w) ==
    /\ At(w, "insert acl") /\ Reply(w) /\ InsertACL(Req(w).acl)
    /\ UNCHANGED <<rows, zone, zviews, memory, want>> /\ RequestOnly

DeleteACL(w) ==
    /\ LET a == Req(w).acl IN
       \/ /\ At(w, "delete acl rows") /\ rows' = [rows EXCEPT ![a] = NoZone]
          /\ worker' = [worker EXCEPT ![w].pc = "delete acl views",
                                      ![w].drop = zviews \cap {a}]
          /\ UNCHANGED <<zviews, views, acls, want>>
       \/ /\ At(w, "delete acl views") /\ Goto(w, "forget view")
          /\ zviews' = zviews \ {a} /\ UNCHANGED <<rows, views, acls, want>>
       \/ /\ At(w, "forget view") /\ Goto(w, "delete acl")
          /\ views' = [b \in ACLNames |-> IF b \in worker[w].drop THEN None ELSE views[b]]
          /\ UNCHANGED <<rows, zviews, acls, want>>
       \/ /\ At(w, "delete acl") /\ Reply(w)
          /\ acls' = IF a \in ToSet(acls)
                     THEN RemoveAt(acls, CHOOSE i \in DOMAIN acls : acls[i] = a) ELSE acls
          /\ want' = [want EXCEPT ![a] = IF @ = Unknown THEN @ ELSE NoZone]
          /\ UNCHANGED <<rows, zviews, views>>
    /\ UNCHANGED <<zone, obj, reg, primary>> /\ RequestOnly

(* renameViews; the slip forgets to move the persist target.               *)
renameViewsOnly(a, b) ==
    IF views[a] = None THEN UNCHANGED <<obj, views, zviews>>
    ELSE /\ views' = [views EXCEPT ![a] = None, ![b] = views[a]]
         /\ zviews' = zviews \cup {b} /\ UNCHANGED obj

renameViews(a, b) ==
    IF views[a] = None THEN UNCHANGED <<obj, views, zviews>>
    ELSE /\ views' = [views EXCEPT ![a] = None, ![b] = views[a]]
         /\ obj' = [obj EXCEPT ![views[a]].target = b]
         /\ zviews' = zviews \cup {b}

(* UpdateACL and renameViews: three statements, and the zone in memory is  *)
(* given its new persist target.  An ACL or a view under the new name is in *)
(* the way; records under it are when one of them is equal, the SOA and the *)
(* name servers included, and are joined with otherwise.                    *)
RenameACL(w) ==
    /\ LET a == Req(w).acl
           b == Req(w).to
       IN
       \/ /\ At(w, "rename acl") /\ b \in ToSet(acls) /\ Reply(w)
          /\ UNCHANGED <<acls, zviews, rows, obj, views, want>>
       \/ /\ At(w, "rename acl") /\ b \notin ToSet(acls) /\ Goto(w, "rename view rows")
          /\ acls' = [i \in DOMAIN acls |-> IF acls[i] = a THEN b ELSE acls[i]]
          /\ UNCHANGED <<zviews, rows, obj, views, want>>
       \/ /\ At(w, "rename view rows") /\ ~({a, b} \subseteq zviews)
          /\ Goto(w, "rename rows")
          /\ zviews' = IF a \in zviews THEN (zviews \ {a}) \cup {b} ELSE zviews
          /\ UNCHANGED <<acls, rows, obj, views, want>>
       \/ /\ At(w, "rename rows") /\ (rows[a] = NoZone \/ rows[b] = NoZone)
          /\ Goto(w, "rename views")
          /\ rows' = IF rows[a] = NoZone THEN rows
                     ELSE [rows EXCEPT ![a] = NoZone, ![b] = rows[a]]
          /\ UNCHANGED <<acls, zviews, obj, views, want>>
       \/ /\ At(w, "rename rows") /\ NoZone \notin {rows[a], rows[b]}
          /\ rows[a] \cap rows[b] = {} /\ Goto(w, "rename views")
          /\ rows' = [rows EXCEPT ![a] = NoZone, ![b] = rows[a] \cup rows[b]]
          /\ CutShort({Req(w)}) /\ UNCHANGED <<acls, zviews, obj, views>>
       \/ /\ \/ At(w, "rename view rows") /\ {a, b} \subseteq zviews
             \/ At(w, "rename rows") /\ rows[a] # NoZone /\ rows[b] # NoZone
          /\ Reply(w) /\ CutShort({Req(w)})
          /\ UNCHANGED <<acls, zviews, rows, obj, views>>
       \/ /\ At(w, "rename views") /\ Reply(w)
          /\ renameViews(a, b)
          /\ want' = [want EXCEPT ![a] = NoZone,
                                  ![b] = IF @ = Unknown THEN @ ELSE want[a]]
          /\ UNCHANGED <<acls, rows>>
    /\ UNCHANGED <<zone, reg, primary>> /\ RequestOnly

RequestStep(w) ==
    \/ CreateRows(w) \/ RegisterPrimary(w) \/ Publish(w) \/ UpsertZone(w)
    \/ DeletePrimary(w) \/ Unregister(w) \/ dropViews(w) \/ DeleteZone(w)
    \/ recordZone(w) \/ SeedView(w) \/ UpsertZoneView(w) \/ putView(w)
    \/ Apply(w) \/ CreateACL(w) \/ DeleteACL(w) \/ RenameACL(w)

(* The process dies, during the start-up too, and is started again.        *)
Crash ==
    /\ crashes < MaxCrashes /\ crashes' = crashes + 1
    /\ start' = [pc |-> "register", block |-> 1]
    /\ CutShort({Req(w) : w \in Workers})
    /\ worker' = [w \in Workers |-> Idle]
    /\ obj' = [o \in Objects |-> NoObject]
    /\ reg' = None /\ primary' = None /\ views' = [a \in ACLNames |-> None]
    /\ UNCHANGED <<cfg, core, sqlite, requests>>

Next ==
    \/ StartStep \/ Crash
    \/ \E w \in Workers : RequestStep(w) \/ \E r \in Requests : Request(w, r)

Spec == Init /\ [][Next]_vars

----------------------------------------------------------------------------
(* Which zone answers.                                                     *)

Clients == {"lan", "wan"}      \* in the networks of every ACL, and in none
Queries == {"www", "mail"}

Answers(o, q)             == q \in obj[o].data
HasCoveringWildcard(o, q) == "*" \in obj[o].data

matchingView(c) ==
    IF c = "lan" /\ acls # <<>> THEN views[Head(acls)] ELSE None

(* serveWithNext down to the plugin that comes after admin; the slip lets  *)
(* a wildcard of the view hide a host of the public zone.                  *)
pickServeViewFirst(c, q) ==
    LET v == matchingView(c) IN
    IF v # None /\ (Answers(v, q) \/ HasCoveringWildcard(v, q)) THEN v ELSE primary

pickServe(c, q) ==
    LET v       == matchingView(c)
        exact   == v # None /\ Answers(v, q)
        covered == v # None /\ HasCoveringWildcard(v, q)
    IN  IF primary = None THEN (IF exact \/ covered THEN v ELSE None)
        ELSE IF exact \/ (covered /\ ~Answers(primary, q)) THEN v ELSE primary

(* A zone's answer: the record, and the view it is from.                   *)
Answer(c, q) ==
    LET o == pickServe(c, q)
        from == IF o = primary THEN "public" ELSE Head(acls)
    IN  CASE o = None                  -> <<"not ours">>
          [] o # None /\ Answers(o, q) -> <<from, q>>
          [] o # None /\ ~Answers(o, q) /\ HasCoveringWildcard(o, q) -> <<from, "*">>
          [] OTHER                     -> <<"no such name">>

----------------------------------------------------------------------------
(* Properties.                                                             *)

Quiet == start.pc = "up" /\ \A w \in Workers : worker[w].pc = "idle"

(* "Most-specific owner wins across the public zone and the matching ACL   *)
(* view; the view wins ties", over what the acknowledged requests and the  *)
(* Corefile's files add up to.                                             *)
Promised(c, q) ==
    LET mine   == IF c = "lan" /\ acls # <<>> THEN Head(acls) ELSE "public"
        Has(r) == r \in want[mine] \cup want["public"]
        owner  == IF Has(q) THEN q ELSE "*"
    IN  CASE want["public"] = NoZone -> <<"not ours">>
          [] want["public"] # NoZone /\ Has(owner) ->
               <<IF owner \in want[mine] THEN mine ELSE "public", owner>>
          [] OTHER -> <<"no such name">>

(* Whenever no request is under way, every client is answered from what    *)
(* was acknowledged or imported and from nothing else, whatever was        *)
(* created, edited, moved, renamed or deleted before and wherever the      *)
(* process died in between: "they are imported into SQLite on startup and  *)
(* stripped ... admin serves every origin from SQLite".  Nothing is claimed *)
(* of a view whose last request was refused or died half done: a move whose *)
(* second half fails leaves the record in neither zone, against the 400 the *)
(* client is sent.                                                         *)
AnswersAsAcked ==
    Quiet => \A c \in Clients, q \in Queries :
      \/ want["public"] = Unknown
      \/ c = "lan" /\ acls # <<>> /\ want[Head(acls)] = Unknown
      \/ Answer(c, q) = Promised(c, q)

(* A view that answers has a public zone to be edited through, even after  *)
(* an import or a deletion was cut short (ensureOriginsFromViews: "those    *)
(* origins vanished from the UI").                                         *)
ViewHasZone ==
    Quiet => \A a \in ACLNames : views[a] # None => reg # None /\ primary = reg

(* Every zone in memory persists where a restart looks for it: editing the *)
(* public zone, a view or a renamed view never writes another one's rows.  *)
(* The views of a renaming that was cut short are the exception.           *)
EditsPersist ==
    Quiet => /\ primary = reg
             /\ primary # None => /\ zone /\ obj[primary].target = "public"
                                  /\ rows["public"] = obj[primary].data
             /\ \A a \in ACLNames : views[a] # None /\ want[a] # Unknown =>
                  /\ a \in zviews /\ obj[views[a]].target = a
                  /\ rows[a] = obj[views[a]].data
=============================================================================
