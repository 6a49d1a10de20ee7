---------------------------- MODULE ClusterSync ----------------------------
(***************************************************************************)
(* How a node joins a cluster and keeps a copy of the primary's            *)
(* configuration (admin/cluster.go, admin/store/cluster.go, the start-up   *)
(* in admin/setup.go).                                                     *)
(*                                                                         *)
(* Every node runs the same program, so every variable is a function of    *)
(* the node.  Changes are numbered per node, and a table is the set of     *)
(* changes it holds: an insertion, an update and a deletion are each a     *)
(* change.  "users" stands for each of the tables Snapshot reads before    *)
(* the generation, one statement per table, and ApplySnapshot replaces in  *)
(* one transaction (users, tokens, ACLs, TSIG keys, filters, records, the  *)
(* roster); "views" for the ones fullSnapshot reads after it, which        *)
(* replaceViewsFromSnap adds to the node's own when the transaction is     *)
(* over: a view that was deleted stays.                                    *)
(*                                                                         *)
(* A conversation is one join or one pull, from the request to the last    *)
(* thing the asking node does with the answer.  The answering node's part  *)
(* of it goes on when the asking node is gone.                             *)
(***************************************************************************)
EXTENDS Naturals, FiniteSets

CONSTANTS
    Nodes,
    None,          \* no node, no member
    Tokens,        \* join tokens an admin may create
    Joins,         \* pairs: the first node may be told to join the second
    StartRole,     \* the role in each node's Corefile
    StartGen,      \* the generation each node starts with
    MaxEvents      \* bound: changes, sign-ins, removals, expiries, crashes,
                   \* lost answers and failed transactions, together

Roles  == {"primary", "secondary"}
Kinds  == {"join", "pull"}
Tables == {"users", "views"}

ASSUME ClusterAssumption ==
    /\ None \notin Nodes
    /\ Joins \subseteq Nodes \X Nodes
    /\ StartRole \in [Nodes -> Roles]
    /\ StartGen \in [Nodes -> Nat]
    /\ MaxEvents \in Nat

Changes == Nodes \X Nat
Content == [Tables -> SUBSET Changes]

VARIABLES
    up,          \* is the process running?
    role,        \* cfg.Role
    meta,        \* SQLite: role, cluster ID, member secret, primary's URL
    gen,         \* SQLite: the generation
    table,       \* SQLite: the tables
    made,        \* how many changes a node has made
    pend,        \* changes written whose BumpGeneration is still to come
    token,       \* SQLite: the join tokens
    members,     \* SQLite: the members a node has admitted, by secret
    selfKnown,   \* has ensureSelfMember entered this node with its URL?
    pulling,     \* does the pull loop run?
    conv,        \* the conversations
    promised,    \* history: what the tables held at each BumpGeneration
    copied,      \* history: the last generation applied to the end
    events       \* how much has happened, for the bound

vars == <<up, role, meta, gen, table, made, pend, token, members, selfKnown,
          pulling, conv, promised, copied, events>>

NoContent == [t \in Tables |-> {}]
Idle   == [pc |-> "idle", peer |-> None, tok |-> None, id |-> 0,
           live |-> TRUE, g |-> 0, snap |-> NoContent]

(* Where a conversation can be: first on the answering node, then back.    *)
Answering == {"consume", "self", "selfbump", "member", "bump", "auth",
              "users", "gen", "views"}
Asking    == {"answer", "secret", "url", "role", "compare", "tx", "apply"}

Metas   == [role : Roles, cluster : BOOLEAN, secret : Nat, url : Nodes \cup {None}]
Members == [id : Nat, tok : Tokens]
Convs   == [pc : {"idle"} \cup Answering \cup Asking,
            peer : Nodes \cup {None}, tok : Tokens \cup {None}, id : Nat,
            live : BOOLEAN, g : Nat, snap : Content]

(* The variables keep their types: in particular no bump is made that no   *)
(* change asks for, and no conversation leaves the handler's stages.       *)
TypeOK ==
    /\ up \in [Nodes -> BOOLEAN]
    /\ role \in [Nodes -> Roles]
    /\ meta \in [Nodes -> Metas]
    /\ gen \in [Nodes -> Nat]
    /\ table \in [Nodes -> Content]
    /\ made \in [Nodes -> Nat] /\ pend \in [Nodes -> Nat]
    /\ token \in [Nodes -> [Tokens -> {"none", "fresh", "used", "expired"}]]
    /\ members \in [Nodes -> SUBSET Members]
    /\ selfKnown \in [Nodes -> BOOLEAN] /\ pulling \in [Nodes -> BOOLEAN]
    /\ conv \in [Nodes -> [Kinds -> Convs]]
    /\ promised \in [Nodes -> SUBSET [g : Nat, content : Content]]
    /\ copied \in [Nodes -> Nat]
    /\ events \in 0 .. MaxEvents

Init ==
    /\ up = [n \in Nodes |-> TRUE]
    /\ role = StartRole
    /\ meta = [n \in Nodes |-> [role |-> StartRole[n], cluster |-> FALSE,
                                secret |-> 0, url |-> None]]
    /\ gen = StartGen
    /\ table = [n \in Nodes |-> NoContent]
    /\ made = [n \in Nodes |-> 0] /\ pend = [n \in Nodes |-> 0]
    /\ token = [n \in Nodes |-> [k \in Tokens |-> "none"]]
    /\ members = [n \in Nodes |-> {}]
    /\ selfKnown = [n \in Nodes |-> FALSE]
    /\ pulling = [n \in Nodes |-> StartRole[n] = "secondary"]
    /\ conv = [n \in Nodes |-> [k \in Kinds |-> Idle]]
    /\ promised = [n \in Nodes |-> {}]
    /\ copied = [n \in Nodes |-> 0]
    /\ events = 0

Event == events < MaxEvents /\ events' = events + 1

----------------------------------------------------------------------------
(* The store.                                                              *)

AddChange(n, t) ==
    /\ made' = [made EXCEPT ![n] = @ + 1]
    /\ table' = [table EXCEPT ![n][t] = @ \cup {<<n, made[n] + 1>>}]

BumpGeneration(n) ==
    /\ gen' = [gen EXCEPT ![n] = @ + 1]
    /\ promised' = [promised EXCEPT ![n] =
                      @ \cup {[g |-> gen[n] + 1, content |-> table[n]]}]

(* A request that changes something is served where it arrives only on a   *)
(* primary; a secondary hands it on (maybeProxy).                          *)
ServedHere(n) == up[n] /\ role[n] = "primary"

(* Any handler that changes a table: the write and, later, the bump.       *)
Write(n, t) ==
    /\ ServedHere(n) /\ Event
    /\ AddChange(n, t)
    /\ pend' = [pend EXCEPT ![n] = @ + 1]
    /\ UNCHANGED <<up, role, meta, gen, token, members, selfKnown, pulling,
                   conv, promised, copied>>

(* handleOIDCCallback is not handed on: the first sign-in of a person      *)
(* creates the user on the node that was asked.                            *)
OIDCProvision(n) ==
    /\ up[n] /\ role[n] = "secondary" /\ Event
    /\ AddChange(n, "users")
    /\ pend' = [pend EXCEPT ![n] = @ + 1]
    /\ UNCHANGED <<up, role, meta, gen, token, members, selfKnown, pulling,
                   conv, promised, copied>>

(* A slip: the generation is raised without a change that asks for it.     *)
BumpAnyway(n) ==
    /\ up[n] /\ pend' = [pend EXCEPT ![n] = @ - 1]
    /\ BumpGeneration(n)
    /\ UNCHANGED <<up, role, meta, table, made, token, members, selfKnown,
                   pulling, conv, copied, events>>

Bump(n) ==
    /\ up[n] /\ pend[n] > 0
    /\ pend' = [pend EXCEPT ![n] = @ - 1]
    /\ BumpGeneration(n)
    /\ UNCHANGED <<up, role, meta, table, made, token, members, selfKnown,
                   pulling, conv, copied, events>>

(* handleCreateJoinToken, and the time after which it is refused.          *)
CreateJoinToken(n, k) ==
    /\ ServedHere(n) /\ token[n][k] = "none"
    /\ token' = [token EXCEPT ![n][k] = "fresh"]
    /\ UNCHANGED <<up, role, meta, gen, table, made, pend, members, selfKnown,
                   pulling, conv, promised, copied, events>>

TokenExpires(n, k) ==
    /\ token[n][k] = "fresh" /\ Event
    /\ token' = [token EXCEPT ![n][k] = "expired"]
    /\ UNCHANGED <<up, role, meta, gen, table, made, pend, members, selfKnown,
                   pulling, conv, promised, copied>>

(* handleDeleteMember.                                                     *)
DeleteMember(n, m) ==
    /\ ServedHere(n) /\ m \in members[n] /\ Event
    /\ members' = [members EXCEPT ![n] = @ \ {m}]
    /\ AddChange(n, "users")
    /\ pend' = [pend EXCEPT ![n] = @ + 1]
    /\ UNCHANGED <<up, role, meta, gen, token, selfKnown, pulling, conv,
                   promised, copied>>

----------------------------------------------------------------------------
(* Joining.                                                                *)

alreadyJoined(n) ==
    \/ meta[n].secret # 0
    \/ role[n] = "secondary" /\ meta[n].cluster

hasSecondaries(n) == members[n] # {}

canJoinAsSecondary(n) ==
    /\ ~alreadyJoined(n)
    /\ role[n] = "primary" => ~hasSecondaries(n)

At(n, k, pc)   == up[n] /\ conv[n][k].pc = pc
Goto(n, k, pc) == conv' = [conv EXCEPT ![n][k].pc = pc]
Hangup(n, k)   == conv' = [conv EXCEPT ![n][k] = Idle]

(* The answering node takes a step of the conversation.                    *)
Serving(n, k, pc) == conv[n][k].pc = pc /\ up[conv[n][k].peer]

(* handleClusterConnect, and joinPrimary at start: what is checked here is *)
(* not looked at again.                                                    *)
Connect(n, p, k) ==
    /\ At(n, "join", "idle") /\ canJoinAsSecondary(n)
    /\ conv' = [conv EXCEPT ![n]["join"] = [Idle EXCEPT !.pc = "consume",
                                                        !.peer = p, !.tok = k]]
    /\ UNCHANGED <<up, role, meta, gen, table, made, pend, token, members,
                   selfKnown, pulling, promised, copied, events>>

(* A slip: a token that was used already is taken again.                   *)
ConsumeJoinTokenAgain(p, k) == token[p][k] \in {"fresh", "used"}

(* ConsumeJoinToken, under the store's lock: the row is looked up, and     *)
(* marked if it is neither used nor expired.                               *)
ConsumeJoinToken(p, k) == token[p][k] = "fresh"

(* handleClusterJoin, one write after the other.                           *)
JoinConsume(n) ==
    /\ Serving(n, "join", "consume")
    /\ LET c == conv[n]["join"] IN
         \/ /\ role[c.peer] = "primary" /\ ConsumeJoinToken(c.peer, c.tok)
            /\ token' = [token EXCEPT ![c.peer][c.tok] = "used"]
            /\ Goto(n, "join", IF selfKnown[c.peer] THEN "member" ELSE "self")
         \/ /\ ~(role[c.peer] = "primary" /\ ConsumeJoinToken(c.peer, c.tok))
            /\ Hangup(n, "join") /\ UNCHANGED token
    /\ UNCHANGED <<up, role, meta, gen, table, made, pend, members, selfKnown,
                   pulling, promised, copied, events>>

EnsureSelfMember(n) ==
    /\ Serving(n, "join", "self")
    /\ LET p == conv[n]["join"].peer IN
         /\ selfKnown' = [selfKnown EXCEPT ![p] = TRUE]
         /\ AddChange(p, "users")
    /\ Goto(n, "join", "selfbump")
    /\ UNCHANGED <<up, role, meta, gen, pend, token, members, pulling, promised,
                   copied, events>>

InsertMember(n) ==
    /\ Serving(n, "join", "member")
    /\ LET c == conv[n]["join"] IN
         /\ AddChange(c.peer, "users")
         /\ members' = [members EXCEPT ![c.peer] =
                          @ \cup {[id |-> made[c.peer] + 1, tok |-> c.tok]}]
         /\ conv' = [conv EXCEPT ![n]["join"].pc = "bump",
                                 ![n]["join"].id = made[c.peer] + 1]
    /\ UNCHANGED <<up, role, meta, gen, pend, token, selfKnown, pulling,
                   promised, copied, events>>

JoinBump(n) ==
    /\ \/ Serving(n, "join", "selfbump") /\ Goto(n, "join", "member")
       \/ Serving(n, "join", "bump") /\ Goto(n, "join", "users")
    /\ BumpGeneration(conv[n]["join"].peer)
    /\ UNCHANGED <<up, role, meta, table, made, pend, token, members, selfKnown,
                   pulling, copied, events>>

----------------------------------------------------------------------------
(* Pulling.                                                                *)

(* pullSnapshot's request.                                                 *)
Pull(n) ==
    /\ pulling[n] /\ At(n, "pull", "idle")
    /\ meta[n].url # None /\ meta[n].secret # 0
    /\ conv' = [conv EXCEPT ![n]["pull"] =
                  [Idle EXCEPT !.pc = "auth", !.peer = meta[n].url,
                               !.id = meta[n].secret]]
    /\ UNCHANGED <<up, role, meta, gen, table, made, pend, token, members,
                   selfKnown, pulling, promised, copied, events>>

(* handleClusterSnapshot, memberAuth.                                      *)
MemberAuth(n) ==
    /\ Serving(n, "pull", "auth")
    /\ LET c  == conv[n]["pull"]
           ok == role[c.peer] = "primary" /\ \E m \in members[c.peer] : m.id = c.id
       IN  \/ ok /\ Goto(n, "pull", "users")
           \/ ~ok /\ Hangup(n, "pull")
    /\ UNCHANGED <<up, role, meta, gen, table, made, pend, token, members,
                   selfKnown, pulling, promised, copied, events>>

(* fullSnapshot: the tables, the generation, the views.                    *)
ReadTables(n, k) ==
    /\ Serving(n, k, "users")
    /\ conv' = [conv EXCEPT ![n][k].pc = "gen",
                            ![n][k].snap["users"] = table[conv[n][k].peer]["users"]]
    /\ UNCHANGED <<up, role, meta, gen, table, made, pend, token, members,
                   selfKnown, pulling, promised, copied, events>>

ReadGeneration(n, k) ==
    /\ Serving(n, k, "gen")
    /\ conv' = [conv EXCEPT ![n][k].pc = "views", ![n][k].g = gen[conv[n][k].peer]]
    /\ UNCHANGED <<up, role, meta, gen, table, made, pend, token, members,
                   selfKnown, pulling, promised, copied, events>>

(* A slip: only the answer to a join carries the views.                    *)
AttachViewsAtJoin(n, k) ==
    /\ Serving(n, k, "views")
    /\ IF conv[n][k].live
       THEN conv' = [conv EXCEPT ![n][k].pc = IF k = "join" THEN "answer" ELSE "compare",
                                 ![n][k].snap["views"] =
                                    IF k = "join" THEN table[conv[n][k].peer]["views"] ELSE {}]
       ELSE Hangup(n, k)
    /\ UNCHANGED <<up, role, meta, gen, table, made, pend, token, members,
                   selfKnown, pulling, promised, copied, events>>

(* attachViews ends the answer; nobody may be there to take it.            *)
AttachViews(n, k) ==
    /\ Serving(n, k, "views")
    /\ IF conv[n][k].live
       THEN conv' = [conv EXCEPT ![n][k].pc = IF k = "join" THEN "answer" ELSE "compare",
                                 ![n][k].snap["views"] = table[conv[n][k].peer]["views"]]
       ELSE Hangup(n, k)
    /\ UNCHANGED <<up, role, meta, gen, table, made, pend, token, members,
                   selfKnown, pulling, promised, copied, events>>

----------------------------------------------------------------------------
(* What the asking node does with the answer.                              *)

(* acceptJoin and the rest of handleClusterConnect: four keys of the meta  *)
(* table, one after the other.                                             *)
AcceptJoin(n) ==
    /\ \/ /\ At(n, "join", "answer") /\ Goto(n, "join", "secret")
          /\ meta' = [meta EXCEPT ![n].cluster = TRUE]
          /\ UNCHANGED role
       \/ /\ At(n, "join", "secret") /\ Goto(n, "join", "url")
          /\ meta' = [meta EXCEPT ![n].secret = conv[n]["join"].id]
          /\ UNCHANGED role
       \/ /\ At(n, "join", "url") /\ Goto(n, "join", "role")
          /\ meta' = [meta EXCEPT ![n].url = conv[n]["join"].peer]
          /\ UNCHANGED role
       \/ /\ At(n, "join", "role") /\ Goto(n, "join", "tx")
          /\ meta' = [meta EXCEPT ![n].role = "secondary"]
          /\ role' = [role EXCEPT ![n] = "secondary"]
    /\ UNCHANGED <<up, gen, table, made, pend, token, members, selfKnown,
                   pulling, promised, copied, events>>

(* A slip: the copy may stay one generation behind.                        *)
CompareLate(n) ==
    /\ At(n, "pull", "compare")
    /\ IF conv[n]["pull"].g <= gen[n] + 1 THEN Hangup(n, "pull")
                                          ELSE Goto(n, "pull", "tx")
    /\ UNCHANGED <<up, role, meta, gen, table, made, pend, token, members,
                   selfKnown, pulling, promised, copied, events>>

(* The end of pullSnapshot: only a later generation is applied.            *)
Compare(n) ==
    /\ At(n, "pull", "compare")
    /\ IF conv[n]["pull"].g <= gen[n] THEN Hangup(n, "pull")
                                      ELSE Goto(n, "pull", "tx")
    /\ UNCHANGED <<up, role, meta, gen, table, made, pend, token, members,
                   selfKnown, pulling, promised, copied, events>>

(* A slip: the tables are emptied in a transaction of their own.           *)
ApplySnapshotCut(n, k) ==
    /\ \/ /\ At(n, k, "tx") /\ table[n]["users"] # {}
          /\ table' = [table EXCEPT ![n]["users"] = {}] /\ UNCHANGED <<conv, gen>>
       \/ /\ At(n, k, "tx") /\ table[n]["users"] = {} /\ Goto(n, k, "apply")
          /\ table' = [table EXCEPT ![n]["users"] = conv[n][k].snap["users"]]
          /\ gen' = [gen EXCEPT ![n] = conv[n][k].g]
    /\ members' = [members EXCEPT ![n] = {}]
    /\ UNCHANGED <<up, role, meta, made, pend, token, selfKnown, pulling,
                   promised, copied, events>>

(* ApplySnapshot: one transaction.  The secrets of members do not travel.  *)
ApplySnapshot(n, k) ==
    /\ At(n, k, "tx") /\ Goto(n, k, "apply")
    /\ table' = [table EXCEPT ![n]["users"] = conv[n][k].snap["users"]]
    /\ members' = [members EXCEPT ![n] = {}]
    /\ gen' = [gen EXCEPT ![n] = conv[n][k].g]
    /\ UNCHANGED <<up, role, meta, made, pend, token, selfKnown, pulling,
                   promised, copied, events>>

(* The transaction fails and is rolled back.  A node that has just joined  *)
(* starts its pull loop all the same.                                      *)
ApplyFails(n, k) ==
    /\ At(n, k, "tx") /\ Hangup(n, k) /\ Event
    /\ pulling' = [pulling EXCEPT ![n] = TRUE]
    /\ UNCHANGED <<up, role, meta, gen, table, made, pend, token, members,
                   selfKnown, promised, copied>>

(* applySnapshot after it, up to replaceViewsFromSnap.                     *)
ApplyViews(n, k) ==
    /\ At(n, k, "apply") /\ Hangup(n, k)
    /\ table' = [table EXCEPT ![n]["views"] = @ \cup conv[n][k].snap["views"]]
    /\ copied' = [copied EXCEPT ![n] = conv[n][k].g]
    /\ pulling' = [pulling EXCEPT ![n] = TRUE]
    /\ UNCHANGED <<up, role, meta, gen, made, pend, token, members, selfKnown,
                   promised, events>>

----------------------------------------------------------------------------
(* Faults.                                                                 *)

(* What becomes of a conversation of m when n dies: what n was asked for   *)
(* is lost, and so is what it was doing with an answer; what it had asked  *)
(* for goes on.                                                            *)
AfterCrash(n, m, k) ==
    LET c == conv[m][k] IN
      CASE c.pc \in Answering /\ c.peer = n           -> Idle
        [] m = n /\ c.pc \in Asking                   -> Idle
        [] m = n /\ c.pc \in Answering /\ c.peer # n -> [c EXCEPT !.live = FALSE]
        [] OTHER                                      -> c

(* A node dies, and with it every bump that is still to come.              *)
Crash(n) ==
    /\ up[n] /\ Event
    /\ up' = [up EXCEPT ![n] = FALSE]
    /\ pend' = [pend EXCEPT ![n] = 0]
    /\ pulling' = [pulling EXCEPT ![n] = FALSE]
    /\ conv' = [m \in Nodes |-> [k \in Kinds |-> AfterCrash(n, m, k)]]
    /\ UNCHANGED <<role, meta, gen, table, made, token, members, selfKnown,
                   promised, copied>>

(* The client gives up, or the answer is lost on its way.                  *)
Lose(n, k) ==
    /\ conv[n][k].pc \in Answering /\ conv[n][k].live /\ Event
    /\ conv' = [conv EXCEPT ![n][k].live = FALSE]
    /\ UNCHANGED <<up, role, meta, gen, table, made, pend, token, members,
                   selfKnown, pulling, promised, copied>>

(* newAdmin: applyPersistedRole; a secondary starts its pull loop.         *)
Restart(n) ==
    /\ ~up[n] /\ up' = [up EXCEPT ![n] = TRUE]
    /\ LET r == IF meta[n].role = "secondary" THEN "secondary" ELSE StartRole[n] IN
         /\ role' = [role EXCEPT ![n] = r]
         /\ meta' = [meta EXCEPT ![n].role = r]
         /\ pulling' = [pulling EXCEPT ![n] = r = "secondary"]
    /\ UNCHANGED <<gen, table, made, pend, token, members, selfKnown, conv,
                   promised, copied, events>>

----------------------------------------------------------------------------
ServerStep(n, k) ==
    \/ ReadTables(n, k) \/ ReadGeneration(n, k) \/ AttachViews(n, k)
    \/ k = "join" /\ (\/ JoinConsume(n) \/ EnsureSelfMember(n)
                      \/ InsertMember(n) \/ JoinBump(n))
    \/ k = "pull" /\ MemberAuth(n)

ClientStep(n, k) ==
    \/ ApplySnapshot(n, k) \/ ApplyViews(n, k)
    \/ k = "join" /\ AcceptJoin(n)
    \/ k = "pull" /\ Compare(n)

Next ==
    \E n \in Nodes :
      \/ \E t \in Tables : Write(n, t)
      \/ OIDCProvision(n) \/ Bump(n) \/ Pull(n) \/ Crash(n) \/ Restart(n)
      \/ \E k \in Tokens : \/ CreateJoinToken(n, k) /\ \E q \in Nodes : <<q, n>> \in Joins
                         \/ TokenExpires(n, k)
      \/ \E m \in members[n] : DeleteMember(n, m)
      \/ \E p \in {q \in Nodes : <<n, q>> \in Joins}, k \in Tokens : Connect(n, p, k)
      \/ \E k \in Kinds : ServerStep(n, k) \/ ClientStep(n, k) \/ Lose(n, k) \/ ApplyFails(n, k)

Spec == Init /\ [][Next]_vars

(* Handlers end, the pull loop ticks and a node that went down comes back. *)
Fairness ==
    \A n \in Nodes :
      /\ WF_vars(Bump(n)) /\ WF_vars(Pull(n)) /\ WF_vars(Restart(n))
      /\ \A k \in Kinds : WF_vars(ServerStep(n, k)) /\ WF_vars(ClientStep(n, k))

FairSpec == Spec /\ Fairness

----------------------------------------------------------------------------
(* Properties.                                                             *)

(* A join token admits one member, however often and by whomever it is     *)
(* presented, and whatever becomes of the answers (ConsumeJoinToken).      *)
TokenOnce ==
    \A n \in Nodes : \A m1, m2 \in members[n] : m1.tok = m2.tok => m1 = m2

(* The node has applied all of the snapshot its generation number is from. *)
AtGeneration(n) == role[n] = "secondary" /\ meta[n].url # None /\ copied[n] = gen[n]

Promised(n, t) ==
    \A c \in promised[meta[n].url] :
      c.g = gen[n] => \A x \in c.content[t] : x \in table[n][t]

(* A secondary at generation g, neither cut off in the middle of applying  *)
(* it nor bumped by a sign-in of its own, has every view the primary had   *)
(* when it called BumpGeneration for g: fullSnapshot reads the views after *)
(* the generation.                                                         *)
ViewsPromise == \A n \in Nodes : AtGeneration(n) => Promised(n, "views")

MemberOf(n, p) ==
    /\ role[n] = "secondary" /\ meta[n].url = p
    /\ \E m \in members[p] : m.id = meta[n].secret

(* A node that is and remains a member comes to the primary's generation,  *)
(* with every view promised for it, after any finite number of crashes,    *)
(* lost answers and failed transactions (pullLoop).  Of a node whose       *)
(* number is not from a snapshot applied to the end only the number is     *)
(* claimed: after a sign-in of its own, a join or a snapshot cut short by  *)
(* a crash, it is taken for up to date and the primary's change is never   *)
(* fetched, against "Secondaries replicate password/token hashes".         *)
CatchesUp ==
    \A n \in Nodes : \A p \in Nodes \ {n} :
      <>[]MemberOf(n, p)
        => <>[](/\ gen[n] >= gen[p]
                /\ AtGeneration(n) => gen[n] = gen[p] /\ Promised(n, "views"))

(* The part of a node's tables that is made of p's changes.                 *)
Of(p, n) == [t \in Tables |-> {c \in table[n][t] : c[1] = p}]
=============================================================================
