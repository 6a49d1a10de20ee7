------------------------- MODULE ClusterSyncProofs -------------------------
(***************************************************************************)
(* Theorems about ClusterSync: its types, the use of a join token, and     *)
(* that a node's copy of the configuration implements ConfigReplica.       *)
(***************************************************************************)
EXTENDS ClusterReplica, TLAPS

----------------------------------------------------------------------------
(* Types.  A conversation knows whom it is with, and a join its token.     *)

Addressed ==
    \A n \in Nodes : \A k \in Kinds :
      conv[n][k].pc # "idle" =>
        /\ conv[n][k].peer \in Nodes
        /\ k = "join" => conv[n][k].tok \in Tokens

TypeInv == TypeOK /\ Addressed

LEMMA ContentTyped ==
  ASSUME NEW c \in Content, NEW t \in Tables, NEW s \in SUBSET Changes
  PROVE  /\ [c EXCEPT ![t] = s] \in Content
         /\ c[t] \in SUBSET Changes
BY DEF Content

LEMMA NoContentTyped == NoContent \in Content
BY DEF NoContent, Content

LEMMA IdleTyped == Idle \in Convs
BY NoContentTyped DEF Idle, Convs

(* One conversation is replaced by another one, or gets a table of its     *)
(* snapshot.                                                               *)
Becomes(n, k, c) == conv' = [conv EXCEPT ![n][k] = c]

Fills(n, k, pc, t, s) == conv' = [conv EXCEPT ![n][k].pc = pc, ![n][k].snap[t] = s]

Filled(d, c, pc, t, s) ==
    /\ c.pc = pc /\ c.peer = d.peer /\ c.tok = d.tok /\ c.live = d.live
    /\ c.id = d.id /\ c.g = d.g
    /\ \A u \in Tables : c.snap[u] = IF u = t THEN s ELSE d.snap[u]

LEMMA ConvReplaced ==
  ASSUME TypeInv, NEW n \in Nodes, NEW k \in Kinds, NEW c \in Convs,
         Becomes(n, k, c),
         c.pc # "idle" => c.peer \in Nodes /\ (k = "join" => c.tok \in Tokens)
  PROVE  /\ conv' \in [Nodes -> [Kinds -> Convs]] /\ Addressed'
         /\ conv'[n][k] = c
         /\ \A m \in Nodes, j \in Kinds : m # n \/ j # k => conv'[m][j] = conv[m][j]
<1>1. conv \in [Nodes -> [Kinds -> Convs]] BY DEF TypeInv, TypeOK
<1>2. conv' \in [Nodes -> [Kinds -> Convs]] BY <1>1 DEF Becomes
<1>3. ASSUME NEW m \in Nodes, NEW j \in Kinds
      PROVE  conv'[m][j] = IF m = n /\ j = k THEN c ELSE conv[m][j]
  BY <1>1 DEF Becomes
<1>4. Addressed' BY <1>3 DEF Addressed, TypeInv
<1> QED BY <1>2, <1>3, <1>4

LEMMA ConvAt ==
  ASSUME TypeInv, NEW n \in Nodes, NEW k \in Kinds, NEW c,
         Becomes(n, k, c),
         NEW m \in Nodes, NEW j \in Kinds
  PROVE  conv'[m][j] = IF m = n /\ j = k THEN c ELSE conv[m][j]
<1>1. conv \in [Nodes -> [Kinds -> Convs]] BY DEF TypeInv, TypeOK
<1> QED BY <1>1 DEF Becomes

LEMMA InitTyped == Init => TypeInv
<1> SUFFICES ASSUME Init PROVE TypeInv OBVIOUS
<1>1. table \in [Nodes -> Content] BY NoContentTyped DEF Init
<1>2. conv \in [Nodes -> [Kinds -> Convs]] BY IdleTyped DEF Init
<1>3. meta \in [Nodes -> Metas]
  BY ClusterAssumption DEF Init, Metas, Roles
<1>4. Addressed BY DEF Init, Addressed, Idle
<1>5. role \in [Nodes -> Roles] /\ gen \in [Nodes -> Nat] /\ events \in 0 .. MaxEvents
  BY ClusterAssumption DEF Init
<1>6. /\ up \in [Nodes -> BOOLEAN] /\ made \in [Nodes -> Nat] /\ pend \in [Nodes -> Nat]
      /\ token \in [Nodes -> [Tokens -> {"none", "fresh", "used", "expired"}]]
      /\ members \in [Nodes -> SUBSET Members]
      /\ selfKnown \in [Nodes -> BOOLEAN] /\ pulling \in [Nodes -> BOOLEAN]
      /\ promised \in [Nodes -> SUBSET [g : Nat, content : Content]]
      /\ copied \in [Nodes -> Nat]
  BY DEF Init
<1> QED BY <1>1, <1>2, <1>3, <1>4, <1>5, <1>6 DEF TypeInv, TypeOK

(* The two writes of the store that many handlers share.                   *)
LEMMA AddChangeTyped ==
  ASSUME TypeInv, NEW n \in Nodes, NEW t \in Tables, AddChange(n, t)
  PROVE  made' \in [Nodes -> Nat] /\ table' \in [Nodes -> Content]
<1>1. made \in [Nodes -> Nat] /\ table \in [Nodes -> Content] BY DEF TypeInv, TypeOK
<1>2. <<n, made[n] + 1>> \in Changes BY <1>1 DEF Changes
<1>3. [table[n] EXCEPT ![t] = @ \cup {<<n, made[n] + 1>>}] \in Content
  <2>1. table[n][t] \cup {<<n, made[n] + 1>>} \in SUBSET Changes BY <1>1, <1>2 DEF Content
  <2> QED BY <1>1, <2>1 DEF Content
<1>4. table' = [table EXCEPT ![n] = [table[n] EXCEPT ![t] = @ \cup {<<n, made[n] + 1>>}]]
  BY DEF AddChange
<1> QED BY <1>1, <1>3, <1>4 DEF AddChange

LEMMA BumpTyped ==
  ASSUME TypeInv, NEW n \in Nodes, BumpGeneration(n)
  PROVE  /\ gen' \in [Nodes -> Nat]
         /\ promised' \in [Nodes -> SUBSET [g : Nat, content : Content]]
BY DEF TypeInv, TypeOK, BumpGeneration

LEMMA EventTyped ==
  ASSUME TypeInv, Event
  PROVE  events' \in 0 .. MaxEvents
BY ClusterAssumption DEF TypeInv, TypeOK, Event

(* What the three ways to move a conversation on make of it.               *)
LEMMA GotoTyped ==
  ASSUME TypeInv, NEW n \in Nodes, NEW k \in Kinds,
         NEW pc \in Answering \cup Asking, conv[n][k].pc # "idle", Goto(n, k, pc)
  PROVE  /\ conv' \in [Nodes -> [Kinds -> Convs]] /\ Addressed'
         /\ \E c \in Convs :
              /\ Becomes(n, k, c)
              /\ c.pc = pc /\ c.snap = conv[n][k].snap
              /\ c.peer = conv[n][k].peer /\ c.tok = conv[n][k].tok
              /\ c.live = conv[n][k].live /\ c.id = conv[n][k].id
              /\ c.g = conv[n][k].g
<1>1. conv[n][k] \in Convs BY DEF TypeInv, TypeOK
<1>2. PICK c : c = [conv[n][k] EXCEPT !.pc = pc] OBVIOUS
<1>3. /\ c \in Convs /\ c.pc = pc /\ c.snap = conv[n][k].snap
      /\ c.peer = conv[n][k].peer /\ c.tok = conv[n][k].tok
      /\ c.live = conv[n][k].live /\ c.id = conv[n][k].id /\ c.g = conv[n][k].g
  BY <1>1, <1>2 DEF Convs
<1>4. Becomes(n, k, c) BY <1>2 DEF Goto, Becomes
<1>5. c.peer \in Nodes /\ (k = "join" => c.tok \in Tokens) BY <1>3 DEF TypeInv, Addressed
<1>6. conv' \in [Nodes -> [Kinds -> Convs]] /\ Addressed' BY <1>3, <1>4, <1>5, ConvReplaced
<1> QED BY <1>3, <1>4, <1>6

LEMMA HangupTyped ==
  ASSUME TypeInv, NEW n \in Nodes, NEW k \in Kinds, Hangup(n, k)
  PROVE  /\ conv' \in [Nodes -> [Kinds -> Convs]] /\ Addressed'
         /\ Becomes(n, k, Idle)
<1>1. Becomes(n, k, Idle) BY DEF Hangup, Becomes
<1>2. Idle.pc = "idle" BY DEF Idle
<1> QED BY <1>1, <1>2, IdleTyped, ConvReplaced

(* A snapshot in a conversation gets a table.                              *)
LEMMA FilledTyped ==
  ASSUME TypeInv, NEW n \in Nodes, NEW k \in Kinds, NEW t \in Tables,
         NEW pc \in Answering \cup Asking, conv[n][k].pc # "idle",
         NEW s \in SUBSET Changes,
         Fills(n, k, pc, t, s)
  PROVE  /\ conv' \in [Nodes -> [Kinds -> Convs]] /\ Addressed'
         /\ \E c \in Convs : Becomes(n, k, c) /\ Filled(conv[n][k], c, pc, t, s)
<1>1. conv[n][k] \in Convs /\ conv \in [Nodes -> [Kinds -> Convs]] BY DEF TypeInv, TypeOK
<1>2. [conv[n][k].snap EXCEPT ![t] = s] \in Content BY <1>1, ContentTyped DEF Convs
<1>3. PICK c : c = [conv[n][k] EXCEPT !.pc = pc, !.snap = [conv[n][k].snap EXCEPT ![t] = s]]
  OBVIOUS
<1>4. c \in Convs /\ c.peer = conv[n][k].peer /\ c.tok = conv[n][k].tok
  BY <1>1, <1>2, <1>3 DEF Convs
<1>5. Becomes(n, k, c) BY <1>1, <1>3 DEF Convs, Becomes, Fills
<1>6. conv[n][k].peer \in Nodes /\ (k = "join" => conv[n][k].tok \in Tokens)
  BY DEF TypeInv, Addressed
<1>7. c.peer \in Nodes /\ (k = "join" => c.tok \in Tokens) BY <1>4, <1>6
<1>8. c \in Convs BY <1>4
<1>9. conv' \in [Nodes -> [Kinds -> Convs]] /\ Addressed'
  BY <1>5, <1>7, <1>8, ConvReplaced
<1>10. /\ c.pc = pc /\ c.snap = [conv[n][k].snap EXCEPT ![t] = s]
       /\ c.live = conv[n][k].live /\ c.id = conv[n][k].id /\ c.g = conv[n][k].g
  BY <1>1, <1>3 DEF Convs
<1>11. conv[n][k].snap \in Content BY <1>1 DEF Convs
<1>12. \A u \in Tables : c.snap[u] = IF u = t THEN s ELSE conv[n][k].snap[u]
  BY <1>10, <1>11 DEF Content
<1>13. Filled(conv[n][k], c, pc, t, s) BY <1>4, <1>10, <1>12 DEF Filled
<1> QED BY <1>4, <1>5, <1>9, <1>13

LEMMA CutTyped ==
  ASSUME NEW c \in Convs
  PROVE  /\ [c EXCEPT !.live = FALSE] \in Convs
         /\ [c EXCEPT !.live = FALSE].pc = c.pc
         /\ [c EXCEPT !.live = FALSE].peer = c.peer
         /\ [c EXCEPT !.live = FALSE].tok = c.tok
         /\ [c EXCEPT !.live = FALSE].snap = c.snap
         /\ [c EXCEPT !.live = FALSE].id = c.id
         /\ [c EXCEPT !.live = FALSE].g = c.g
BY DEF Convs

LEMMA CrashTyped ==
  ASSUME TypeInv, NEW n \in Nodes, Crash(n)
  PROVE  conv' \in [Nodes -> [Kinds -> Convs]] /\ Addressed'
<1>1. conv \in [Nodes -> [Kinds -> Convs]] BY DEF TypeInv, TypeOK
<1>2. conv' = [m \in Nodes |-> [k \in Kinds |-> AfterCrash(n, m, k)]] BY DEF Crash
<1>3. ASSUME NEW m \in Nodes, NEW k \in Kinds
      PROVE  /\ AfterCrash(n, m, k) \in {Idle, conv[m][k], [conv[m][k] EXCEPT !.live = FALSE]}
             /\ AfterCrash(n, m, k) \in Convs
  <2>1. AfterCrash(n, m, k) \in {Idle, conv[m][k], [conv[m][k] EXCEPT !.live = FALSE]}
    BY DEF AfterCrash
  <2> QED BY <1>1, <2>1, CutTyped, IdleTyped
<1>4. conv' \in [Nodes -> [Kinds -> Convs]] BY <1>2, <1>3
<1>5. ASSUME NEW m \in Nodes, NEW k \in Kinds, conv'[m][k].pc # "idle"
      PROVE  conv'[m][k].peer \in Nodes /\ (k = "join" => conv'[m][k].tok \in Tokens)
  <2>1. conv'[m][k] = AfterCrash(n, m, k) BY <1>2
  <2>2. Idle.pc = "idle" BY DEF Idle
  <2>3. conv[m][k] \in Convs BY <1>1
  <2>4. conv'[m][k] \in {conv[m][k], [conv[m][k] EXCEPT !.live = FALSE]}
    BY <1>3, <1>5, <2>1, <2>2
  <2>5. conv[m][k].pc # "idle" /\ conv'[m][k].peer = conv[m][k].peer
        /\ conv'[m][k].tok = conv[m][k].tok
    BY <1>5, <2>3, <2>4, CutTyped
  <2> QED BY <2>5 DEF TypeInv, Addressed
<1>6. Addressed' BY <1>5 DEF Addressed
<1> QED BY <1>4, <1>6

(* Every step keeps the types: of each action, the variables it writes.    *)
LEMMA TypeStep == TypeInv /\ [Next]_vars => TypeInv'
<1> SUFFICES ASSUME TypeInv, [Next]_vars PROVE TypeInv' OBVIOUS
<1> USE DEF Answering, Asking, Kinds, Tables
<1>0. TypeOK /\ Addressed BY DEF TypeInv
<1>1. ASSUME NEW n \in Nodes, NEW t \in Tables, Write(n, t) PROVE TypeInv'
  <2>1. AddChange(n, t) /\ Event BY <1>1 DEF Write
  <2>2. pend' \in [Nodes -> Nat] BY <1>0, <1>1 DEF TypeOK, Write
  <2>3. Addressed' BY <1>0, <1>1 DEF Addressed, Write
  <2> QED BY <1>0, <1>1, <2>1, <2>2, <2>3, AddChangeTyped, EventTyped DEF TypeInv, TypeOK, Write
<1>2. ASSUME NEW n \in Nodes, OIDCProvision(n) PROVE TypeInv'
  <2>1. AddChange(n, "users") /\ Event BY <1>2 DEF OIDCProvision
  <2>2. pend' \in [Nodes -> Nat] BY <1>0, <1>2 DEF TypeOK, OIDCProvision
  <2>3. Addressed' BY <1>0, <1>2 DEF Addressed, OIDCProvision
  <2> QED BY <1>0, <1>2, <2>1, <2>2, <2>3, AddChangeTyped, EventTyped
          DEF TypeInv, TypeOK, OIDCProvision
<1>3. ASSUME NEW n \in Nodes, Bump(n) PROVE TypeInv'
  <2>1. BumpGeneration(n) BY <1>3 DEF Bump
  <2>2. pend' \in [Nodes -> Nat] BY <1>0, <1>3 DEF TypeOK, Bump
  <2>3. Addressed' BY <1>0, <1>3 DEF Addressed, Bump
  <2> QED BY <1>0, <1>3, <2>1, <2>2, <2>3, BumpTyped DEF TypeInv, TypeOK, Bump
<1>4. ASSUME NEW n \in Nodes, Pull(n) PROVE TypeInv'
  <2>1. PICK c : c = [Idle EXCEPT !.pc = "auth", !.peer = meta[n].url, !.id = meta[n].secret]
    OBVIOUS
  <2>2. meta[n].url \in Nodes /\ meta[n].secret \in Nat BY <1>0, <1>4 DEF TypeOK, Metas, Pull
  <2>3. c \in Convs /\ c.peer \in Nodes BY <2>1, <2>2, IdleTyped DEF Convs
  <2>4. Becomes(n, "pull", c) BY <1>4, <2>1 DEF Pull, Becomes
  <2>5. conv' \in [Nodes -> [Kinds -> Convs]] /\ Addressed'
    BY <2>3, <2>4, ConvReplaced
  <2> QED BY <1>0, <1>4, <2>5 DEF TypeInv, TypeOK, Pull
<1>5. ASSUME NEW n \in Nodes, Crash(n) PROVE TypeInv'
  <2>1. Event BY <1>5 DEF Crash
  <2>2. /\ up' \in [Nodes -> BOOLEAN] /\ pulling' \in [Nodes -> BOOLEAN]
        /\ pend' \in [Nodes -> Nat]
    BY <1>0, <1>5 DEF TypeOK, Crash
  <2> QED BY <1>0, <1>5, <2>1, <2>2, CrashTyped, EventTyped DEF TypeInv, TypeOK, Crash
<1>6. ASSUME NEW n \in Nodes, Restart(n) PROVE TypeInv'
  <2> DEFINE r == IF meta[n].role = "secondary" THEN "secondary" ELSE StartRole[n]
  <2>1. r \in Roles BY ClusterAssumption DEF Roles
  <2>2. /\ up' = [up EXCEPT ![n] = TRUE] /\ role' = [role EXCEPT ![n] = r]
        /\ meta' = [meta EXCEPT ![n].role = r]
        /\ pulling' = [pulling EXCEPT ![n] = r = "secondary"]
    BY <1>6 DEF Restart
  <2> HIDE DEF r
  <2>3. (r = "secondary") \in BOOLEAN OBVIOUS
  <2>4. up' \in [Nodes -> BOOLEAN] /\ pulling' \in [Nodes -> BOOLEAN]
    BY <1>0, <2>2, <2>3 DEF TypeOK
  <2>5. role' \in [Nodes -> Roles] /\ meta' \in [Nodes -> Metas]
    BY <1>0, <2>1, <2>2 DEF TypeOK, Metas
  <2>6. Addressed' BY <1>0, <1>6 DEF Addressed, Restart
  <2> QED BY <1>0, <1>6, <2>4, <2>5, <2>6 DEF TypeInv, TypeOK, Restart
<1>7. ASSUME NEW n \in Nodes, NEW k \in Tokens, CreateJoinToken(n, k) \/ TokenExpires(n, k)
      PROVE TypeInv'
  <2>0. PICK x \in {"fresh", "expired"} : token' = [token EXCEPT ![n][k] = x]
    BY <1>7 DEF CreateJoinToken, TokenExpires
  <2>1. token' \in [Nodes -> [Tokens -> {"none", "fresh", "used", "expired"}]]
    BY <1>0, <2>0 DEF TypeOK
  <2>2. events' \in 0 .. MaxEvents
    BY <1>0, <1>7, EventTyped DEF TypeOK, CreateJoinToken, TokenExpires
  <2>3. Addressed' BY <1>0, <1>7 DEF Addressed, CreateJoinToken, TokenExpires
  <2> QED BY <1>0, <1>7, <2>1, <2>2, <2>3 DEF TypeInv, TypeOK, CreateJoinToken, TokenExpires
<1>8. ASSUME NEW n \in Nodes, NEW m \in members[n], DeleteMember(n, m) PROVE TypeInv'
  <2>1. AddChange(n, "users") /\ Event BY <1>8 DEF DeleteMember
  <2>2. pend' \in [Nodes -> Nat] /\ members' \in [Nodes -> SUBSET Members]
    BY <1>0, <1>8 DEF TypeOK, DeleteMember
  <2>3. Addressed' BY <1>0, <1>8 DEF Addressed, DeleteMember
  <2> QED BY <1>0, <1>8, <2>1, <2>2, <2>3, AddChangeTyped, EventTyped
          DEF TypeInv, TypeOK, DeleteMember
<1>9. ASSUME NEW n \in Nodes, NEW p \in Nodes, NEW k \in Tokens, Connect(n, p, k) PROVE TypeInv'
  <2>1. PICK c : c = [Idle EXCEPT !.pc = "consume", !.peer = p, !.tok = k] OBVIOUS
  <2>2. c \in Convs /\ c.peer \in Nodes /\ c.tok \in Tokens BY <2>1, IdleTyped DEF Convs
  <2>3. Becomes(n, "join", c) BY <1>9, <2>1 DEF Connect, Becomes
  <2>4. conv' \in [Nodes -> [Kinds -> Convs]] /\ Addressed' BY <2>2, <2>3, ConvReplaced
  <2> QED BY <1>0, <1>9, <2>4 DEF TypeInv, TypeOK, Connect
<1>10. ASSUME NEW n \in Nodes, JoinConsume(n) PROVE TypeInv'
  <2>1. conv' \in [Nodes -> [Kinds -> Convs]] /\ Addressed'
    <3>1. CASE Hangup(n, "join") BY <3>1, HangupTyped
    <3>2. CASE Goto(n, "join", IF selfKnown[conv[n]["join"].peer] THEN "member" ELSE "self")
      BY <1>10, <3>2, GotoTyped DEF JoinConsume, Serving
    <3> QED BY <1>10, <3>1, <3>2 DEF JoinConsume
  <2>2. token' \in [Nodes -> [Tokens -> {"none", "fresh", "used", "expired"}]]
    <3>1. PICK q, k : \/ token' = token
                      \/ token' = [token EXCEPT ![q][k] = "used"]
      BY <1>10 DEF JoinConsume
    <3>2. CASE token' = token BY <1>0, <3>2 DEF TypeOK
    <3>3. CASE token' = [token EXCEPT ![q][k] = "used"] BY <1>0, <3>3 DEF TypeOK
    <3> QED BY <3>1, <3>2, <3>3
  <2> QED BY <1>0, <1>10, <2>1, <2>2 DEF TypeInv, TypeOK, JoinConsume
<1>11. ASSUME NEW n \in Nodes, EnsureSelfMember(n) PROVE TypeInv'
  <2>1. conv[n]["join"].pc = "self" /\ conv[n]["join"].peer \in Nodes
    BY <1>0, <1>11 DEF Addressed, EnsureSelfMember, Serving
  <2>2. conv' \in [Nodes -> [Kinds -> Convs]] /\ Addressed'
    BY <1>11, <2>1, GotoTyped DEF EnsureSelfMember
  <2>3. AddChange(conv[n]["join"].peer, "users") BY <1>11 DEF EnsureSelfMember
  <2>4. selfKnown' \in [Nodes -> BOOLEAN] BY <1>0, <1>11 DEF TypeOK, EnsureSelfMember
  <2> QED BY <1>0, <1>11, <2>1, <2>2, <2>3, <2>4, AddChangeTyped
          DEF TypeInv, TypeOK, EnsureSelfMember
<1>12. ASSUME NEW n \in Nodes, InsertMember(n) PROVE TypeInv'
  <2> DEFINE p == conv[n]["join"].peer
  <2>1. /\ conv[n]["join"].pc = "member" /\ p \in Nodes /\ conv[n]["join"].tok \in Tokens
        /\ conv[n]["join"] \in Convs /\ made[p] + 1 \in Nat
    BY <1>0, <1>12 DEF Addressed, InsertMember, Serving, TypeOK
  <2>2. PICK c : c = [conv[n]["join"] EXCEPT !.pc = "bump", !.id = made[p] + 1] OBVIOUS
  <2>3. c \in Convs /\ c.peer = conv[n]["join"].peer /\ c.tok = conv[n]["join"].tok
    BY <2>1, <2>2 DEF Convs
  <2>4. Becomes(n, "join", c)
    <3>1. conv' = [conv EXCEPT ![n]["join"].pc = "bump", ![n]["join"].id = made[p] + 1]
      BY <1>12 DEF InsertMember
    <3>2. conv \in [Nodes -> [Kinds -> Convs]] BY <1>0 DEF TypeOK
    <3> HIDE DEF p
    <3> QED BY <2>2, <3>1, <3>2 DEF Convs, Becomes
  <2>5. c.peer \in Nodes /\ c.tok \in Tokens /\ c \in Convs BY <2>1, <2>3
  <2>6. conv' \in [Nodes -> [Kinds -> Convs]] /\ Addressed' BY <2>4, <2>5, ConvReplaced
  <2>7. [id |-> made[p] + 1, tok |-> conv[n]["join"].tok] \in Members BY <2>1 DEF Members
  <2>8. members' \in [Nodes -> SUBSET Members] BY <1>0, <1>12, <2>7 DEF TypeOK, InsertMember
  <2>9. AddChange(p, "users") BY <1>12 DEF InsertMember
  <2> HIDE DEF p
  <2> QED BY <1>0, <1>12, <2>1, <2>6, <2>8, <2>9, AddChangeTyped
          DEF TypeInv, TypeOK, InsertMember
<1>13. ASSUME NEW n \in Nodes, JoinBump(n) PROVE TypeInv'
  <2>1. conv[n]["join"].pc # "idle" /\ conv[n]["join"].peer \in Nodes
    BY <1>0, <1>13 DEF Addressed, JoinBump, Serving
  <2>2. conv' \in [Nodes -> [Kinds -> Convs]] /\ Addressed'
    BY <1>13, <2>1, GotoTyped DEF JoinBump
  <2>3. BumpGeneration(conv[n]["join"].peer) BY <1>13 DEF JoinBump
  <2> QED BY <1>0, <1>13, <2>1, <2>2, <2>3, BumpTyped DEF TypeInv, TypeOK, JoinBump
<1>14. ASSUME NEW n \in Nodes, MemberAuth(n) PROVE TypeInv'
  <2>1. conv' \in [Nodes -> [Kinds -> Convs]] /\ Addressed'
    BY <1>14, GotoTyped, HangupTyped DEF MemberAuth, Serving
  <2> QED BY <1>0, <1>14, <2>1 DEF TypeInv, TypeOK, MemberAuth
<1>15. ASSUME NEW n \in Nodes, NEW k \in Kinds, ReadTables(n, k) PROVE TypeInv'
  <2>1. conv[n][k].pc # "idle" /\ conv[n][k].peer \in Nodes
    BY <1>0, <1>15 DEF Addressed, ReadTables, Serving
  <2>2. table[conv[n][k].peer]["users"] \in SUBSET Changes BY <1>0, <2>1 DEF TypeOK, Content
  <2>3. conv' \in [Nodes -> [Kinds -> Convs]] /\ Addressed'
    <3>1. Fills(n, k, "gen", "users", table[conv[n][k].peer]["users"])
      BY <1>15 DEF ReadTables, Fills
    <3>2. "gen" \in Answering \cup Asking /\ "users" \in Tables OBVIOUS
    <3> HIDE DEF Answering, Asking, Kinds, Tables
    <3> QED BY <2>1, <2>2, <3>1, <3>2, FilledTyped
  <2> QED BY <1>0, <1>15, <2>3 DEF TypeInv, TypeOK, ReadTables
<1>16. ASSUME NEW n \in Nodes, NEW k \in Kinds, ReadGeneration(n, k) PROVE TypeInv'
  <2>1. /\ conv[n][k].pc # "idle" /\ conv[n][k].peer \in Nodes /\ conv[n][k] \in Convs
        /\ k = "join" => conv[n][k].tok \in Tokens
    BY <1>0, <1>16 DEF Addressed, ReadGeneration, Serving, TypeOK
  <2>2. PICK c : c = [conv[n][k] EXCEPT !.pc = "views", !.g = gen[conv[n][k].peer]] OBVIOUS
  <2>3. c \in Convs /\ c.peer = conv[n][k].peer /\ c.tok = conv[n][k].tok
    BY <1>0, <2>1, <2>2 DEF Convs, TypeOK
  <2>4. Becomes(n, k, c)
    BY <1>0, <1>16, <2>2 DEF ReadGeneration, Convs, TypeOK, Becomes
  <2>5. c.peer \in Nodes /\ (k = "join" => c.tok \in Tokens) /\ c \in Convs BY <2>1, <2>3
  <2>6. conv' \in [Nodes -> [Kinds -> Convs]] /\ Addressed' BY <2>4, <2>5, ConvReplaced
  <2> QED BY <1>0, <1>16, <2>6 DEF TypeInv, TypeOK, ReadGeneration
<1>17. ASSUME NEW n \in Nodes, NEW k \in Kinds, AttachViews(n, k) PROVE TypeInv'
  <2>1. conv[n][k].pc # "idle" /\ conv[n][k].peer \in Nodes
    BY <1>0, <1>17 DEF Addressed, AttachViews, Serving
  <2>2. table[conv[n][k].peer]["views"] \in SUBSET Changes BY <1>0, <2>1 DEF TypeOK, Content
  <2>3. (IF k = "join" THEN "answer" ELSE "compare") \in Answering \cup Asking OBVIOUS
  <2>4. conv' \in [Nodes -> [Kinds -> Convs]] /\ Addressed'
    <3>1. CASE Hangup(n, k) BY <3>1, HangupTyped
    <3>2. CASE Fills(n, k, IF k = "join" THEN "answer" ELSE "compare", "views",
                     table[conv[n][k].peer]["views"])
      <4>1. "views" \in Tables OBVIOUS
      <4> HIDE DEF Answering, Asking, Kinds, Tables
      <4> QED BY <2>1, <2>2, <2>3, <3>2, <4>1, FilledTyped
    <3> QED BY <1>17, <3>1, <3>2 DEF AttachViews, Fills
  <2> QED BY <1>0, <1>17, <2>4 DEF TypeInv, TypeOK, AttachViews
<1>18. ASSUME NEW n \in Nodes, AcceptJoin(n) PROVE TypeInv'
  <2>1. conv' \in [Nodes -> [Kinds -> Convs]] /\ Addressed'
    BY <1>18, GotoTyped DEF AcceptJoin, At
  <2>2. conv[n]["join"].id \in Nat /\ conv[n]["join"].peer \in Nodes \cup {None}
    BY <1>0 DEF TypeOK, Convs
  <2>3. meta' \in [Nodes -> Metas]
    <3>1. PICK m : m = meta[n] OBVIOUS
    <3>2. m \in Metas BY <1>0, <3>1 DEF TypeOK
    <3>3. /\ [m EXCEPT !.cluster = TRUE] \in Metas
          /\ [m EXCEPT !.role = "secondary"] \in Metas
          /\ \A x \in Nat : [m EXCEPT !.secret = x] \in Metas
          /\ \A x \in Nodes \cup {None} : [m EXCEPT !.url = x] \in Metas
      BY <3>2 DEF Metas, Roles
    <3>4. PICK d \in Metas : meta' = [meta EXCEPT ![n] = d]
      BY <1>18, <2>2, <3>1, <3>3 DEF AcceptJoin
    <3> QED BY <1>0, <3>4 DEF TypeOK
  <2>4. role' \in [Nodes -> Roles] BY <1>0, <1>18 DEF TypeOK, AcceptJoin, Roles
  <2> QED BY <1>0, <1>18, <2>1, <2>3, <2>4 DEF TypeInv, TypeOK, AcceptJoin
<1>19. ASSUME NEW n \in Nodes, Compare(n) PROVE TypeInv'
  <2>1. conv' \in [Nodes -> [Kinds -> Convs]] /\ Addressed'
    BY <1>19, GotoTyped, HangupTyped DEF Compare, At
  <2> QED BY <1>0, <1>19, <2>1 DEF TypeInv, TypeOK, Compare
<1>20. ASSUME NEW n \in Nodes, NEW k \in Kinds, ApplySnapshot(n, k) PROVE TypeInv'
  <2>1. conv' \in [Nodes -> [Kinds -> Convs]] /\ Addressed'
    BY <1>20, GotoTyped DEF ApplySnapshot, At
  <2>2. conv[n][k].g \in Nat /\ conv[n][k].snap["users"] \in SUBSET Changes
    BY <1>0 DEF TypeOK, Convs, Content
  <2>3. table' \in [Nodes -> Content]
    BY <1>0, <1>20, <2>2 DEF TypeOK, ApplySnapshot, Content
  <2>4. gen' \in [Nodes -> Nat] /\ members' \in [Nodes -> SUBSET Members]
    BY <1>0, <1>20, <2>2 DEF TypeOK, ApplySnapshot
  <2> QED BY <1>0, <1>20, <2>1, <2>3, <2>4 DEF TypeInv, TypeOK, ApplySnapshot
<1>21. ASSUME NEW n \in Nodes, NEW k \in Kinds, ApplyViews(n, k) PROVE TypeInv'
  <2>1. conv' \in [Nodes -> [Kinds -> Convs]] /\ Addressed'
    BY <1>21, HangupTyped DEF ApplyViews
  <2>2. conv[n][k].g \in Nat /\ table[n]["views"] \cup conv[n][k].snap["views"] \in SUBSET Changes
    BY <1>0 DEF TypeOK, Convs, Content
  <2>3. table' \in [Nodes -> Content]
    BY <1>0, <1>21, <2>2 DEF TypeOK, ApplyViews, Content
  <2>4. copied' \in [Nodes -> Nat] /\ pulling' \in [Nodes -> BOOLEAN]
    BY <1>0, <1>21, <2>2 DEF TypeOK, ApplyViews
  <2> QED BY <1>0, <1>21, <2>1, <2>3, <2>4 DEF TypeInv, TypeOK, ApplyViews
<1>22. ASSUME NEW n \in Nodes, NEW k \in Kinds, Lose(n, k) PROVE TypeInv'
  <2>1. conv[n][k] \in Convs /\ conv[n][k].pc # "idle" BY <1>0, <1>22 DEF TypeOK, Lose
  <2>2. PICK c : c = [conv[n][k] EXCEPT !.live = FALSE] OBVIOUS
  <2>3. c \in Convs /\ c.peer = conv[n][k].peer /\ c.tok = conv[n][k].tok BY <2>1, <2>2, CutTyped
  <2>4. Becomes(n, k, c) BY <1>22, <2>2 DEF Lose, Becomes
  <2>5. c.peer \in Nodes /\ (k = "join" => c.tok \in Tokens) /\ c \in Convs
    BY <1>0, <2>1, <2>3 DEF Addressed
  <2>6. conv' \in [Nodes -> [Kinds -> Convs]] /\ Addressed' BY <2>4, <2>5, ConvReplaced
  <2>7. Event BY <1>22 DEF Lose
  <2> QED BY <1>0, <1>22, <2>6, <2>7, EventTyped DEF TypeInv, TypeOK, Lose
<1>23. ASSUME NEW n \in Nodes, NEW k \in Kinds, ApplyFails(n, k) PROVE TypeInv'
  <2>1. conv' \in [Nodes -> [Kinds -> Convs]] /\ Addressed'
    BY <1>23, HangupTyped DEF ApplyFails
  <2>2. Event BY <1>23 DEF ApplyFails
  <2>3. pulling' \in [Nodes -> BOOLEAN] BY <1>0, <1>23 DEF TypeOK, ApplyFails
  <2> QED BY <1>0, <1>23, <2>1, <2>2, <2>3, EventTyped DEF TypeInv, TypeOK, ApplyFails
<1>24. CASE UNCHANGED vars BY <1>0, <1>24 DEF TypeInv, TypeOK, Addressed, vars
<1> QED
  BY <1>1, <1>2, <1>3, <1>4, <1>5, <1>6, <1>7, <1>8, <1>9, <1>10, <1>11, <1>12, <1>13,
     <1>14, <1>15, <1>16, <1>17, <1>18, <1>19, <1>20, <1>21, <1>22, <1>23, <1>24
  DEF Next, ServerStep, ClientStep

LEMMA TypeInvariant == Spec => []TypeInv
BY InitTyped, TypeStep, PTL DEF Spec

(* The tables, the tokens, the members and the conversations keep their    *)
(* types: no bump is made that no change asks for, and no conversation     *)
(* leaves the handlers' stages.                                            *)
THEOREM TypeCorrect == Spec => []TypeOK
<1>1. TypeInv => TypeOK BY DEF TypeInv
<1> QED BY <1>1, TypeInvariant, PTL

----------------------------------------------------------------------------
(* Join tokens.  Between the two writes of handleClusterJoin, the token's  *)
(* and the member's, the token is nobody else's.                           *)

Admitting(q) == conv[q]["join"].pc \in {"self", "selfbump", "member"}

UsedByMembers == \A n \in Nodes : \A m \in members[n] : token[n][m.tok] = "used"

HeldByJoins ==
    \A q \in Nodes :
      LET c == conv[q]["join"] IN
        Admitting(q) => /\ token[c.peer][c.tok] = "used"
                        /\ \A m \in members[c.peer] : m.tok # c.tok

HeldOnce ==
    \A q, r \in Nodes :
      /\ Admitting(q) /\ Admitting(r)
      /\ conv[q]["join"].peer = conv[r]["join"].peer
      /\ conv[q]["join"].tok = conv[r]["join"].tok
      => q = r

TokenInv == TypeInv /\ TokenOnce /\ UsedByMembers /\ HeldByJoins /\ HeldOnce

(* A step that admits nobody and frees no token.                           *)
LEMMA QuietStep ==
  ASSUME TokenInv, TypeInv',
         \A n \in Nodes : members'[n] \subseteq members[n],
         \A n \in Nodes, k \in Tokens : token[n][k] = "used" => token'[n][k] = "used",
         \A q \in Nodes : Admitting(q)' =>
           /\ Admitting(q)
           /\ conv'[q]["join"].peer = conv[q]["join"].peer
           /\ conv'[q]["join"].tok = conv[q]["join"].tok
  PROVE  TokenInv'
<1>1. members \in [Nodes -> SUBSET Members] BY DEF TokenInv, TypeInv, TypeOK
<1>2. ASSUME NEW n \in Nodes, NEW m \in members[n] PROVE m.tok \in Tokens
  BY <1>1 DEF Members
<1>3. ASSUME NEW q \in Nodes, Admitting(q)
      PROVE  conv[q]["join"].peer \in Nodes /\ conv[q]["join"].tok \in Tokens
  BY <1>3 DEF TokenInv, TypeInv, Addressed, Admitting, Kinds
<1>4. TokenOnce' BY DEF TokenInv, TokenOnce
<1>5. UsedByMembers' BY <1>2 DEF TokenInv, UsedByMembers
<1>6. HeldByJoins' BY <1>3 DEF TokenInv, HeldByJoins
<1>7. HeldOnce' BY DEF TokenInv, HeldOnce
<1> QED BY <1>4, <1>5, <1>6, <1>7 DEF TokenInv

(* The same for a step that replaces one conversation and no more.         *)
LEMMA QuietConv ==
  ASSUME TokenInv, TypeInv', NEW n \in Nodes, NEW k \in Kinds, NEW c,
         Becomes(n, k, c),
         \A q \in Nodes : members'[q] \subseteq members[q], token' = token,
         \/ c.pc \notin {"self", "selfbump", "member"}
         \/ /\ conv[n][k].pc \in {"self", "selfbump", "member"}
            /\ c.peer = conv[n][k].peer /\ c.tok = conv[n][k].tok
  PROVE  TokenInv'
<1>1. "join" \in Kinds BY DEF Kinds
<1>2. TypeInv BY DEF TokenInv
<1>3. ASSUME NEW q \in Nodes
      PROVE  conv'[q]["join"] = IF q = n /\ "join" = k THEN c ELSE conv[q]["join"]
  BY <1>1, <1>2, ConvAt
<1>4. ASSUME NEW q \in Nodes, Admitting(q)'
      PROVE  /\ Admitting(q)
             /\ conv'[q]["join"].peer = conv[q]["join"].peer
             /\ conv'[q]["join"].tok = conv[q]["join"].tok
  BY <1>3, <1>4 DEF Admitting
<1> QED BY <1>4, QuietStep

LEMMA TokenStep == TokenInv /\ [Next]_vars => TokenInv'
<1> SUFFICES ASSUME TokenInv, [Next]_vars PROVE TokenInv' OBVIOUS
<1> USE DEF Kinds
<1>0. TypeInv /\ TypeInv' /\ conv \in [Nodes -> [Kinds -> Convs]]
  BY TypeStep DEF TokenInv, TypeInv, TypeOK
<1>1. ASSUME conv' = conv, \A n \in Nodes : members'[n] \subseteq members[n], token' = token
      PROVE  TokenInv'
  BY <1>0, <1>1, QuietStep DEF Admitting
<1>2. ASSUME NEW n \in Nodes,
             \/ \E t \in Tables : Write(n, t)
             \/ OIDCProvision(n) \/ Bump(n) \/ Restart(n)
             \/ \E m \in members[n] : DeleteMember(n, m)
      PROVE  TokenInv'
  <2>1. conv' = conv /\ token' = token
    BY <1>2 DEF Write, OIDCProvision, Bump, Restart, DeleteMember
  <2>2. PICK d : members' = members \/ members' = [members EXCEPT ![n] = @ \ d]
    BY <1>2 DEF Write, OIDCProvision, Bump, Restart, DeleteMember
  <2>3. members \in [Nodes -> SUBSET Members] BY <1>0 DEF TypeInv, TypeOK
  <2>4. \A q \in Nodes : members'[q] \subseteq members[q] BY <2>2, <2>3
  <2> QED BY <1>1, <2>1, <2>4
<1>3. ASSUME NEW n \in Nodes, NEW k \in Tokens, CreateJoinToken(n, k) \/ TokenExpires(n, k)
      PROVE  TokenInv'
  <2>0. token \in [Nodes -> [Tokens -> {"none", "fresh", "used", "expired"}]]
    BY <1>0 DEF TypeInv, TypeOK
  <2>1. PICK x : token' = [token EXCEPT ![n][k] = x]
    BY <1>3 DEF CreateJoinToken, TokenExpires
  <2>2. token[n][k] # "used" BY <1>3 DEF CreateJoinToken, TokenExpires
  <2>3. \A p \in Nodes, j \in Tokens : token[p][j] = "used" => token'[p][j] = "used"
    BY <2>0, <2>1, <2>2
  <2>4. conv' = conv /\ members' = members BY <1>3 DEF CreateJoinToken, TokenExpires
  <2> QED BY <1>0, <2>3, <2>4, QuietStep DEF Admitting
<1>4. ASSUME NEW n \in Nodes, Pull(n) \/ \E p \in Nodes, k \in Tokens : Connect(n, p, k)
      PROVE  TokenInv'
  <2>1. token' = token /\ members' = members BY <1>4 DEF Pull, Connect
  <2>2. ASSUME Pull(n) PROVE TokenInv'
    <3>1. PICK c : c = [Idle EXCEPT !.pc = "auth", !.peer = meta[n].url, !.id = meta[n].secret]
      OBVIOUS
    <3>2. c.pc = "auth" BY <3>1 DEF Idle
    <3>3. Becomes(n, "pull", c) BY <2>2, <3>1 DEF Pull, Becomes
    <3> QED BY <1>0, <2>1, <3>2, <3>3, QuietConv
  <2>3. ASSUME NEW p \in Nodes, NEW k \in Tokens, Connect(n, p, k) PROVE TokenInv'
    <3>1. PICK c : c = [Idle EXCEPT !.pc = "consume", !.peer = p, !.tok = k] OBVIOUS
    <3>2. c.pc = "consume" BY <3>1 DEF Idle
    <3>3. Becomes(n, "join", c) BY <2>3, <3>1 DEF Connect, Becomes
    <3> QED BY <1>0, <2>1, <3>2, <3>3, QuietConv
  <2> QED BY <1>4, <2>2, <2>3
<1>5. ASSUME NEW n \in Nodes, Crash(n) PROVE TokenInv'
  <2>1. ASSUME NEW q \in Nodes, Admitting(q)'
        PROVE  /\ Admitting(q)
               /\ conv'[q]["join"].peer = conv[q]["join"].peer
               /\ conv'[q]["join"].tok = conv[q]["join"].tok
    <3>1. conv'[q]["join"] = AfterCrash(n, q, "join") BY <1>5 DEF Crash
    <3>2. AfterCrash(n, q, "join")
            \in {Idle, conv[q]["join"], [conv[q]["join"] EXCEPT !.live = FALSE]}
      BY DEF AfterCrash
    <3>3. Idle.pc = "idle" BY DEF Idle
    <3>4. conv'[q]["join"].pc # "idle" BY <2>1 DEF Admitting
    <3>5. conv'[q]["join"] \in {conv[q]["join"], [conv[q]["join"] EXCEPT !.live = FALSE]}
      BY <3>1, <3>2, <3>3, <3>4
    <3>6. conv[q]["join"] \in Convs BY <1>0
    <3> QED BY <2>1, <3>5, <3>6, CutTyped DEF Admitting
  <2>2. token' = token /\ members' = members BY <1>5 DEF Crash
  <2> QED BY <1>0, <2>1, <2>2, QuietStep
<1>6. ASSUME NEW n \in Nodes, NEW k \in Kinds, NEW pc \in Answering \cup Asking,
             Goto(n, k, pc), conv[n][k].pc # "idle", token' = token,
             \A q \in Nodes : members'[q] \subseteq members[q],
             \/ pc \notin {"self", "selfbump", "member"}
             \/ conv[n][k].pc \in {"self", "selfbump", "member"}
      PROVE  TokenInv'
  <2>1. PICK c \in Convs : /\ Becomes(n, k, c)
                           /\ c.pc = pc /\ c.peer = conv[n][k].peer /\ c.tok = conv[n][k].tok
    <3> HIDE DEF Kinds
    <3> QED BY <1>0, <1>6, GotoTyped
  <2> QED BY <1>0, <1>6, <2>1, QuietConv
<1>7. ASSUME NEW n \in Nodes, NEW k \in Kinds, Hangup(n, k), token' = token, members' = members
      PROVE  TokenInv'
  <2>1. Idle.pc = "idle" BY DEF Idle
  <2> QED BY <1>0, <1>7, <2>1, QuietConv, HangupTyped
<1>8. ASSUME NEW n \in Nodes, JoinConsume(n) PROVE TokenInv'
  <2>1. PICK p, k : p = conv[n]["join"].peer /\ k = conv[n]["join"].tok OBVIOUS
  <2>2. conv[n]["join"].pc = "consume" /\ p \in Nodes /\ k \in Tokens /\ members' = members
    BY <1>0, <1>8, <2>1 DEF JoinConsume, Serving, TypeInv, Addressed
  <2>3. CASE Hangup(n, "join") /\ token' = token BY <1>7, <2>2, <2>3
  <2>4. CASE /\ token[p][k] = "fresh" /\ token' = [token EXCEPT ![p][k] = "used"]
             /\ Goto(n, "join", IF selfKnown[p] THEN "member" ELSE "self")
    <3>1. PICK c : c = [conv[n]["join"] EXCEPT !.pc = IF selfKnown[p] THEN "member" ELSE "self"]
      OBVIOUS
    <3>2. c.peer = p /\ c.tok = k BY <1>0, <2>1, <3>1 DEF Convs
    <3>3. Becomes(n, "join", c) BY <2>4, <3>1 DEF Goto, Becomes
    <3>4. ASSUME NEW q \in Nodes
          PROVE  conv'[q]["join"] = IF q = n THEN c ELSE conv[q]["join"]
      BY <1>0, <3>3 DEF Becomes
    <3>5. ASSUME NEW q \in Nodes, Admitting(q)', q # n PROVE Admitting(q)
      BY <3>4, <3>5 DEF Admitting
    <3>6. /\ token \in [Nodes -> [Tokens -> {"none", "fresh", "used", "expired"}]]
          /\ members \in [Nodes -> SUBSET Members]
      BY <1>0 DEF TypeInv, TypeOK
    <3>7. \A q \in Nodes, j \in Tokens :
            token'[q][j] = IF q = p /\ j = k THEN "used" ELSE token[q][j]
      BY <2>2, <2>4, <3>6
    <3>8. UsedByMembers'
      <4> SUFFICES ASSUME NEW q \in Nodes, NEW m \in members'[q]
                   PROVE  token'[q][m.tok] = "used"
        BY DEF UsedByMembers
      <4>1. m \in members[q] /\ m.tok \in Tokens BY <2>2, <3>6 DEF Members
      <4>2. token[q][m.tok] = "used" BY <4>1 DEF TokenInv, UsedByMembers
      <4> QED BY <3>7, <4>1, <4>2
    <3>9. \A m \in members[p] : m.tok # k
      BY <2>2, <2>4 DEF TokenInv, UsedByMembers
    <3>10. ASSUME NEW q \in Nodes, Admitting(q)
           PROVE  /\ conv[q]["join"].peer \in Nodes /\ conv[q]["join"].tok \in Tokens
                  /\ token[conv[q]["join"].peer][conv[q]["join"].tok] = "used"
                  /\ \A m \in members[conv[q]["join"].peer] : m.tok # conv[q]["join"].tok
      BY <1>0, <3>10 DEF TokenInv, HeldByJoins, TypeInv, Addressed, Admitting
    <3>11. HeldByJoins'
      <4> SUFFICES ASSUME NEW q \in Nodes, Admitting(q)'
                   PROVE  /\ token'[conv'[q]["join"].peer][conv'[q]["join"].tok] = "used"
                          /\ \A m \in members'[conv'[q]["join"].peer] :
                               m.tok # conv'[q]["join"].tok
        BY DEF HeldByJoins
      <4>1. CASE q = n BY <2>2, <3>2, <3>4, <3>7, <3>9, <4>1
      <4>2. CASE q # n BY <2>2, <3>4, <3>5, <3>7, <3>10, <4>2
      <4> QED BY <4>1, <4>2
    <3>12. HeldOnce'
      <4> SUFFICES ASSUME NEW q \in Nodes, NEW r \in Nodes, Admitting(q)', Admitting(r)',
                          conv'[q]["join"].peer = conv'[r]["join"].peer,
                          conv'[q]["join"].tok = conv'[r]["join"].tok, q # r
                   PROVE  FALSE
        BY DEF HeldOnce
      <4>1. CASE q = n
        BY <2>2, <2>4, <3>2, <3>4, <3>5, <3>10, <4>1
      <4>2. CASE r = n
        BY <2>2, <2>4, <3>2, <3>4, <3>5, <3>10, <4>2
      <4>3. CASE q # n /\ r # n BY <3>4, <3>5, <4>3 DEF TokenInv, HeldOnce
      <4> QED BY <4>1, <4>2, <4>3
    <3>13. TokenOnce' BY <2>2 DEF TokenInv, TokenOnce
    <3> QED BY <1>0, <3>8, <3>11, <3>12, <3>13 DEF TokenInv
  <2> QED BY <1>8, <2>1, <2>3, <2>4 DEF JoinConsume, ConsumeJoinToken
<1>9. ASSUME NEW n \in Nodes, InsertMember(n) PROVE TokenInv'
  <2>1. PICK p, k : p = conv[n]["join"].peer /\ k = conv[n]["join"].tok OBVIOUS
  <2>2. /\ conv[n]["join"].pc = "member" /\ p \in Nodes /\ k \in Tokens /\ token' = token
        /\ Admitting(n)
    BY <1>0, <1>9, <2>1 DEF InsertMember, Serving, TypeInv, Addressed, Admitting
  <2>3. PICK e : e = [id |-> made[p] + 1, tok |-> k] OBVIOUS
  <2>4. members' = [members EXCEPT ![p] = @ \cup {e}] BY <1>9, <2>1, <2>3 DEF InsertMember
  <2>5. members \in [Nodes -> SUBSET Members] BY <1>0 DEF TypeInv, TypeOK
  <2>6. \A q \in Nodes : members'[q] = IF q = p THEN members[q] \cup {e} ELSE members[q]
    BY <2>4, <2>5
  <2>7. e.tok = k BY <2>3
  <2>8. token[p][k] = "used" /\ \A m \in members[p] : m.tok # k
    BY <2>1, <2>2 DEF TokenInv, HeldByJoins
  <2>9. ASSUME NEW q \in Nodes
        PROVE  /\ q # n => conv'[q]["join"] = conv[q]["join"]
               /\ q = n => ~Admitting(q)'
    <3>1. conv' = [conv EXCEPT ![n]["join"].pc = "bump", ![n]["join"].id = made[p] + 1]
      BY <1>9, <2>1 DEF InsertMember
    <3>2. q = n => conv'[q]["join"].pc = "bump" BY <1>0, <3>1 DEF Convs
    <3> QED BY <1>0, <3>1, <3>2 DEF Admitting
  <2>10. TokenOnce'
    <3> SUFFICES ASSUME NEW q \in Nodes, NEW m1 \in members'[q], NEW m2 \in members'[q],
                        m1.tok = m2.tok
                 PROVE  m1 = m2
      BY DEF TokenOnce
    <3>1. TokenOnce BY DEF TokenInv
    <3>2. CASE q # p BY <2>6, <3>1, <3>2 DEF TokenOnce
    <3>3. CASE q = p
      <4>1. m1 \in members[p] \cup {e} /\ m2 \in members[p] \cup {e} BY <2>6, <3>3
      <4>2. CASE m1 = e \/ m2 = e BY <2>7, <2>8, <4>1, <4>2
      <4>3. CASE m1 \in members[p] /\ m2 \in members[p] BY <2>2, <3>1, <4>3 DEF TokenOnce
      <4> QED BY <4>1, <4>2, <4>3
    <3> QED BY <3>2, <3>3
  <2>11. UsedByMembers' BY <2>2, <2>6, <2>7, <2>8 DEF TokenInv, UsedByMembers
  <2>12. HeldByJoins'
    <3> SUFFICES ASSUME NEW q \in Nodes, Admitting(q)'
                 PROVE  /\ token'[conv'[q]["join"].peer][conv'[q]["join"].tok] = "used"
                        /\ \A m \in members'[conv'[q]["join"].peer] :
                             m.tok # conv'[q]["join"].tok
      BY DEF HeldByJoins
    <3>1. q # n /\ conv'[q]["join"] = conv[q]["join"] /\ Admitting(q) BY <2>9 DEF Admitting
    <3>2. conv[q]["join"].peer \in Nodes BY <1>0, <3>1 DEF Admitting, TypeInv, Addressed
    <3>3. ~(conv[q]["join"].peer = p /\ conv[q]["join"].tok = k)
      BY <2>1, <2>2, <3>1 DEF TokenInv, HeldOnce
    <3>4. /\ token[conv[q]["join"].peer][conv[q]["join"].tok] = "used"
          /\ \A m \in members[conv[q]["join"].peer] : m.tok # conv[q]["join"].tok
      BY <3>1 DEF TokenInv, HeldByJoins
    <3> QED BY <2>2, <2>6, <2>7, <3>1, <3>2, <3>3, <3>4
  <2>13. HeldOnce' BY <2>9 DEF TokenInv, HeldOnce, Admitting
  <2> QED BY <1>0, <2>10, <2>11, <2>12, <2>13 DEF TokenInv
<1>10. ASSUME NEW n \in Nodes, \/ EnsureSelfMember(n) \/ JoinBump(n) \/ MemberAuth(n)
                               \/ AcceptJoin(n) \/ Compare(n)
       PROVE  TokenInv'
  <2>1. token' = token /\ members' = members
    BY <1>10 DEF EnsureSelfMember, JoinBump, MemberAuth, AcceptJoin, Compare
  <2>2. CASE EnsureSelfMember(n)
    BY <1>6, <2>1, <2>2 DEF EnsureSelfMember, Serving, Answering, Asking
  <2>3. CASE JoinBump(n)
    BY <1>6, <2>1, <2>3 DEF JoinBump, Serving, Answering, Asking
  <2>4. CASE MemberAuth(n)
    BY <1>6, <1>7, <2>1, <2>4 DEF MemberAuth, Serving, Answering, Asking
  <2>5. CASE AcceptJoin(n)
    BY <1>6, <2>1, <2>5 DEF AcceptJoin, At, Answering, Asking
  <2>6. CASE Compare(n)
    BY <1>6, <1>7, <2>1, <2>6 DEF Compare, At, Answering, Asking
  <2> QED BY <1>10, <2>2, <2>3, <2>4, <2>5, <2>6
<1>11. ASSUME NEW n \in Nodes, NEW k \in Kinds, ReadTables(n, k) \/ AttachViews(n, k)
       PROVE  TokenInv'
  <2>1. token' = token /\ members' = members BY <1>11 DEF ReadTables, AttachViews
  <2>2. CASE Hangup(n, k) BY <1>7, <2>1, <2>2
  <2>3. ASSUME NEW pc \in {"gen", "answer", "compare"}, NEW t \in Tables,
               NEW s \in SUBSET Changes, conv[n][k].pc # "idle",
               Fills(n, k, pc, t, s)
        PROVE  TokenInv'
    <3>1. pc \in Answering \cup Asking BY DEF Answering, Asking
    <3>2. PICK c \in Convs : Becomes(n, k, c) /\ Filled(conv[n][k], c, pc, t, s)
      <4> HIDE DEF Kinds
      <4> QED BY <1>0, <2>3, <3>1, FilledTyped
    <3>3. c.pc = pc BY <3>2 DEF Filled
    <3> QED BY <1>0, <2>1, <3>2, <3>3, QuietConv
  <2>t. ASSUME NEW t \in Tables, conv[n][k].pc # "idle"
        PROVE  table[conv[n][k].peer][t] \in SUBSET Changes
    BY <1>0, <2>t DEF TypeInv, TypeOK, Addressed, Content
  <2>4. CASE ReadTables(n, k) BY <2>3, <2>4, <2>t DEF ReadTables, Serving, Tables, Fills
  <2>5. CASE AttachViews(n, k)
    <3>1. (IF k = "join" THEN "answer" ELSE "compare") \in {"gen", "answer", "compare"} OBVIOUS
    <3> QED BY <2>2, <2>3, <2>5, <2>t, <3>1 DEF AttachViews, Serving, Tables, Fills
  <2> QED BY <1>11, <2>4, <2>5
<1>12. ASSUME NEW n \in Nodes, NEW k \in Kinds, ReadGeneration(n, k) PROVE TokenInv'
  <2>1. PICK c : c = [conv[n][k] EXCEPT !.pc = "views", !.g = gen[conv[n][k].peer]] OBVIOUS
  <2>2. c.pc = "views" BY <1>0, <2>1 DEF Convs
  <2>3. Becomes(n, k, c) BY <1>0, <1>12, <2>1 DEF ReadGeneration, Convs, Becomes
  <2>4. token' = token /\ members' = members BY <1>12 DEF ReadGeneration
  <2> QED BY <1>0, <2>2, <2>3, <2>4, QuietConv
<1>13. ASSUME NEW n \in Nodes, NEW k \in Kinds, Lose(n, k) PROVE TokenInv'
  <2>1. PICK c : c = [conv[n][k] EXCEPT !.live = FALSE] OBVIOUS
  <2>2. conv[n][k] \in Convs BY <1>0
  <2>3. c.pc = conv[n][k].pc /\ c.peer = conv[n][k].peer /\ c.tok = conv[n][k].tok
    BY <2>1, <2>2, CutTyped
  <2>4. Becomes(n, k, c) BY <1>13, <2>1 DEF Lose, Becomes
  <2>5. token' = token /\ members' = members BY <1>13 DEF Lose
  <2>6. \/ c.pc \notin {"self", "selfbump", "member"}
        \/ /\ conv[n][k].pc \in {"self", "selfbump", "member"}
           /\ c.peer = conv[n][k].peer /\ c.tok = conv[n][k].tok
    BY <2>3
  <2> QED BY <1>0, <2>4, <2>5, <2>6, QuietConv
<1>14. ASSUME NEW n \in Nodes, NEW k \in Kinds, ApplySnapshot(n, k) PROVE TokenInv'
  <2>1. members \in [Nodes -> SUBSET Members] BY <1>0 DEF TypeInv, TypeOK
  <2>2. \A q \in Nodes : members'[q] \subseteq members[q] BY <1>14, <2>1 DEF ApplySnapshot
  <2> QED BY <1>6, <1>14, <2>2 DEF ApplySnapshot, At, Answering, Asking
<1>15. ASSUME NEW n \in Nodes, NEW k \in Kinds, ApplyViews(n, k) PROVE TokenInv'
  BY <1>7, <1>15 DEF ApplyViews
<1>16. ASSUME NEW n \in Nodes, NEW k \in Kinds, ApplyFails(n, k) PROVE TokenInv'
  BY <1>7, <1>16 DEF ApplyFails
<1>17. CASE UNCHANGED vars BY <1>1, <1>17 DEF vars
<1> QED
  BY <1>2, <1>3, <1>4, <1>5, <1>8, <1>9, <1>10, <1>11, <1>12, <1>13, <1>14, <1>15, <1>16,
     <1>17
  DEF Next, ServerStep, ClientStep

(* A join token admits one member at most, for any number of nodes that    *)
(* present it in any order, whatever answers are lost and whoever crashes  *)
(* (ConsumeJoinToken).                                                     *)
THEOREM TokenAdmitsOne == Spec => []TokenOnce
<1>1. Init => TokenInv
  <2> SUFFICES ASSUME Init PROVE TokenInv OBVIOUS
  <2>1. \A q \in Nodes : ~Admitting(q) BY DEF Init, Admitting, Idle, Kinds
  <2>2. \A n \in Nodes : members[n] = {} BY DEF Init
  <2> QED BY <2>1, <2>2, InitTyped DEF TokenInv, TokenOnce, UsedByMembers, HeldByJoins, HeldOnce
<1>2. TokenInv => TokenOnce BY DEF TokenInv
<1> QED BY <1>1, <1>2, TokenStep, PTL DEF Spec
----------------------------------------------------------------------------
(* The copy.  Prim never asks; what Joiner asks, it asks Prim, and at any  *)
(* time only one of its conversations can still reach its tables.          *)

(* Of a set of changes, those Prim made.                                   *)
Part(s) == {x \in s : x[1] = Prim}

(* The tables are read and not yet applied.                                *)
Carrying == {"gen", "views", "answer", "secret", "url", "role", "compare", "tx"}

PrimAlone ==
    /\ \A k \in Kinds : conv[Prim][k].pc = "idle"
    /\ meta[Prim].secret = 0 /\ meta[Prim].url = None

(* A conversation of Joiner: whom it is with, who still waits for it, and  *)
(* what its snapshot holds.                                                *)
Sound(c) ==
    /\ c.pc # "idle" => c.peer = Prim
    /\ c.pc \in Asking => c.live
    /\ ~up[Joiner] => c.pc = "idle" \/ ~c.live
    /\ \A t \in Tables : Part(c.snap[t]) \subseteq table[Prim][t]
    /\ c.pc \in Carrying /\ c.live => Part(table[Joiner]["users"]) \subseteq c.snap["users"]

(* A join keeps the pull loop away until it has saved the secret.          *)
JoinSound(c) ==
    /\ c.pc \in {"bump", "users", "gen", "views", "answer", "secret"} => c.id # 0
    /\ c.pc \in {"url", "role", "tx", "apply"} => meta[Joiner].secret # 0
    /\ c.pc # "idle" /\ c.live => ~pulling[Joiner] /\ conv[Joiner]["pull"].pc = "idle"

JoinerKnows ==
    /\ meta[Joiner].url \in {None, Prim}
    /\ meta[Joiner].secret = 0 => /\ ~pulling[Joiner] /\ conv[Joiner]["pull"].pc = "idle"
                                  /\ meta[Joiner].role = "primary"
    /\ ~up[Joiner] => ~pulling[Joiner]

CopyKnown == \A t \in Tables : Part(table[Joiner][t]) \subseteq table[Prim][t]

CopyInv ==
    /\ TypeInv /\ PrimAlone /\ JoinerKnows /\ CopyKnown
    /\ \A k \in Kinds : Sound(conv[Joiner][k])
    /\ JoinSound(conv[Joiner]["join"])

(* What a step may do to the two nodes' tables without touching the copy.  *)
Grows ==
    \A t \in Tables : /\ table[Prim][t] \subseteq table'[Prim][t]
                      /\ Part(table'[Joiner][t]) = Part(table[Joiner][t])

(* What Joiner and Prim know of each other is left alone.                  *)
Apart ==
    /\ meta'[Prim].secret = meta[Prim].secret /\ meta'[Prim].url = meta[Prim].url
    /\ meta'[Joiner] = meta[Joiner]
    /\ pulling'[Joiner] = pulling[Joiner] /\ up'[Joiner] = up[Joiner]

LEMMA SoundKept ==
  ASSUME NEW c, Sound(c), Grows, up'[Joiner] = up[Joiner]
  PROVE  /\ c.pc # "idle" => c.peer = Prim
         /\ c.pc \in Asking => c.live
         /\ ~up'[Joiner] => c.pc = "idle" \/ ~c.live
         /\ \A t \in Tables : Part(c.snap[t]) \subseteq table'[Prim][t]
         /\ c.pc \in Carrying /\ c.live => Part(table'[Joiner]["users"]) \subseteq c.snap["users"]
<1>1. "users" \in Tables BY DEF Tables
<1> QED BY <1>1 DEF Sound, Grows

LEMMA IdleSound == Sound(Idle)
BY DEF Sound, Idle, Asking, Carrying, NoContent, Part, Tables

(* A step elsewhere.                                                       *)
LEMMA ElsewhereStep ==
  ASSUME CopyInv, TypeInv', Grows, Apart,
         conv'[Joiner] = conv[Joiner], conv'[Prim] = conv[Prim]
  PROVE  CopyInv'
<1>1. PrimAlone' BY DEF CopyInv, PrimAlone, Apart
<1>2. JoinerKnows' BY DEF CopyInv, JoinerKnows, Apart
<1>3. CopyKnown' BY DEF CopyInv, CopyKnown, Grows
<1>4. ASSUME NEW k \in Kinds PROVE Sound(conv[Joiner][k])'
  <2>1. Sound(conv[Joiner][k]) BY DEF CopyInv
  <2>2. conv'[Joiner][k] = conv[Joiner][k] OBVIOUS
  <2>3. up'[Joiner] = up[Joiner] BY DEF Apart
  <2> QED BY <2>1, <2>2, <2>3, SoundKept DEF Sound
<1>5. JoinSound(conv[Joiner]["join"])' BY DEF CopyInv, JoinSound, Apart
<1> QED BY <1>1, <1>2, <1>3, <1>4, <1>5 DEF CopyInv

(* A conversation of Joiner goes on.                                       *)
LEMMA ConvStep ==
  ASSUME CopyInv, TypeInv', Grows, Apart,
         NEW k \in Kinds, NEW c, Becomes(Joiner, k, c), Sound(c),
         k = "join" => JoinSound(c),
         k = "pull" /\ c.pc # "idle" => conv[Joiner]["pull"].pc # "idle"
  PROVE  CopyInv'
<1>0. TypeInv /\ Prim \in Nodes /\ Joiner \in Nodes /\ Prim # Joiner /\ "join" \in Kinds
      /\ "pull" \in Kinds
  BY JoinAssumption DEF CopyInv, Kinds
<1>1. ASSUME NEW m \in Nodes, NEW j \in Kinds
      PROVE  conv'[m][j] = IF m = Joiner /\ j = k THEN c ELSE conv[m][j]
  BY <1>0, ConvAt
<1>2. PrimAlone' BY <1>0, <1>1 DEF CopyInv, PrimAlone, Apart
<1>3. JoinerKnows' BY <1>0, <1>1 DEF CopyInv, JoinerKnows, Apart
<1>4. CopyKnown' BY DEF CopyInv, CopyKnown, Grows
<1>5. ASSUME NEW j \in Kinds PROVE Sound(conv[Joiner][j])'
  <2>1. PICK d : d = conv'[Joiner][j] OBVIOUS
  <2>2. Sound(d) BY <1>0, <1>1, <2>1 DEF CopyInv
  <2>3. up'[Joiner] = up[Joiner] BY DEF Apart
  <2> QED BY <2>1, <2>2, <2>3, SoundKept DEF Sound
<1>6. JoinSound(conv[Joiner]["join"])'
  <2>1. JoinSound(conv[Joiner]["join"]) BY DEF CopyInv
  <2>2. CASE k = "join"
    <3>1. conv'[Joiner]["join"] = c /\ conv'[Joiner]["pull"] = conv[Joiner]["pull"]
      BY <1>0, <1>1, <2>2
    <3> QED BY <2>2, <3>1 DEF JoinSound, Apart
  <2>3. CASE k = "pull"
    <3>1. conv'[Joiner]["join"] = conv[Joiner]["join"] /\ conv'[Joiner]["pull"] = c
      BY <1>0, <1>1, <2>3
    <3> QED BY <2>1, <2>3, <3>1 DEF JoinSound, Apart
  <2> QED BY <2>2, <2>3 DEF Kinds
<1> QED BY <1>2, <1>3, <1>4, <1>5, <1>6 DEF CopyInv

(* A change a node makes itself never touches the copy.                    *)
LEMMA AddChangeGrows ==
  ASSUME CopyInv, NEW n \in Nodes, NEW t \in Tables, AddChange(n, t)
  PROVE  Grows
<1>1. table \in [Nodes -> Content] /\ Prim \in Nodes /\ Joiner \in Nodes /\ Prim # Joiner
  BY JoinAssumption DEF CopyInv, TypeInv, TypeOK
<1>2. PICK x : x = <<n, made[n] + 1>> OBVIOUS
<1>3. x[1] = n BY <1>2
<1>4. table' = [table EXCEPT ![n][t] = @ \cup {x}] BY <1>2 DEF AddChange
<1>5. ASSUME NEW m \in Nodes, NEW u \in Tables
      PROVE  table'[m][u] = IF m = n /\ u = t THEN table[m][u] \cup {x} ELSE table[m][u]
  BY <1>1, <1>4 DEF Content
<1>6. ASSUME NEW u \in Tables
      PROVE  /\ table[Prim][u] \subseteq table'[Prim][u]
             /\ Part(table'[Joiner][u]) = Part(table[Joiner][u])
  <2>1. table[Prim][u] \subseteq table'[Prim][u] BY <1>1, <1>5
  <2>2. CASE Joiner = n /\ u = t
    <3>1. table'[Joiner][u] = table[Joiner][u] \cup {x} BY <1>1, <1>5, <2>2
    <3>2. x[1] # Prim BY <1>1, <1>3, <2>2
    <3> QED BY <2>1, <3>1, <3>2 DEF Part
  <2>3. CASE ~(Joiner = n /\ u = t)
    <3>1. table'[Joiner][u] = table[Joiner][u] BY <1>1, <1>5, <2>3
    <3> QED BY <2>1, <3>1
  <2> QED BY <2>2, <2>3
<1> QED BY <1>6 DEF Grows

LEMMA SameTables ==
  ASSUME table' = table
  PROVE  Grows
BY DEF Grows

LEMMA CopyStep == CopyInv /\ [Next]_vars => CopyInv'
<1> SUFFICES ASSUME CopyInv, [Next]_vars PROVE CopyInv' OBVIOUS
<1> DEFINE join == conv[Joiner]["join"]
           pull == conv[Joiner]["pull"]
<1>0. /\ TypeInv /\ TypeInv' /\ conv \in [Nodes -> [Kinds -> Convs]] /\ meta \in [Nodes -> Metas]
      /\ Prim \in Nodes /\ Joiner \in Nodes /\ Prim # Joiner
      /\ "join" \in Kinds /\ "pull" \in Kinds
  BY TypeStep, JoinAssumption DEF CopyInv, TypeInv, TypeOK, Kinds
<1>c. /\ PrimAlone /\ JoinerKnows /\ CopyKnown /\ JoinSound(join)
      /\ \A k \in Kinds : Sound(conv[Joiner][k])
  BY DEF CopyInv
<1>1. ASSUME NEW n \in Nodes,
             \/ \E t \in Tables : Write(n, t)
             \/ OIDCProvision(n) \/ Bump(n)
             \/ \E k \in Tokens : CreateJoinToken(n, k) \/ TokenExpires(n, k)
             \/ \E m \in members[n] : DeleteMember(n, m)
      PROVE  CopyInv'
  <2>1. conv' = conv /\ Apart
    BY <1>1 DEF Write, OIDCProvision, Bump, CreateJoinToken, TokenExpires, DeleteMember, Apart
  <2>2. \/ table' = table \/ \E t \in Tables : AddChange(n, t)
    BY <1>1 DEF Write, OIDCProvision, Bump, CreateJoinToken, TokenExpires, DeleteMember, Tables
  <2>3. Grows BY <2>2, AddChangeGrows, SameTables
  <2> QED BY <1>0, <2>1, <2>3, ElsewhereStep
<1>2. ASSUME NEW n \in Nodes \ {Joiner, Prim}, NEW k \in Kinds, NEW c, Becomes(n, k, c),
             Grows, Apart
      PROVE  CopyInv'
  <2>1. conv'[Joiner] = conv[Joiner] /\ conv'[Prim] = conv[Prim] BY <1>2 DEF Becomes
  <2> QED BY <1>0, <1>2, <2>1, ElsewhereStep
(* A conversation goes on, and the tables of the answering node with it.   *)
<1>3. ASSUME NEW n \in Nodes, NEW k \in Kinds, NEW pc \in Answering \cup Asking,
             Goto(n, k, pc), conv[n][k].pc # "idle", Grows, Apart,
             /\ n = Joiner => /\ pc \in Asking => conv[n][k].pc \in Asking
                              /\ pc \in Carrying => conv[n][k].pc \in Carrying
                              /\ k = "join" => \/ pc \in {"self", "selfbump", "member"}
                                               \/ pc = "users" /\ conv[n][k].pc = "bump"
      PROVE  CopyInv'
  <2>1. PICK c \in Convs :
          /\ Becomes(n, k, c) /\ c.pc = pc /\ c.snap = conv[n][k].snap
          /\ c.peer = conv[n][k].peer /\ c.live = conv[n][k].live /\ c.id = conv[n][k].id
    BY <1>0, <1>3, GotoTyped
  <2>2. n # Prim BY <1>3, <1>c DEF PrimAlone
  <2>3. CASE n # Joiner BY <1>2, <1>3, <2>1, <2>2, <2>3
  <2>4. CASE n = Joiner
    <3>1. PICK d : d = conv[Joiner][k] OBVIOUS
    <3>2. Sound(d) /\ d.pc # "idle" BY <1>3, <1>c, <2>4, <3>1
    <3>3. Sound(c) BY <1>3, <2>1, <2>4, <3>1, <3>2 DEF Sound
    <3>4. k = "join" => JoinSound(c)
      BY <1>3, <1>c, <2>1, <2>4, <3>1 DEF JoinSound, Answering, Asking, Carrying
    <3> QED BY <1>0, <1>3, <2>1, <2>4, <3>3, <3>4, ConvStep
  <2> QED BY <2>3, <2>4
<1>4. ASSUME NEW n \in Nodes, NEW k \in Kinds, Hangup(n, k), conv[n][k].pc # "idle", Grows, Apart
      PROVE  CopyInv'
  <2>1. Becomes(n, k, Idle) BY <1>0, <1>4, HangupTyped
  <2>2. n # Prim BY <1>4, <1>c DEF PrimAlone
  <2>3. Idle.pc = "idle" BY DEF Idle
  <2>4. JoinSound(Idle) BY <2>3 DEF JoinSound
  <2> QED BY <1>0, <1>2, <1>4, <2>1, <2>2, <2>3, <2>4, IdleSound, ConvStep
(* The answering node's part.                                              *)
<1>5. ASSUME NEW n \in Nodes, JoinConsume(n) PROVE CopyInv'
  <2>1. conv[n]["join"].pc = "consume" /\ Grows /\ Apart
    BY <1>5, SameTables DEF JoinConsume, Serving, Apart
  <2>2. CASE Hangup(n, "join") BY <1>0, <1>4, <2>1, <2>2
  <2>3. ASSUME NEW pc \in {"self", "member"}, Goto(n, "join", pc) PROVE CopyInv'
    BY <1>0, <1>3, <2>1, <2>3 DEF Answering, Asking, Carrying
  <2>4. (IF selfKnown[conv[n]["join"].peer] THEN "member" ELSE "self") \in {"self", "member"}
    OBVIOUS
  <2> QED BY <1>5, <2>2, <2>3, <2>4 DEF JoinConsume
<1>6. ASSUME NEW n \in Nodes, EnsureSelfMember(n) PROVE CopyInv'
  <2>1. /\ conv[n]["join"].pc = "self" /\ conv[n]["join"].peer \in Nodes /\ Apart
        /\ AddChange(conv[n]["join"].peer, "users") /\ Goto(n, "join", "selfbump")
    BY <1>0, <1>6 DEF EnsureSelfMember, Serving, Apart, TypeInv, Addressed
  <2>2. Grows BY <2>1, AddChangeGrows DEF Tables
  <2> QED BY <1>0, <1>3, <2>1, <2>2 DEF Answering, Asking, Carrying
<1>7. ASSUME NEW n \in Nodes, InsertMember(n) PROVE CopyInv'
  <2>1. PICK p, c : /\ p = conv[n]["join"].peer
                    /\ c = [conv[n]["join"] EXCEPT !.pc = "bump", !.id = made[p] + 1]
    OBVIOUS
  <2>2. /\ conv[n]["join"].pc = "member" /\ p \in Nodes /\ Apart /\ AddChange(p, "users")
        /\ conv[n]["join"] \in Convs /\ made[p] \in Nat
        /\ conv' = [conv EXCEPT ![n]["join"].pc = "bump", ![n]["join"].id = made[p] + 1]
    BY <1>0, <1>7, <2>1 DEF InsertMember, Serving, Apart, TypeInv, TypeOK, Addressed
  <2>3. Grows BY <2>2, AddChangeGrows DEF Tables
  <2>4. Becomes(n, "join", c) BY <1>0, <2>1, <2>2 DEF Convs, Becomes
  <2>5. n # Prim BY <1>0, <1>c, <2>2 DEF PrimAlone
  <2>6. /\ c.pc = "bump" /\ c.peer = p /\ c.live = conv[n]["join"].live
        /\ c.snap = conv[n]["join"].snap /\ c.id # 0
    BY <2>1, <2>2 DEF Convs
  <2>7. ASSUME n = Joiner PROVE Sound(c) /\ JoinSound(c)
    <3>1. Sound(join) /\ join.pc # "idle" BY <1>0, <1>c, <2>2, <2>7
    <3>2. Sound(c) BY <2>1, <2>6, <2>7, <3>1 DEF Sound, Asking, Carrying
    <3> QED BY <1>c, <2>6, <2>7, <3>1, <3>2 DEF JoinSound
  <2> QED BY <1>0, <1>2, <2>2, <2>3, <2>4, <2>5, <2>7, ConvStep
<1>8. ASSUME NEW n \in Nodes, JoinBump(n) PROVE CopyInv'
  <2>1. Grows /\ Apart BY <1>8, SameTables DEF JoinBump, Apart
  <2>2. \/ conv[n]["join"].pc = "selfbump" /\ Goto(n, "join", "member")
        \/ conv[n]["join"].pc = "bump" /\ Goto(n, "join", "users")
    BY <1>8 DEF JoinBump, Serving
  <2> QED BY <1>0, <1>3, <2>1, <2>2 DEF Answering, Asking, Carrying
<1>9. ASSUME NEW n \in Nodes, MemberAuth(n) PROVE CopyInv'
  <2>1. Grows /\ Apart /\ conv[n]["pull"].pc = "auth"
    BY <1>9, SameTables DEF MemberAuth, Apart, Serving
  <2>2. Goto(n, "pull", "users") \/ Hangup(n, "pull") BY <1>9 DEF MemberAuth
  <2> QED BY <1>0, <1>3, <1>4, <2>1, <2>2 DEF Answering, Asking, Carrying
<1>10. ASSUME NEW n \in Nodes, NEW k \in Kinds, ReadTables(n, k) PROVE CopyInv'
  <2>1. PICK p, s : p = conv[n][k].peer /\ s = table[p]["users"] OBVIOUS
  <2>2. /\ conv[n][k].pc = "users" /\ p \in Nodes /\ Grows /\ Apart
        /\ s \in SUBSET Changes /\ Fills(n, k, "gen", "users", s)
    BY <1>0, <1>10, <2>1, SameTables
    DEF ReadTables, Serving, Apart, TypeInv, TypeOK, Addressed, Fills, Content, Tables
  <2>f. PICK c \in Convs : Becomes(n, k, c) /\ Filled(conv[n][k], c, "gen", "users", s)
    <3>1. "gen" \in Answering \cup Asking /\ "users" \in Tables BY DEF Answering, Tables
    <3>2. conv[n][k].pc # "idle" BY <2>2
    <3> QED BY <1>0, <2>2, <3>1, <3>2, FilledTyped
  <2>3. /\ Becomes(n, k, c) /\ c.pc = "gen"
        /\ \A u \in Tables : c.snap[u] = IF u = "users" THEN s ELSE conv[n][k].snap[u]
        /\ c.peer = conv[n][k].peer /\ c.live = conv[n][k].live /\ c.id = conv[n][k].id
    BY <2>f DEF Filled
  <2>4. n # Prim BY <1>c, <2>2 DEF PrimAlone
  <2>5. CASE n # Joiner BY <1>2, <2>2, <2>3, <2>4, <2>5
  <2>6. CASE n = Joiner
    <3>1. Sound(conv[Joiner][k]) /\ p = Prim BY <1>c, <2>1, <2>2, <2>6 DEF Sound
    <3>2. Part(table[Joiner]["users"]) \subseteq c.snap["users"]
      BY <1>c, <2>1, <2>3, <3>1 DEF CopyKnown, Tables
    <3>3. \A t \in Tables : Part(c.snap[t]) \subseteq table[Prim][t]
      BY <2>1, <2>3, <2>6, <3>1 DEF Sound, Part
    <3>4. Sound(c) BY <2>1, <2>2, <2>3, <2>6, <3>1, <3>2, <3>3 DEF Sound, Asking
    <3>5. k = "join" => JoinSound(c) BY <1>c, <2>2, <2>3, <2>6 DEF JoinSound
    <3> QED BY <1>0, <2>2, <2>3, <2>6, <3>4, <3>5, ConvStep
  <2> QED BY <2>5, <2>6
<1>11. ASSUME NEW n \in Nodes, NEW k \in Kinds, ReadGeneration(n, k) PROVE CopyInv'
  <2>1. PICK c : c = [conv[n][k] EXCEPT !.pc = "views", !.g = gen[conv[n][k].peer]] OBVIOUS
  <2>2. conv[n][k].pc = "gen" /\ Grows /\ Apart
    BY <1>11, SameTables DEF ReadGeneration, Serving, Apart
  <2>3. Becomes(n, k, c) BY <1>0, <1>11, <2>1 DEF ReadGeneration, Convs, Becomes
  <2>4. /\ c.pc = "views" /\ c.peer = conv[n][k].peer /\ c.live = conv[n][k].live
        /\ c.snap = conv[n][k].snap /\ c.id = conv[n][k].id
    BY <1>0, <2>1 DEF Convs
  <2>5. n # Prim BY <1>c, <2>2 DEF PrimAlone
  <2>6. ASSUME n = Joiner PROVE Sound(c) /\ (k = "join" => JoinSound(c))
    <3>1. Sound(conv[Joiner][k]) BY <1>c
    <3>2. Sound(c) BY <2>2, <2>4, <2>6, <3>1 DEF Sound, Asking, Carrying
    <3> QED BY <1>c, <2>2, <2>4, <2>6, <3>2 DEF JoinSound
  <2> QED BY <1>0, <1>2, <2>2, <2>3, <2>5, <2>6, ConvStep
<1>12. ASSUME NEW n \in Nodes, NEW k \in Kinds, AttachViews(n, k) PROVE CopyInv'
  <2>1. PICK p, s, pc : /\ p = conv[n][k].peer /\ s = table[p]["views"]
                        /\ pc = IF k = "join" THEN "answer" ELSE "compare"
    OBVIOUS
  <2>2. /\ conv[n][k].pc = "views" /\ p \in Nodes /\ Grows /\ Apart
        /\ s \in SUBSET Changes
    BY <1>0, <1>12, <2>1, SameTables
    DEF AttachViews, Serving, Apart, TypeInv, TypeOK, Addressed, Content, Tables
  <2>3. CASE Hangup(n, k) BY <1>4, <2>2, <2>3
  <2>4. CASE conv[n][k].live /\ Fills(n, k, pc, "views", s)
    <3>1. pc \in Answering \cup Asking /\ "views" \in Tables BY <2>1 DEF Asking, Tables
    <3>f. PICK c \in Convs : Becomes(n, k, c) /\ Filled(conv[n][k], c, pc, "views", s)
      <4>1. conv[n][k].pc # "idle" /\ Fills(n, k, pc, "views", s) BY <2>2, <2>4
      <4> QED BY <1>0, <2>2, <3>1, <4>1, FilledTyped
    <3>2. /\ Becomes(n, k, c) /\ c.pc = pc
          /\ \A u \in Tables : c.snap[u] = IF u = "views" THEN s ELSE conv[n][k].snap[u]
          /\ c.peer = conv[n][k].peer /\ c.live = conv[n][k].live /\ c.id = conv[n][k].id
      BY <3>f DEF Filled
    <3>3. n # Prim BY <1>c, <2>2 DEF PrimAlone
    <3>4. CASE n # Joiner BY <1>2, <2>2, <3>2, <3>3, <3>4
    <3>5. CASE n = Joiner
      <4>1. Sound(conv[Joiner][k]) /\ p = Prim BY <1>c, <2>1, <2>2, <3>5 DEF Sound
      <4>2. Part(table[Joiner]["users"]) \subseteq c.snap["users"]
        BY <2>2, <2>4, <3>2, <3>5, <4>1 DEF Sound, Tables, Carrying
      <4>3. \A t \in Tables : Part(c.snap[t]) \subseteq table[Prim][t]
        BY <2>1, <3>2, <3>5, <4>1 DEF Sound, Part
      <4>4. Sound(c) BY <2>1, <2>2, <2>4, <3>2, <3>5, <4>1, <4>2, <4>3 DEF Sound
      <4>5. k = "join" => JoinSound(c) BY <1>c, <2>1, <2>2, <3>2, <3>5 DEF JoinSound
      <4> QED BY <1>0, <2>2, <3>2, <3>5, <4>4, <4>5, ConvStep
    <3> QED BY <3>4, <3>5
  <2> QED BY <1>12, <2>1, <2>3, <2>4 DEF AttachViews, Fills
<1>13. ASSUME NEW n \in Nodes, NEW k \in Kinds, Lose(n, k) PROVE CopyInv'
  <2>1. PICK c : c = [conv[n][k] EXCEPT !.live = FALSE] OBVIOUS
  <2>2. conv[n][k].pc \in Answering /\ conv[n][k] \in Convs /\ Grows /\ Apart
    BY <1>0, <1>13, SameTables DEF Lose, Apart
  <2>3. Becomes(n, k, c) BY <1>13, <2>1 DEF Lose, Becomes
  <2>4. /\ c.pc = conv[n][k].pc /\ c.peer = conv[n][k].peer /\ c.live = FALSE
        /\ c.snap = conv[n][k].snap /\ c.id = conv[n][k].id
    BY <2>1, <2>2, CutTyped DEF Convs
  <2>5. n # Prim /\ conv[n][k].pc # "idle" BY <1>c, <2>2 DEF PrimAlone, Answering
  <2>6. ASSUME n = Joiner PROVE Sound(c) /\ (k = "join" => JoinSound(c))
    <3>1. Sound(conv[Joiner][k]) BY <1>c
    <3>2. Sound(c) BY <2>2, <2>4, <2>6, <3>1 DEF Sound, Asking, Answering
    <3> QED BY <1>c, <2>2, <2>4, <2>6, <3>2 DEF JoinSound
  <2> QED BY <1>0, <1>2, <2>2, <2>3, <2>4, <2>5, <2>6, ConvStep
(* The asking node's part.                                                 *)
<1>14. ASSUME NEW n \in Nodes, NEW p \in Nodes, NEW k \in Tokens, <<n, p>> \in Joins,
              Connect(n, p, k)
       PROVE  CopyInv'
  <2>1. PICK c : c = [Idle EXCEPT !.pc = "consume", !.peer = p, !.tok = k] OBVIOUS
  <2>2. Becomes(n, "join", c) BY <1>14, <2>1 DEF Connect, Becomes
  <2>0. n # Prim /\ (n = Joiner => p = Prim)
    <3>1. \A q \in Nodes : <<Prim, q>> \notin Joins /\ (<<Joiner, q>> \in Joins => q = Prim)
      BY JoinAssumption, Zenon
    <3> QED BY <1>14, <3>1, Zenon
  <2>3. Grows /\ Apart BY <1>14, SameTables DEF Connect, Apart
  <2>4. c.pc = "consume" /\ c.peer = p /\ c.snap = NoContent BY <2>1 DEF Idle
  <2>5. ASSUME n = Joiner PROVE Sound(c) /\ JoinSound(c)
    <3>1. p = Prim /\ up[Joiner] /\ meta[Joiner].secret = 0
      BY <1>14, <2>0, <2>5 DEF Connect, At, canJoinAsSecondary, alreadyJoined
    <3>2. Sound(c) BY <2>4, <3>1 DEF Sound, Asking, Carrying, NoContent, Part
    <3>3. JoinSound(c) BY <1>c, <2>4, <3>1 DEF JoinSound, JoinerKnows
    <3> QED BY <3>2, <3>3
  <2> QED BY <1>0, <1>2, <2>0, <2>2, <2>3, <2>5, ConvStep
<1>15. ASSUME NEW n \in Nodes, Compare(n) PROVE CopyInv'
  <2>1. Grows /\ Apart /\ conv[n]["pull"].pc = "compare"
    BY <1>15, SameTables DEF Compare, Apart, At
  <2>2. Goto(n, "pull", "tx") \/ Hangup(n, "pull") BY <1>15 DEF Compare
  <2> QED BY <1>0, <1>3, <1>4, <2>1, <2>2 DEF Answering, Asking, Carrying
<1>16. ASSUME NEW n \in Nodes, Pull(n) PROVE CopyInv'
  <2>1. PICK c : c = [Idle EXCEPT !.pc = "auth", !.peer = meta[n].url, !.id = meta[n].secret]
    OBVIOUS
  <2>2. Becomes(n, "pull", c) BY <1>16, <2>1 DEF Pull, Becomes
  <2>3. Grows /\ Apart /\ meta[n].secret # 0 /\ meta[n].url # None /\ pulling[n] /\ up[n]
    BY <1>16, SameTables DEF Pull, Apart, At
  <2>4. c.pc = "auth" /\ c.peer = meta[n].url /\ c.snap = NoContent BY <2>1 DEF Idle
  <2>5. n # Prim BY <1>c, <2>3 DEF PrimAlone
  <2>6. CASE n # Joiner BY <1>0, <1>2, <2>2, <2>3, <2>5, <2>6
  <2>7. CASE n = Joiner
    <3>1. c.peer = Prim BY <1>c, <2>3, <2>4, <2>7 DEF JoinerKnows
    <3>2. Sound(c) BY <2>3, <2>4, <2>7, <3>1 DEF Sound, Asking, Carrying, NoContent, Part
    <3>3. join.pc = "idle" \/ ~join.live BY <1>c, <2>3, <2>7 DEF JoinSound
    <3>4. conv'[Joiner]["join"] = join /\ conv'[Joiner]["pull"] = c
      BY <1>0, <2>2, <2>7, ConvAt
    <3>5. conv'[Prim] = conv[Prim] BY <1>0, <2>2, <2>7 DEF Becomes
    <3>6. PrimAlone' BY <1>c, <2>3, <3>5 DEF PrimAlone, Apart
    <3>7. JoinerKnows' BY <1>c, <2>3, <2>7 DEF JoinerKnows, Apart
    <3>8. CopyKnown' BY <1>c, <2>3 DEF CopyKnown, Grows
    <3>9. ASSUME NEW k \in Kinds PROVE Sound(conv[Joiner][k])'
      <4>1. PICK d : d = conv'[Joiner][k] OBVIOUS
      <4>2. Sound(d) BY <1>0, <1>c, <3>2, <3>4, <4>1 DEF Kinds
      <4>3. up'[Joiner] = up[Joiner] BY <2>3 DEF Apart
      <4> QED BY <2>3, <4>1, <4>2, <4>3, SoundKept DEF Sound
    <3>10. JoinSound(conv[Joiner]["join"])'
      BY <1>c, <2>3, <3>3, <3>4 DEF JoinSound, Apart
    <3> QED BY <1>0, <3>6, <3>7, <3>8, <3>9, <3>10 DEF CopyInv
  <2> QED BY <2>6, <2>7
<1>17. ASSUME NEW n \in Nodes, AcceptJoin(n) PROVE CopyInv'
  <2>1. /\ conv[n]["join"].pc \in {"answer", "secret", "url", "role"}
        /\ Grows /\ up' = up /\ pulling' = pulling
    BY <1>17, SameTables DEF AcceptJoin, At
  <2>2. n # Prim BY <1>0, <1>c, <2>1 DEF PrimAlone
  <2>3. PICK pc \in {"secret", "url", "role", "tx"} : Goto(n, "join", pc)
    BY <1>17 DEF AcceptJoin
  <2>4. pc \in Answering \cup Asking BY DEF Asking
  <2>5. PICK c \in Convs :
          /\ Becomes(n, "join", c) /\ c.pc = pc /\ c.snap = conv[n]["join"].snap
          /\ c.peer = conv[n]["join"].peer /\ c.live = conv[n]["join"].live
          /\ c.id = conv[n]["join"].id
    BY <1>0, <2>1, <2>3, <2>4, GotoTyped
  <2>6. \A m \in Nodes : m # n => meta'[m] = meta[m] BY <1>0, <1>17 DEF AcceptJoin
  <2>7. CASE n # Joiner
    <3>1. Apart BY <1>0, <2>1, <2>2, <2>6, <2>7 DEF Apart
    <3> QED BY <1>0, <1>2, <2>1, <2>2, <2>5, <2>7, <3>1
  <2>8. CASE n = Joiner
    <3>1. join.live /\ join.peer = Prim /\ ~pulling[Joiner] /\ pull.pc = "idle"
      BY <1>0, <1>c, <2>1, <2>8 DEF Sound, JoinSound, Asking
    <3>2. conv'[Joiner]["join"] = c /\ conv'[Joiner]["pull"] = pull
      BY <1>0, <2>5, <2>8, ConvAt
    <3>3. conv'[Prim] = conv[Prim] BY <1>0, <2>5, <2>8 DEF Becomes
    <3>4. Sound(c)
      <4>1. Sound(join) BY <1>0, <1>c
      <4> QED BY <2>1, <2>5, <2>8, <3>1, <4>1 DEF Sound, Asking, Carrying
    <3>5. PICK o, m : o = meta[Joiner] /\ m = meta'[Joiner] OBVIOUS
    <3>6. /\ m.secret = IF pc = "url" THEN join.id ELSE o.secret
          /\ m.url = IF pc = "role" THEN join.peer ELSE o.url
          /\ m.role = IF pc = "tx" THEN "secondary" ELSE o.role
          /\ join.pc = CASE pc = "secret" -> "answer" [] pc = "url" -> "secret"
                         [] pc = "role" -> "url" [] pc = "tx" -> "role"
      <4>1. o \in Metas BY <1>0, <3>5
      <4>2. c.pc = conv'[Joiner]["join"].pc BY <3>2
      <4>3. \/ /\ join.pc = "answer" /\ Goto(n, "join", "secret") /\ m = [o EXCEPT !.cluster = TRUE]
            \/ /\ join.pc = "secret" /\ Goto(n, "join", "url") /\ m = [o EXCEPT !.secret = join.id]
            \/ /\ join.pc = "url" /\ Goto(n, "join", "role") /\ m = [o EXCEPT !.url = join.peer]
            \/ /\ join.pc = "role" /\ Goto(n, "join", "tx") /\ m = [o EXCEPT !.role = "secondary"]
        BY <1>0, <1>17, <2>8, <3>5 DEF AcceptJoin, At
      <4>4. ASSUME NEW x, Goto(n, "join", x) PROVE pc = x
        <5>1. conv'[n]["join"].pc = x /\ conv'[n]["join"].pc = pc
          BY <1>0, <2>3, <4>4 DEF Goto, Convs
        <5> QED BY <5>1
      <4>5. \/ pc = "secret" /\ join.pc = "answer" /\ m = [o EXCEPT !.cluster = TRUE]
            \/ pc = "url" /\ join.pc = "secret" /\ m = [o EXCEPT !.secret = join.id]
            \/ pc = "role" /\ join.pc = "url" /\ m = [o EXCEPT !.url = join.peer]
            \/ pc = "tx" /\ join.pc = "role" /\ m = [o EXCEPT !.role = "secondary"]
        BY <4>3, <4>4
      <4> HIDE DEF join
      <4> QED BY <4>1, <4>5 DEF Metas
    <3>7. PrimAlone' BY <1>0, <1>c, <2>2, <2>6, <3>3 DEF PrimAlone
    <3>8. JoinerKnows'
      BY <1>c, <2>1, <3>1, <3>2, <3>5, <3>6 DEF JoinerKnows, JoinSound
    <3>9. CopyKnown' BY <1>c, <2>1 DEF CopyKnown, Grows
    <3>10. ASSUME NEW k \in Kinds PROVE Sound(conv[Joiner][k])'
      <4>1. PICK d : d = conv'[Joiner][k] OBVIOUS
      <4>2. Sound(d) BY <1>0, <1>c, <3>2, <3>4, <4>1 DEF Kinds
      <4> QED BY <2>1, <4>1, <4>2, SoundKept DEF Sound
    <3>11. JoinSound(conv[Joiner]["join"])'
      BY <1>c, <2>1, <2>5, <2>8, <3>1, <3>2, <3>5, <3>6 DEF JoinSound
    <3> QED BY <1>0, <3>7, <3>8, <3>9, <3>10, <3>11 DEF CopyInv
  <2> QED BY <2>7, <2>8
<1>18. ASSUME NEW n \in Nodes, NEW k \in Kinds, ApplySnapshot(n, k) PROVE CopyInv'
  <2>1. /\ conv[n][k].pc = "tx" /\ Goto(n, k, "apply") /\ Apart
        /\ table' = [table EXCEPT ![n]["users"] = conv[n][k].snap["users"]]
    BY <1>18 DEF ApplySnapshot, At, Apart
  <2>2. table \in [Nodes -> Content] BY <1>0 DEF TypeInv, TypeOK
  <2>3. ASSUME NEW m \in Nodes, NEW t \in Tables
        PROVE  table'[m][t] = IF m = n /\ t = "users" THEN conv[n][k].snap["users"]
                                                      ELSE table[m][t]
    BY <2>1, <2>2 DEF Content, Tables
  <2>4. n # Prim BY <1>c, <2>1 DEF PrimAlone
  <2>5. CASE n # Joiner
    <3>1. Grows BY <1>0, <2>3, <2>4, <2>5 DEF Grows
    <3>2. "apply" \in Answering \cup Asking BY DEF Asking
    <3> QED BY <1>3, <2>1, <2>5, <3>1, <3>2
  <2>6. CASE n = Joiner
    <3>1. "apply" \in Answering \cup Asking BY DEF Asking
    <3>2. PICK c \in Convs :
            /\ Becomes(Joiner, k, c) /\ c.pc = "apply" /\ c.snap = conv[Joiner][k].snap
            /\ c.peer = conv[Joiner][k].peer /\ c.live = conv[Joiner][k].live
      BY <1>0, <2>1, <2>6, <3>1, GotoTyped
    <3>3. ASSUME NEW m \in Nodes, NEW j \in Kinds
          PROVE  conv'[m][j] = IF m = Joiner /\ j = k THEN c ELSE conv[m][j]
      BY <1>0, <3>2, ConvAt
    <3>4. /\ \A t \in Tables : table'[Prim][t] = table[Prim][t]
          /\ \A t \in Tables : table'[Joiner][t] = IF t = "users" THEN conv[Joiner][k].snap["users"]
                                                                  ELSE table[Joiner][t]
      BY <1>0, <2>3, <2>4, <2>6
    <3>5. Sound(conv[Joiner][k]) /\ conv[Joiner][k].live
      BY <1>c, <2>1, <2>6 DEF Sound, Asking
    <3>6. PrimAlone' BY <1>0, <1>c, <2>1, <3>3 DEF PrimAlone, Apart
    <3>7. JoinerKnows' BY <1>0, <1>c, <2>1, <2>6, <3>3 DEF JoinerKnows, Apart
    <3>8. CopyKnown' BY <1>c, <3>4, <3>5 DEF CopyKnown, Sound
    <3>9. ASSUME NEW j \in Kinds, j # k PROVE conv[Joiner][j].pc = "idle" \/ ~conv[Joiner][j].live
      BY <1>c, <2>1, <2>6, <3>5, <3>9 DEF JoinSound, Kinds
    <3>10. ASSUME NEW j \in Kinds PROVE Sound(conv[Joiner][j])'
      <4>1. PICK d : d = conv[Joiner][j] /\ Sound(d) BY <1>c
      <4>2. CASE j = k
        <5>1. conv'[Joiner][j] = c BY <1>0, <3>3, <4>2
        <5> QED BY <2>1, <2>6, <3>2, <3>4, <3>5, <5>1 DEF Sound, Apart, Asking, Carrying
      <4>3. CASE j # k
        <5>1. conv'[Joiner][j] = d BY <1>0, <3>3, <4>1, <4>3
        <5>2. ~(d.pc \in Carrying /\ d.live) BY <3>9, <4>1, <4>3 DEF Carrying
        <5> QED BY <2>1, <3>4, <4>1, <5>1, <5>2 DEF Sound, Apart
      <4> QED BY <4>2, <4>3
    <3>11. JoinSound(conv[Joiner]["join"])'
      <4>1. CASE k = "join"
        <5>1. conv'[Joiner]["join"] = c /\ conv'[Joiner]["pull"] = pull BY <1>0, <3>3, <4>1
        <5> QED BY <1>c, <2>1, <2>6, <3>2, <4>1, <5>1 DEF JoinSound, Apart
      <4>2. CASE k = "pull"
        <5>1. conv'[Joiner]["join"] = join BY <1>0, <3>3, <4>2
        <5>2. join.pc = "idle" \/ ~join.live BY <1>0, <3>9, <4>2
        <5> QED BY <1>c, <2>1, <5>1, <5>2 DEF JoinSound, Apart
      <4> QED BY <4>1, <4>2 DEF Kinds
    <3> QED BY <1>0, <3>6, <3>7, <3>8, <3>10, <3>11 DEF CopyInv
  <2> QED BY <2>5, <2>6
<1>19. ASSUME NEW n \in Nodes, NEW k \in Kinds, ApplyViews(n, k) PROVE CopyInv'
  <2>1. /\ conv[n][k].pc = "apply" /\ Hangup(n, k) /\ up[n] /\ up' = up /\ meta' = meta
        /\ pulling' = [pulling EXCEPT ![n] = TRUE]
        /\ table' = [table EXCEPT ![n]["views"] = @ \cup conv[n][k].snap["views"]]
    BY <1>19 DEF ApplyViews, At
  <2>2. table \in [Nodes -> Content] /\ pulling \in [Nodes -> BOOLEAN]
    BY <1>0 DEF TypeInv, TypeOK
  <2>3. ASSUME NEW m \in Nodes, NEW t \in Tables
        PROVE  table'[m][t] = IF m = n /\ t = "views" THEN table[m][t] \cup conv[n][k].snap["views"]
                                                      ELSE table[m][t]
    BY <2>1, <2>2 DEF Content, Tables
  <2>4. n # Prim BY <1>c, <2>1 DEF PrimAlone
  <2>5. CASE n # Joiner
    <3>1. Grows BY <1>0, <2>3, <2>4, <2>5 DEF Grows
    <3>2. Apart BY <1>0, <2>1, <2>2, <2>5 DEF Apart
    <3> QED BY <1>4, <2>1, <3>1, <3>2
  <2>6. CASE n = Joiner
    <3>1. Becomes(Joiner, k, Idle) BY <1>0, <2>1, <2>6, HangupTyped
    <3>2. ASSUME NEW m \in Nodes, NEW j \in Kinds
          PROVE  conv'[m][j] = IF m = Joiner /\ j = k THEN Idle ELSE conv[m][j]
      BY <1>0, <3>1, ConvAt
    <3>3. /\ \A t \in Tables : table'[Prim][t] = table[Prim][t]
          /\ \A t \in Tables : table'[Joiner][t] =
                IF t = "views" THEN table[Joiner][t] \cup conv[Joiner][k].snap["views"]
                               ELSE table[Joiner][t]
      BY <1>0, <2>3, <2>4, <2>6
    <3>4. Sound(conv[Joiner][k]) /\ conv[Joiner][k].live
      BY <1>c, <2>1, <2>6 DEF Sound, Asking
    <3>5. Idle.pc = "idle" BY DEF Idle
    <3>6. meta[Joiner].secret # 0
      BY <1>c, <2>1, <2>6 DEF JoinSound, JoinerKnows, Kinds
    <3>7. PrimAlone' BY <1>0, <1>c, <2>1, <3>2 DEF PrimAlone
    <3>8. JoinerKnows' BY <1>0, <1>c, <2>1, <2>6, <3>6 DEF JoinerKnows
    <3>9. CopyKnown'
      <4> SUFFICES ASSUME NEW t \in Tables PROVE Part(table'[Joiner][t]) \subseteq table[Prim][t]
        BY <3>3 DEF CopyKnown
      <4>1. /\ Part(table[Joiner][t]) \subseteq table[Prim][t]
            /\ Part(conv[Joiner][k].snap[t]) \subseteq table[Prim][t]
        BY <1>c, <3>4 DEF CopyKnown, Sound
      <4>2. \/ table'[Joiner][t] = table[Joiner][t]
            \/ table'[Joiner][t] = table[Joiner][t] \cup conv[Joiner][k].snap[t]
        BY <3>3
      <4> QED BY <4>1, <4>2 DEF Part
    <3>10. ASSUME NEW j \in Kinds PROVE Sound(conv[Joiner][j])'
      <4>1. PICK d : d = conv'[Joiner][j] OBVIOUS
      <4>2. Sound(d) BY <1>0, <1>c, <3>2, <4>1, IdleSound
      <4>3. table'[Joiner]["users"] = table[Joiner]["users"] BY <3>3 DEF Tables
      <4> QED BY <2>1, <3>3, <4>1, <4>2, <4>3 DEF Sound
    <3>11. conv'[Joiner]["join"].pc = "idle" \/ ~conv'[Joiner]["join"].live
      <4>1. CASE k = "join" BY <1>0, <3>2, <3>5, <4>1
      <4>2. CASE k = "pull"
        <5>1. conv'[Joiner]["join"] = join BY <1>0, <3>2, <4>2
        <5> QED BY <1>c, <2>1, <2>6, <4>2, <5>1 DEF JoinSound
      <4> QED BY <4>1, <4>2 DEF Kinds
    <3>12. JoinSound(conv[Joiner]["join"])'
      <4>1. CASE k = "join"
        <5>1. conv'[Joiner]["join"].pc = "idle" BY <1>0, <3>2, <3>5, <4>1
        <5> QED BY <5>1 DEF JoinSound
      <4>2. CASE k = "pull"
        <5>1. conv'[Joiner]["join"] = join BY <1>0, <3>2, <4>2
        <5> QED BY <1>c, <2>1, <3>11, <5>1 DEF JoinSound
      <4> QED BY <4>1, <4>2 DEF Kinds
    <3> QED BY <1>0, <3>7, <3>8, <3>9, <3>10, <3>12 DEF CopyInv
  <2> QED BY <2>5, <2>6
(* Faults.                                                                 *)
<1>f. ASSUME NEW n \in Nodes, NEW k \in Kinds, ApplyFails(n, k) PROVE CopyInv'
  <2>1. /\ conv[n][k].pc = "tx" /\ Hangup(n, k) /\ up' = up /\ up[n] /\ meta' = meta
        /\ pulling' = [pulling EXCEPT ![n] = TRUE] /\ table' = table
    BY <1>f DEF ApplyFails, At
  <2>2. pulling \in [Nodes -> BOOLEAN] /\ Grows BY <1>0, <2>1, SameTables DEF TypeInv, TypeOK
  <2>3. CASE n # Joiner
    <3>1. Apart BY <1>0, <2>1, <2>2, <2>3 DEF Apart
    <3> QED BY <1>4, <2>1, <2>2, <3>1
  <2>4. CASE n = Joiner
    <3>1. Becomes(Joiner, k, Idle) BY <1>0, <2>1, <2>4, HangupTyped
    <3>2. ASSUME NEW m \in Nodes, NEW j \in Kinds
          PROVE  conv'[m][j] = IF m = Joiner /\ j = k THEN Idle ELSE conv[m][j]
      BY <1>0, <3>1, ConvAt
    <3>3. Idle.pc = "idle" BY DEF Idle
    <3>4. conv[Joiner][k].live BY <1>c, <2>1, <2>4 DEF Sound, Asking
    <3>5. meta[Joiner].secret # 0 BY <1>c, <2>1, <2>4 DEF JoinSound, JoinerKnows, Kinds
    <3>6. PrimAlone' BY <1>0, <1>c, <2>1, <3>2 DEF PrimAlone
    <3>7. JoinerKnows' BY <1>0, <1>c, <2>1, <2>4, <3>5 DEF JoinerKnows
    <3>8. CopyKnown' BY <1>c, <2>1 DEF CopyKnown
    <3>9. ASSUME NEW j \in Kinds PROVE Sound(conv[Joiner][j])'
      <4>1. PICK d : d = conv'[Joiner][j] OBVIOUS
      <4>2. Sound(d) BY <1>0, <1>c, <3>2, <4>1, IdleSound
      <4> QED BY <2>1, <4>1, <4>2 DEF Sound
    <3>10. JoinSound(conv[Joiner]["join"])'
      <4>1. CASE k = "join"
        <5>1. conv'[Joiner]["join"].pc = "idle" BY <1>0, <3>2, <3>3, <4>1
        <5> QED BY <5>1 DEF JoinSound
      <4>2. CASE k = "pull"
        <5>1. conv'[Joiner]["join"] = join BY <1>0, <3>2, <4>2
        <5>2. join.pc = "idle" \/ ~join.live BY <1>c, <2>1, <2>4, <4>2 DEF JoinSound
        <5> QED BY <1>c, <2>1, <5>1, <5>2 DEF JoinSound
      <4> QED BY <4>1, <4>2 DEF Kinds
    <3> QED BY <1>0, <3>6, <3>7, <3>8, <3>9, <3>10 DEF CopyInv
  <2> QED BY <2>3, <2>4
<1>20. ASSUME NEW n \in Nodes, Crash(n) PROVE CopyInv'
  <2>1. /\ up' = [up EXCEPT ![n] = FALSE] /\ pulling' = [pulling EXCEPT ![n] = FALSE]
        /\ table' = table /\ meta' = meta
        /\ conv' = [m \in Nodes |-> [k \in Kinds |-> AfterCrash(n, m, k)]]
    BY <1>20 DEF Crash
  <2>2. up \in [Nodes -> BOOLEAN] /\ pulling \in [Nodes -> BOOLEAN] BY <1>0 DEF TypeInv, TypeOK
  <2>3. ASSUME NEW m \in Nodes, NEW k \in Kinds PROVE conv'[m][k] = AfterCrash(n, m, k)
    BY <2>1
  <2>4. Idle.pc = "idle" BY DEF Idle
  <2>5. ASSUME NEW m \in Nodes, NEW k \in Kinds, conv[m][k].pc = "idle"
        PROVE  conv'[m][k] = conv[m][k]
    <3>1. conv[m][k].pc \notin Answering /\ conv[m][k].pc \notin Asking
      BY <2>5 DEF Answering, Asking
    <3>2. AfterCrash(n, m, k) = conv[m][k] BY <3>1 DEF AfterCrash
    <3> QED BY <2>3, <3>2
  <2>6. PrimAlone' BY <1>0, <1>c, <2>1, <2>5 DEF PrimAlone
  <2>7. JoinerKnows' BY <1>0, <1>c, <2>1, <2>2, <2>5 DEF JoinerKnows
  <2>8. CopyKnown' BY <1>c, <2>1 DEF CopyKnown
  <2>9. ASSUME NEW k \in Kinds
        PROVE  LET d == conv[Joiner][k]
                   e == conv'[Joiner][k]
               IN  \/ e = Idle
                   \/ e = d /\ (n = Joiner => d.pc = "idle")
                   \/ /\ d.pc \in Answering /\ e.pc = d.pc /\ e.peer = d.peer /\ ~e.live
                      /\ e.snap = d.snap /\ e.id = d.id
    <3>1. PICK d : d = conv[Joiner][k] OBVIOUS
    <3>2. d \in Convs BY <1>0, <3>1
    <3>3. conv'[Joiner][k] = AfterCrash(n, Joiner, k) BY <1>0, <2>3
    <3>4. CASE d.pc = "idle" BY <1>0, <2>5, <3>1, <3>4
    <3>5. CASE d.pc \in Asking
      <4>1. d.pc \notin Answering BY <3>5 DEF Asking, Answering
      <4>2. AfterCrash(n, Joiner, k) = IF Joiner = n THEN Idle ELSE d
        BY <3>1, <3>5, <4>1 DEF AfterCrash
      <4> QED BY <3>1, <3>3, <4>2
    <3>6. CASE d.pc \in Answering
      <4>1. d.pc \notin Asking BY <3>6 DEF Asking, Answering
      <4>2. CASE d.peer = n
        <5>1. AfterCrash(n, Joiner, k) = Idle BY <3>1, <3>6, <4>1, <4>2 DEF AfterCrash
        <5> QED BY <3>3, <5>1
      <4>3. CASE d.peer # n /\ Joiner = n
        <5>1. AfterCrash(n, Joiner, k) = [d EXCEPT !.live = FALSE]
          BY <3>1, <3>6, <4>1, <4>3 DEF AfterCrash
        <5>2. ~[d EXCEPT !.live = FALSE].live BY <3>2 DEF Convs
        <5> QED BY <3>1, <3>2, <3>3, <3>6, <5>1, <5>2, CutTyped
      <4>4. CASE d.peer # n /\ Joiner # n
        <5>1. AfterCrash(n, Joiner, k) = d BY <3>1, <3>6, <4>1, <4>4 DEF AfterCrash
        <5> QED BY <3>1, <3>3, <4>4, <5>1
      <4> QED BY <4>2, <4>3, <4>4
    <3> QED BY <3>2, <3>4, <3>5, <3>6 DEF Convs
  <2>10. ASSUME NEW k \in Kinds PROVE Sound(conv[Joiner][k])'
    <3>1. PICK d, e : d = conv[Joiner][k] /\ e = conv'[Joiner][k] OBVIOUS
    <3>2. Sound(d) /\ Sound(Idle) BY <1>c, <3>1, IdleSound
    <3>3. up'[Joiner] = IF n = Joiner THEN FALSE ELSE up[Joiner] BY <1>0, <2>1, <2>2
    <3>4. CASE e = Idle BY <2>1, <2>4, <3>1, <3>2, <3>3, <3>4 DEF Sound
    <3>5. CASE e = d /\ (n = Joiner => d.pc = "idle")
      BY <2>1, <3>1, <3>2, <3>3, <3>5 DEF Sound
    <3>6. CASE /\ d.pc \in Answering /\ e.pc = d.pc /\ e.peer = d.peer /\ ~e.live
               /\ e.snap = d.snap
      <4>1. d.pc \notin Asking BY <3>6 DEF Asking, Answering
      <4> QED BY <2>1, <3>1, <3>2, <3>3, <3>6, <4>1 DEF Sound
    <3> QED BY <2>9, <3>1, <3>4, <3>5, <3>6
  <2>11. JoinSound(conv[Joiner]["join"])'
    <3>1. PICK d, e : d = join /\ e = conv'[Joiner]["join"] OBVIOUS
    <3>2. pulling[Joiner] = FALSE => pulling'[Joiner] = FALSE BY <1>0, <2>1, <2>2
    <3>3. pull.pc = "idle" => conv'[Joiner]["pull"].pc = "idle" BY <1>0, <2>5
    <3>4. CASE e = Idle BY <2>4, <3>1, <3>4 DEF JoinSound
    <3>5. CASE e.pc = d.pc /\ e.id = d.id /\ (e.live => d.live)
      BY <1>0, <1>c, <2>1, <2>2, <3>1, <3>2, <3>3, <3>5 DEF JoinSound
    <3> QED BY <1>0, <2>9, <3>1, <3>4, <3>5
  <2> QED BY <1>0, <2>6, <2>7, <2>8, <2>10, <2>11 DEF CopyInv
<1>21. ASSUME NEW n \in Nodes, Restart(n) PROVE CopyInv'
  <2>1. PICK r : /\ r = IF meta[n].role = "secondary" THEN "secondary" ELSE StartRole[n]
                 /\ ~up[n] /\ up' = [up EXCEPT ![n] = TRUE]
                 /\ meta' = [meta EXCEPT ![n].role = r]
                 /\ pulling' = [pulling EXCEPT ![n] = r = "secondary"]
                 /\ table' = table /\ conv' = conv
    BY <1>21 DEF Restart
  <2>2. up \in [Nodes -> BOOLEAN] /\ pulling \in [Nodes -> BOOLEAN] BY <1>0 DEF TypeInv, TypeOK
  <2>3. \A m \in Nodes : /\ meta'[m].secret = meta[m].secret /\ meta'[m].url = meta[m].url
                         /\ m # n => meta'[m] = meta[m]
    BY <1>0, <2>1 DEF Metas
  <2>4. CASE n # Joiner
    <3>1. Apart BY <1>0, <2>1, <2>2, <2>3, <2>4 DEF Apart
    <3> QED BY <1>0, <2>1, <3>1, ElsewhereStep, SameTables
  <2>5. CASE n = Joiner
    <3>1. up'[Joiner] /\ ~up[Joiner] BY <1>0, <2>1, <2>2, <2>5
    <3>2. meta'[Joiner].role = r /\ (pulling'[Joiner] <=> r = "secondary")
      <4>1. meta'[Joiner].role = r BY <1>0, <2>1, <2>5 DEF Metas
      <4>2. pulling'[Joiner] = (r = "secondary") BY <1>0, <2>1, <2>2, <2>5
      <4> QED BY <4>1, <4>2
    <3>3. meta[Joiner].secret = 0 => r = "primary"
      BY <1>c, <2>1, <2>5, JoinAssumption DEF JoinerKnows
    <3>4. PrimAlone' BY <1>0, <1>c, <2>1, <2>3 DEF PrimAlone
    <3>5. JoinerKnows' BY <1>0, <1>c, <2>1, <2>3, <3>1, <3>2, <3>3 DEF JoinerKnows
    <3>6. CopyKnown' BY <1>c, <2>1 DEF CopyKnown
    <3>7. ASSUME NEW k \in Kinds PROVE Sound(conv[Joiner][k])'
      <4>1. Sound(conv[Joiner][k]) BY <1>c
      <4> QED BY <2>1, <3>1, <4>1 DEF Sound
    <3>8. join.pc = "idle" \/ ~join.live BY <1>0, <1>c, <3>1 DEF Sound
    <3>9. JoinSound(conv[Joiner]["join"])'
      BY <1>0, <1>c, <2>1, <2>3, <3>8 DEF JoinSound
    <3> QED BY <1>0, <3>4, <3>5, <3>6, <3>7, <3>9 DEF CopyInv
  <2> QED BY <2>4, <2>5
<1>22. CASE UNCHANGED vars
  <2>1. Grows /\ Apart /\ conv' = conv BY <1>22, SameTables DEF vars, Apart
  <2> QED BY <1>0, <2>1, ElsewhereStep
<1> QED
  BY <1>1, <1>5, <1>6, <1>7, <1>8, <1>9, <1>10, <1>11, <1>12, <1>13, <1>14, <1>15, <1>16, <1>f,
     <1>17, <1>18, <1>19, <1>20, <1>21, <1>22
  DEF Next, ServerStep, ClientStep

LEMMA CopyInvariant == Spec => []CopyInv
<1>1. ASSUME Init PROVE CopyInv
  <2>1. /\ TypeInv /\ Prim \in Nodes /\ Joiner \in Nodes /\ Prim # Joiner
        /\ "join" \in Kinds /\ "pull" \in Kinds /\ StartRole[Joiner] = "primary"
    BY <1>1, InitTyped, JoinAssumption DEF Kinds
  <2>2. Idle.pc = "idle" BY DEF Idle
  <2>3. \A n \in Nodes, k \in Kinds : conv[n][k] = Idle BY <1>1 DEF Init
  <2>4. PrimAlone BY <1>1, <2>1, <2>2, <2>3 DEF Init, PrimAlone
  <2>5. JoinerKnows BY <1>1, <2>1, <2>2, <2>3 DEF Init, JoinerKnows
  <2>6. CopyKnown BY <1>1, <2>1 DEF Init, CopyKnown, NoContent, Part
  <2>7. \A k \in Kinds : Sound(conv[Joiner][k]) BY <2>1, <2>3, IdleSound
  <2>8. JoinSound(conv[Joiner]["join"]) BY <2>1, <2>2, <2>3 DEF JoinSound
  <2> QED BY <2>1, <2>4, <2>5, <2>6, <2>7, <2>8 DEF CopyInv
<1> QED BY <1>1, CopyStep, PTL DEF Spec

(* Joiner takes something over.                                            *)
Takes ==
    \A t \in Tables : /\ table'[Prim][t] = table[Prim][t]
                      /\ Part(table[Joiner][t]) \subseteq table'[Joiner][t]

LEMMA TableStep == CopyInv /\ [Next]_vars => Grows \/ Takes
<1> SUFFICES ASSUME CopyInv, [Next]_vars PROVE Grows \/ Takes OBVIOUS
<1>0. /\ TypeInv /\ table \in [Nodes -> Content]
      /\ Prim \in Nodes /\ Joiner \in Nodes /\ Prim # Joiner
      /\ PrimAlone /\ \A k \in Kinds : Sound(conv[Joiner][k])
  BY JoinAssumption DEF CopyInv, TypeInv, TypeOK
<1>1. CASE table' = table BY <1>1, SameTables
<1>2. ASSUME NEW n \in Nodes, NEW t \in Tables, AddChange(n, t) PROVE Grows
  BY <1>2, AddChangeGrows
<1>3. ASSUME NEW n \in Nodes, NEW k \in Kinds, ApplySnapshot(n, k) PROVE Grows \/ Takes
  <2>1. /\ conv[n][k].pc = "tx"
        /\ table' = [table EXCEPT ![n]["users"] = conv[n][k].snap["users"]]
    BY <1>3 DEF ApplySnapshot, At
  <2>2. ASSUME NEW m \in Nodes, NEW t \in Tables
        PROVE  table'[m][t] = IF m = n /\ t = "users" THEN conv[n][k].snap["users"]
                                                      ELSE table[m][t]
    BY <1>0, <2>1 DEF Content, Tables
  <2>3. n # Prim BY <1>0, <2>1 DEF PrimAlone
  <2>4. CASE n # Joiner BY <1>0, <2>2, <2>3, <2>4 DEF Grows
  <2>5. CASE n = Joiner
    <3>1. Part(table[Joiner]["users"]) \subseteq conv[Joiner][k].snap["users"]
      BY <1>0, <2>1, <2>5 DEF Sound, Asking, Carrying
    <3>2. \A t \in Tables : Part(table[Joiner][t]) \subseteq table'[Joiner][t]
      BY <1>0, <2>2, <2>5, <3>1 DEF Part
    <3> QED BY <1>0, <2>2, <2>3, <3>2 DEF Takes
  <2> QED BY <2>4, <2>5
<1>4. ASSUME NEW n \in Nodes, NEW k \in Kinds, ApplyViews(n, k) PROVE Grows \/ Takes
  <2>1. /\ conv[n][k].pc = "apply"
        /\ table' = [table EXCEPT ![n]["views"] = @ \cup conv[n][k].snap["views"]]
    BY <1>4 DEF ApplyViews, At
  <2>2. ASSUME NEW m \in Nodes, NEW t \in Tables
        PROVE  table'[m][t] = IF m = n /\ t = "views" THEN table[m][t] \cup conv[n][k].snap["views"]
                                                      ELSE table[m][t]
    BY <1>0, <2>1 DEF Content, Tables
  <2>3. n # Prim BY <1>0, <2>1 DEF PrimAlone
  <2>4. CASE n # Joiner BY <1>0, <2>2, <2>3, <2>4 DEF Grows
  <2>5. CASE n = Joiner
    <3>1. \A t \in Tables : Part(table[Joiner][t]) \subseteq table'[Joiner][t]
      BY <1>0, <2>2, <2>5 DEF Part
    <3> QED BY <1>0, <2>2, <2>3, <3>1 DEF Takes
  <2> QED BY <2>4, <2>5
<1>5. ASSUME NEW n \in Nodes, EnsureSelfMember(n) \/ InsertMember(n) PROVE Grows
  <2>1. conv[n]["join"].peer \in Nodes /\ AddChange(conv[n]["join"].peer, "users")
    BY <1>0, <1>5 DEF EnsureSelfMember, InsertMember, Serving, TypeInv, Addressed, Kinds
  <2> QED BY <1>2, <2>1 DEF Tables
<1>6. ASSUME NEW n \in Nodes,
             \/ \E t \in Tables : Write(n, t)
             \/ OIDCProvision(n) \/ \E m \in members[n] : DeleteMember(n, m)
      PROVE  Grows
  BY <1>2, <1>6 DEF Write, OIDCProvision, DeleteMember, Tables
<1>7. ASSUME NEW n \in Nodes,
             \/ Bump(n) \/ Pull(n) \/ Crash(n) \/ Restart(n)
             \/ \E k \in Tokens : CreateJoinToken(n, k) \/ TokenExpires(n, k)
             \/ \E p \in Nodes, k \in Tokens : Connect(n, p, k)
             \/ JoinConsume(n) \/ JoinBump(n) \/ MemberAuth(n) \/ AcceptJoin(n) \/ Compare(n)
             \/ \E k \in Kinds : \/ ReadTables(n, k) \/ ReadGeneration(n, k)
                                 \/ AttachViews(n, k) \/ Lose(n, k) \/ ApplyFails(n, k)
      PROVE  table' = table
  BY <1>7 DEF Bump, Pull, Crash, Restart, CreateJoinToken, TokenExpires, Connect, JoinConsume,
              JoinBump, MemberAuth, AcceptJoin, Compare, ReadTables, ReadGeneration,
              AttachViews, Lose, ApplyFails
<1>8. CASE UNCHANGED vars BY <1>1, <1>8 DEF vars
<1> QED BY <1>1, <1>3, <1>4, <1>5, <1>6, <1>7, <1>8 DEF Next, ServerStep, ClientStep

(* The copy Joiner keeps implements ConfigReplica, in a cluster of any     *)
(* size: whatever is lost and whoever crashes, it holds nothing Prim has   *)
(* not written and gives up nothing it has taken over (pullSnapshot,       *)
(* acceptJoin, ApplySnapshot, replaceViewsFromSnap).                       *)
THEOREM CopyFollows == Spec => ReplicaSpec
<1>1. ASSUME Init PROVE Replica!Init
  <2>1. Prim \in Nodes /\ Joiner \in Nodes BY JoinAssumption
  <2>2. \A t \in Tables : table[Prim][t] = {} /\ table[Joiner][t] = {}
    BY <1>1, <2>1 DEF Init, NoContent
  <2> QED BY <2>2 DEF Replica!Init, Of
<1>2. ASSUME CopyInv, CopyInv', [Next]_vars
      PROVE  [Replica!Next]_<<Of(Prim, Prim), Of(Prim, Joiner)>>
  <2>1. \A n \in Nodes, t \in Tables : /\ Of(Prim, n)[t] = Part(table[n][t])
                                       /\ Of(Prim, n)'[t] = Part(table'[n][t])
    BY DEF Of, Part
  <2>2. Prim \in Nodes /\ Joiner \in Nodes BY JoinAssumption
  <2>3. CASE Grows
    <3>1. Of(Prim, Joiner)' = Of(Prim, Joiner) BY <2>3 DEF Grows, Of, Part
    <3>2. \A t \in Tables : Of(Prim, Prim)[t] \subseteq Of(Prim, Prim)'[t]
      BY <2>1, <2>2, <2>3 DEF Grows, Part
    <3> QED BY <3>1, <3>2 DEF Replica!Next, Replica!Change
  <2>4. CASE Takes
    <3>1. Of(Prim, Prim)' = Of(Prim, Prim) BY <2>4 DEF Takes, Of
    <3>2. ASSUME NEW t \in Tables
          PROVE  /\ Of(Prim, Joiner)[t] \subseteq Of(Prim, Joiner)'[t]
                 /\ Of(Prim, Joiner)'[t] \subseteq Of(Prim, Prim)[t]
      <4>1. /\ Part(table[Joiner][t]) \subseteq Part(table'[Joiner][t])
            /\ table'[Prim][t] = table[Prim][t]
        BY <2>4 DEF Takes, Part
      <4>2. Part(table'[Joiner][t]) \subseteq table'[Prim][t] BY <1>2 DEF CopyInv, CopyKnown
      <4>3. Part(table'[Joiner][t]) \subseteq Part(table[Prim][t]) BY <4>1, <4>2 DEF Part
      <4> QED BY <2>1, <2>2, <4>1, <4>3
    <3> QED BY <3>1, <3>2 DEF Replica!Next, Replica!Sync
  <2> QED BY <1>2, <2>3, <2>4, TableStep
<1> QED BY <1>1, <1>2, CopyInvariant, PTL DEF Spec, ReplicaSpec, Replica!Spec
----------------------------------------------------------------------------
(* The promise of the views, for every node of a cluster in which nobody   *)
(* joins a node that may itself be told to join: the generation of such a  *)
(* node only ever rises, so that no number stands for two contents.        *)

Source(p) == \A r \in Nodes : <<p, r>> \notin Joins

TwoLevels == \A n \in Nodes, q \in Nodes : <<n, q>> \in Joins => Source(q)

(* The views s hold all p had promised for generation g, and before.       *)
Kept(p, g, s) ==
    /\ g <= gen[p]
    /\ \A x \in promised[p] : x.g <= g => x.content["views"] \subseteq s

(* A node that joins nobody asks nothing, and still has what it promised.  *)
SourceKeeps(p) ==
    /\ \A k \in Kinds : conv[p][k].pc = "idle"
    /\ meta[p].url = None
    /\ \A x \in promised[p] : /\ x.g # 0 /\ x.g <= gen[p]
                              /\ x.content["views"] \subseteq table[p]["views"]

(* A conversation: whom it is with, how far acceptJoin has come, and, once *)
(* the answer is there, what is in it.                                     *)
Joined   == {"role", "tx", "apply"}
Welcomed == {"bump", "users", "gen", "views", "answer", "secret"}

Talks(n, k, c) ==
    /\ c.pc # "idle" => Source(c.peer)
    /\ k = "pull" /\ c.pc # "idle" => c.peer = meta[n].url
    /\ k = "join" /\ c.pc \in Joined => meta[n].url = c.peer
    /\ k = "join" /\ c.pc \notin {"idle"} \cup Joined => meta[n].url = None
    /\ k = "join" /\ c.pc \in Welcomed => c.id # 0
    /\ k = "join" /\ c.pc = "url" => meta[n].secret # 0

Brings(c) ==
    /\ c.pc = "views" => c.g <= gen[c.peer]
    /\ c.pc \in Asking => Kept(c.peer, c.g, c.snap["views"])

(* What a node has copied, and from whom.                                  *)
Follows(n) ==
    /\ meta[n].url # None => /\ Source(meta[n].url) /\ meta[n].secret # 0
                             /\ Kept(meta[n].url, copied[n], table[n]["views"])
    /\ meta[n].url = None => copied[n] = 0

PromiseInv ==
    /\ TypeInv /\ TwoLevels
    /\ \A p \in Nodes : Source(p) => SourceKeeps(p)
    /\ \A n \in Nodes : Follows(n)
    /\ \A n \in Nodes, k \in Kinds : Talks(n, k, conv[n][k]) /\ Brings(conv[n][k])

(* What a step may do to the numbers of a node nobody writes to but itself. *)
Forward(p) ==
    \/ gen'[p] = gen[p] /\ promised'[p] = promised[p]
    \/ /\ gen'[p] = gen[p] + 1
       /\ promised'[p] = promised[p] \cup {[g |-> gen[p] + 1, content |-> table[p]]}

Onward == 
    /\ \A m \in Nodes : table[m]["views"] \subseteq table'[m]["views"]
    /\ \A p \in Nodes : Source(p) => Forward(p)

LEMMA KeptOn ==
  ASSUME TypeInv, NEW p \in Nodes, Forward(p), NEW g \in Nat, NEW s, NEW s2,
         Kept(p, g, s), s \subseteq s2
  PROVE  Kept(p, g, s2)'
<1>1. gen[p] \in Nat /\ gen'[p] \in {gen[p], gen[p] + 1} BY DEF TypeInv, TypeOK, Forward
<1>2. g <= gen[p] /\ g <= gen'[p] BY <1>1 DEF Kept
<1>3. ASSUME NEW x \in promised'[p], x.g <= g PROVE x.content["views"] \subseteq s2
  <2>1. CASE x \in promised[p] BY <1>3, <2>1 DEF Kept
  <2>2. CASE x = [g |-> gen[p] + 1, content |-> table[p]] BY <1>1, <1>2, <1>3, <2>2
  <2> QED BY <1>3, <2>1, <2>2 DEF Forward
<1> QED BY <1>2, <1>3 DEF Kept

(* Views are only ever added; a node that joins nobody numbers its own     *)
(* contents.                                                               *)
LEMMA OnwardStep == PromiseInv /\ [Next]_vars => Onward
<1> SUFFICES ASSUME PromiseInv, [Next]_vars PROVE Onward OBVIOUS
<1>0. /\ TypeInv /\ table \in [Nodes -> Content] /\ gen \in [Nodes -> Nat]
      /\ promised \in [Nodes -> SUBSET [g : Nat, content : Content]]
      /\ \A p \in Nodes : Source(p) => SourceKeeps(p)
  BY DEF PromiseInv, TypeInv, TypeOK
<1>1. ASSUME table' = table PROVE \A m \in Nodes : table[m]["views"] \subseteq table'[m]["views"]
  BY <1>1
<1>2. ASSUME gen' = gen, promised' = promised PROVE \A p \in Nodes : Source(p) => Forward(p)
  BY <1>2 DEF Forward
<1>3. ASSUME NEW n \in Nodes, NEW t \in Tables, AddChange(n, t)
      PROVE  \A m \in Nodes : table[m]["views"] \subseteq table'[m]["views"]
  <2>1. ASSUME NEW m \in Nodes
        PROVE  table'[m]["views"] = IF m = n /\ t = "views"
                                    THEN table[m]["views"] \cup {<<n, made[n] + 1>>}
                                    ELSE table[m]["views"]
    BY <1>0, <1>3 DEF AddChange, Content, Tables
  <2> QED BY <2>1
<1>4. ASSUME NEW n \in Nodes, BumpGeneration(n) PROVE \A p \in Nodes : Source(p) => Forward(p)
  BY <1>0, <1>4 DEF BumpGeneration, Forward
<1>5. ASSUME NEW n \in Nodes, NEW k \in Kinds, ApplySnapshot(n, k) PROVE Onward
  <2>1. /\ conv[n][k].pc = "tx" /\ promised' = promised
        /\ table' = [table EXCEPT ![n]["users"] = conv[n][k].snap["users"]]
        /\ gen' = [gen EXCEPT ![n] = conv[n][k].g]
    BY <1>5 DEF ApplySnapshot, At
  <2>2. \A m \in Nodes : table'[m]["views"] = table[m]["views"]
    BY <1>0, <2>1 DEF Content, Tables
  <2>3. ~Source(n) BY <1>0, <2>1 DEF SourceKeeps
  <2>4. \A p \in Nodes : Source(p) => gen'[p] = gen[p] BY <1>0, <2>1, <2>3
  <2> QED BY <2>1, <2>2, <2>4 DEF Onward, Forward
<1>6. ASSUME NEW n \in Nodes, NEW k \in Kinds, ApplyViews(n, k) PROVE Onward
  <2>1. table' = [table EXCEPT ![n]["views"] = @ \cup conv[n][k].snap["views"]]
    BY <1>6 DEF ApplyViews
  <2>2. ASSUME NEW m \in Nodes
        PROVE  table'[m]["views"] = IF m = n THEN table[m]["views"] \cup conv[n][k].snap["views"]
                                             ELSE table[m]["views"]
    BY <1>0, <2>1 DEF Content, Tables
  <2>3. \A m \in Nodes : table[m]["views"] \subseteq table'[m]["views"] BY <2>2
  <2> QED BY <1>2, <1>6, <2>3 DEF ApplyViews, Onward
<1>7. ASSUME NEW n \in Nodes, EnsureSelfMember(n) \/ InsertMember(n) PROVE Onward
  <2>1. conv[n]["join"].peer \in Nodes /\ AddChange(conv[n]["join"].peer, "users")
    BY <1>0, <1>7 DEF EnsureSelfMember, InsertMember, Serving, TypeInv, Addressed, Kinds
  <2>2. gen' = gen /\ promised' = promised BY <1>7 DEF EnsureSelfMember, InsertMember
  <2> QED BY <1>2, <1>3, <2>1, <2>2 DEF Tables, Onward
<1>8. ASSUME NEW n \in Nodes,
             \/ \E t \in Tables : Write(n, t)
             \/ OIDCProvision(n) \/ \E m \in members[n] : DeleteMember(n, m)
      PROVE  Onward
  <2>1. PICK t \in Tables : AddChange(n, t)
    BY <1>8 DEF Write, OIDCProvision, DeleteMember, Tables
  <2>2. gen' = gen /\ promised' = promised BY <1>8 DEF Write, OIDCProvision, DeleteMember
  <2> QED BY <1>2, <1>3, <2>1, <2>2 DEF Onward
<1>9. ASSUME NEW n \in Nodes, Bump(n) PROVE Onward
  BY <1>1, <1>4, <1>9 DEF Bump, Onward
<1>10. ASSUME NEW n \in Nodes, JoinBump(n) PROVE Onward
  <2>1. conv[n]["join"].peer \in Nodes
    BY <1>0, <1>10 DEF JoinBump, Serving, TypeInv, Addressed, Kinds
  <2> QED BY <1>1, <1>4, <1>10, <2>1 DEF JoinBump, Onward
<1>11. ASSUME NEW n \in Nodes,
              \/ Pull(n) \/ Crash(n) \/ Restart(n)
              \/ \E k \in Tokens : CreateJoinToken(n, k) \/ TokenExpires(n, k)
              \/ \E p \in Nodes, k \in Tokens : Connect(n, p, k)
              \/ JoinConsume(n) \/ MemberAuth(n) \/ AcceptJoin(n) \/ Compare(n)
              \/ \E k \in Kinds : \/ ReadTables(n, k) \/ ReadGeneration(n, k)
                                  \/ AttachViews(n, k) \/ Lose(n, k) \/ ApplyFails(n, k)
       PROVE  Onward
  <2>1. table' = table /\ gen' = gen /\ promised' = promised
    BY <1>11 DEF Pull, Crash, Restart, CreateJoinToken, TokenExpires, Connect, JoinConsume,
                 MemberAuth, AcceptJoin, Compare, ReadTables, ReadGeneration, AttachViews, Lose,
                 ApplyFails
  <2> QED BY <1>1, <1>2, <2>1 DEF Onward
<1>12. CASE UNCHANGED vars BY <1>1, <1>2, <1>12 DEF vars, Onward
<1> QED BY <1>5, <1>6, <1>7, <1>8, <1>9, <1>10, <1>11, <1>12 DEF Next, ServerStep, ClientStep

(* What a step keeps of the parts it does not touch.                       *)
LEMMA SourceOn ==
  ASSUME PromiseInv, Onward, NEW p \in Nodes, Source(p)
  PROVE  \A x \in promised'[p] : /\ x.g # 0 /\ x.g <= gen'[p]
                                 /\ x.content["views"] \subseteq table'[p]["views"]
<1>0. /\ gen[p] \in Nat /\ SourceKeeps(p) /\ Forward(p)
      /\ table[p]["views"] \subseteq table'[p]["views"]
      /\ promised[p] \in SUBSET [g : Nat, content : Content]
  BY DEF PromiseInv, TypeInv, TypeOK, Onward
<1> SUFFICES ASSUME NEW x \in promised'[p]
             PROVE  /\ x.g # 0 /\ x.g <= gen'[p]
                    /\ x.content["views"] \subseteq table'[p]["views"]
  OBVIOUS
<1>1. CASE x \in promised[p]
  <2>1. x.g \in Nat /\ x.g # 0 /\ x.g <= gen[p] /\ x.content["views"] \subseteq table[p]["views"]
    BY <1>0, <1>1 DEF SourceKeeps
  <2>2. gen'[p] \in {gen[p], gen[p] + 1} BY <1>0 DEF Forward
  <2> QED BY <1>0, <2>1, <2>2
<1>2. CASE x = [g |-> gen[p] + 1, content |-> table[p]] /\ gen'[p] = gen[p] + 1
  BY <1>0, <1>2
<1> QED BY <1>0, <1>1, <1>2 DEF Forward

LEMMA FollowsOn ==
  ASSUME PromiseInv, Onward, NEW n \in Nodes, copied'[n] = copied[n],
         meta'[n].url = meta[n].url, meta[n].secret # 0 => meta'[n].secret # 0
  PROVE  Follows(n)'
<1>0. /\ TypeInv /\ copied[n] \in Nat /\ Follows(n) /\ meta[n].url \in Nodes \cup {None}
      /\ table[n]["views"] \subseteq table'[n]["views"]
  BY DEF PromiseInv, TypeInv, TypeOK, Metas, Onward
<1>1. CASE meta[n].url = None BY <1>0, <1>1 DEF Follows
<1>2. CASE meta[n].url # None
  <2>1. PICK q, g, s, v : /\ q = meta[n].url /\ g = copied[n]
                          /\ s = table[n]["views"] /\ v = table'[n]["views"]
    OBVIOUS
  <2>2. q \in Nodes /\ Source(q) /\ Kept(q, g, s) /\ g \in Nat /\ s \subseteq v
    BY <1>0, <1>2, <2>1 DEF Follows
  <2>3. Forward(q) BY <2>2 DEF Onward
  <2>4. Kept(q, g, v)' BY <1>0, <2>2, <2>3, KeptOn
  <2>5. Kept(meta[n].url, copied[n], table[n]["views"])' BY <2>1, <2>4 DEF Kept
  <2>6. meta[n].secret # 0 BY <1>0, <1>2 DEF Follows
  <2>7. Source(meta[n].url)' BY <2>1, <2>2 DEF Source
  <2> QED BY <1>2, <2>5, <2>6, <2>7 DEF Follows
<1> QED BY <1>1, <1>2

LEMMA BringsOn ==
  ASSUME PromiseInv, Onward, NEW c \in Convs, Brings(c),
         c.pc # "idle" => c.peer \in Nodes /\ Source(c.peer)
  PROVE  Brings(c)'
<1>1. CASE c.pc = "views"
  <2>1. c.g <= gen[c.peer] /\ Forward(c.peer) BY <1>1 DEF Brings, Onward
  <2>2. c.g \in Nat /\ gen[c.peer] \in Nat BY <1>1 DEF Convs, PromiseInv, TypeInv, TypeOK
  <2>3. gen'[c.peer] \in {gen[c.peer], gen[c.peer] + 1} BY <2>1 DEF Forward
  <2>4. c.g <= gen'[c.peer] BY <2>1, <2>2, <2>3
  <2> QED BY <1>1, <2>4 DEF Brings, Asking
<1>2. CASE c.pc \in Asking
  <2>1. c.pc # "idle" /\ c.pc # "views" BY <1>2 DEF Asking
  <2>2. Kept(c.peer, c.g, c.snap["views"]) /\ Forward(c.peer)
    BY <1>2, <2>1 DEF Brings, Onward
  <2>3. c.g \in Nat /\ TypeInv BY DEF Convs, PromiseInv
  <2>4. Kept(c.peer, c.g, c.snap["views"])' BY <2>1, <2>2, <2>3, KeptOn
  <2> QED BY <2>1, <2>4 DEF Brings
<1>3. CASE c.pc \notin {"views"} \cup Asking BY <1>3 DEF Brings
<1> QED BY <1>1, <1>2, <1>3

LEMMA TalksOn ==
  ASSUME NEW n \in Nodes, NEW k \in Kinds, NEW c, Talks(n, k, c),
         meta'[n].url = meta[n].url, meta[n].secret # 0 => meta'[n].secret # 0
  PROVE  Talks(n, k, c)'
BY DEF Talks, Source

(* One conversation is replaced; the others of a node whose primary or     *)
(* secret changes are over.                                                *)
SameMaster(m) ==
    meta'[m].url = meta[m].url /\ (meta[m].secret # 0 => meta'[m].secret # 0)

LEMMA ReplaceStep ==
  ASSUME PromiseInv, TypeInv', Onward, NEW n \in Nodes, NEW k \in Kinds, NEW c \in Convs,
         Becomes(n, k, c),
         c.pc # "idle" => ~Source(n),
         \A m \in Nodes, j \in Kinds :
           m # n \/ j # k => conv[m][j].pc = "idle" \/ SameMaster(m),
         \A p \in Nodes : Source(p) => meta'[p].url = None,
         \A m \in Nodes : Follows(m)',
         Talks(n, k, c)', Brings(c)'
  PROVE  PromiseInv'
<1>0. TypeInv /\ TwoLevels BY DEF PromiseInv
<1>1. ASSUME NEW m \in Nodes, NEW j \in Kinds
      PROVE  conv'[m][j] = IF m = n /\ j = k THEN c ELSE conv[m][j]
  BY <1>0, ConvAt
<1>2. TwoLevels' BY <1>0 DEF TwoLevels, Source
<1>3. ASSUME NEW p \in Nodes, Source(p)' PROVE SourceKeeps(p)'
  <2>1. Source(p) BY <1>3 DEF Source
  <2>2. SourceKeeps(p) BY <2>1 DEF PromiseInv
  <2>3. \A j \in Kinds : conv'[p][j].pc = "idle" BY <1>1, <2>1, <2>2 DEF SourceKeeps
  <2> QED BY <2>1, <2>3, SourceOn DEF SourceKeeps
<1>4. ASSUME NEW m \in Nodes, NEW j \in Kinds
      PROVE  Talks(m, j, conv[m][j])' /\ Brings(conv[m][j])'
  <2>1. PICK d, e : d = conv[m][j] /\ e = conv'[m][j] OBVIOUS
  <2>2. CASE m = n /\ j = k
    <3>1. e = c BY <1>1, <2>1, <2>2
    <3> QED BY <2>1, <2>2, <3>1 DEF Talks, Brings, Kept
  <2>3. CASE ~(m = n /\ j = k)
    <3>1. e = d BY <1>1, <2>1, <2>3
    <3>2. /\ d \in Convs /\ Talks(m, j, d) /\ Brings(d)
          /\ d.pc # "idle" => d.peer \in Nodes
      BY <1>0, <2>1 DEF PromiseInv, TypeInv, TypeOK, Addressed
    <3>3. d.pc # "idle" => Source(d.peer) BY <3>2 DEF Talks
    <3>4. Talks(m, j, d)'
      <4>1. CASE d.pc = "idle" BY <4>1 DEF Talks, Joined, Welcomed
      <4>2. CASE SameMaster(m) BY <3>2, <4>2, TalksOn DEF SameMaster
      <4> QED BY <2>1, <2>3, <4>1, <4>2
    <3>5. Brings(d)' BY <3>2, <3>3, BringsOn
    <3> QED BY <2>1, <3>1, <3>4, <3>5 DEF Talks, Brings, Kept
  <2> QED BY <2>2, <2>3
<1> QED BY <1>2, <1>3, <1>4 DEF PromiseInv

(* Nothing that counts is saved.                                           *)
LEMMA MoveStep ==
  ASSUME PromiseInv, TypeInv', Onward, NEW n \in Nodes, NEW k \in Kinds, NEW c \in Convs,
         Becomes(n, k, c), copied' = copied,
         \A m \in Nodes : SameMaster(m),
         c.pc # "idle" => ~Source(n),
         Talks(n, k, c)', Brings(c)'
  PROVE  PromiseInv'
<1>1. ASSUME NEW m \in Nodes PROVE Follows(m)' BY FollowsOn DEF SameMaster
<1>2. \A p \in Nodes : Source(p) => meta'[p].url = None
  BY DEF PromiseInv, SourceKeeps, SameMaster
<1> QED BY <1>1, <1>2, ReplaceStep

(* The same conversation, or one with another stage and other data.        *)
LEMMA MovesOn ==
  ASSUME PromiseInv, TypeInv', Onward, NEW n \in Nodes, NEW k \in Kinds, NEW c \in Convs,
         Becomes(n, k, c), copied' = copied, meta' = meta,
         conv[n][k].pc # "idle", c.pc \notin {"idle", "url"}, c.peer = conv[n][k].peer,
         k = "join" => (c.pc \in Joined <=> conv[n][k].pc \in Joined),
         k = "join" /\ c.pc \in Welcomed => c.id # 0,
         Brings(c)'
  PROVE  PromiseInv'
<1>1. PICK d : d = conv[n][k] OBVIOUS
<1>2. Talks(n, k, d) /\ d.peer \in Nodes BY <1>1 DEF PromiseInv, TypeInv, Addressed
<1>3. Talks(n, k, c) BY <1>1, <1>2 DEF Talks
<1>4. ~Source(n) BY DEF PromiseInv, SourceKeeps
<1>5. \A m \in Nodes : SameMaster(m) BY DEF SameMaster
<1>6. Talks(n, k, c)' BY <1>3, <1>5, TalksOn DEF SameMaster
<1> QED BY <1>4, <1>5, <1>6, MoveStep

LEMMA HangsUp ==
  ASSUME PromiseInv, TypeInv', Onward, NEW n \in Nodes, NEW k \in Kinds,
         Hangup(n, k), copied' = copied, meta' = meta
  PROVE  PromiseInv'
<1>1. Becomes(n, k, Idle) BY DEF Hangup, Becomes
<1>2. Idle.pc = "idle" /\ Idle \in Convs BY IdleTyped DEF Idle
<1>3. PICK c : c = Idle OBVIOUS
<1>4. Talks(n, k, c)' /\ Brings(c)'
  BY <1>2, <1>3 DEF Talks, Brings, Joined, Welcomed, Asking
<1>5. \A m \in Nodes : SameMaster(m) BY DEF SameMaster
<1> QED BY <1>1, <1>2, <1>3, <1>4, <1>5, MoveStep

LEMMA TalksNot ==
  ASSUME PromiseInv, TypeInv', Onward, conv' = conv, copied' = copied,
         \A m \in Nodes : SameMaster(m)
  PROVE  PromiseInv'
<1>1. Prim \in Nodes /\ "join" \in Kinds BY JoinAssumption DEF Kinds
<1>2. PICK c : c = conv[Prim]["join"] OBVIOUS
<1>3. conv \in [Nodes -> [Kinds -> Convs]] BY DEF PromiseInv, TypeInv, TypeOK
<1>4. /\ c \in Convs /\ Talks(Prim, "join", c) /\ Brings(c)
      /\ c.pc # "idle" => ~Source(Prim) /\ c.peer \in Nodes
  BY <1>1, <1>2, <1>3 DEF PromiseInv, SourceKeeps, TypeInv, Addressed
<1>5. Becomes(Prim, "join", c) BY <1>1, <1>2, <1>3 DEF Becomes
<1>6. c.pc # "idle" => Source(c.peer) BY <1>4 DEF Talks
<1>7. Brings(c)' BY <1>4, <1>6, BringsOn
<1>8. Talks(Prim, "join", c)' BY <1>1, <1>4, TalksOn DEF SameMaster
<1> QED BY <1>1, <1>4, <1>5, <1>7, <1>8, MoveStep

LEMMA PromiseStep == PromiseInv /\ TypeInv' /\ [Next]_vars => PromiseInv'
<1> SUFFICES ASSUME PromiseInv, TypeInv', [Next]_vars PROVE PromiseInv' OBVIOUS
<1>0. /\ TypeInv /\ Onward /\ conv \in [Nodes -> [Kinds -> Convs]]
      /\ meta \in [Nodes -> Metas]
      /\ "join" \in Kinds /\ "pull" \in Kinds
  BY OnwardStep DEF PromiseInv, TypeInv, TypeOK, Kinds
<1>c. ASSUME NEW n \in Nodes, NEW k \in Kinds
      PROVE  /\ conv[n][k] \in Convs /\ Talks(n, k, conv[n][k]) /\ Brings(conv[n][k])
             /\ conv[n][k].pc # "idle" => /\ conv[n][k].peer \in Nodes
                                          /\ Source(conv[n][k].peer)
  BY <1>0 DEF PromiseInv, TypeInv, Addressed, Talks
<1>g. ASSUME NEW n \in Nodes, NEW k \in Kinds, NEW pc, Goto(n, k, pc),
             conv[n][k].pc # "idle", pc \in (Answering \cup Asking) \ {"views", "url"},
             meta' = meta, copied' = copied,
             k = "join" => (pc \in Joined <=> conv[n][k].pc \in Joined),
             k = "join" /\ pc \in Welcomed => conv[n][k].pc \in Welcomed,
             pc \in Asking => conv[n][k].pc \in Asking
      PROVE  PromiseInv'
  <2>1. PICK c \in Convs :
               /\ Becomes(n, k, c) /\ c.pc = pc /\ c.snap = conv[n][k].snap
               /\ c.peer = conv[n][k].peer /\ c.id = conv[n][k].id /\ c.g = conv[n][k].g
    BY <1>0, <1>g, GotoTyped
  <2>2. PICK d : d = conv[n][k] OBVIOUS
  <2>3. d \in Convs /\ Talks(n, k, d) /\ Brings(d) /\ d.peer \in Nodes /\ Source(d.peer)
    BY <1>c, <1>g, <2>2
  <2>4. Brings(d)' BY <1>0, <2>3, BringsOn
  <2>5. c.pc # "views" /\ (c.pc \in Asking => d.pc \in Asking) BY <1>g, <2>1, <2>2
  <2>6. Brings(c)' BY <2>1, <2>2, <2>4, <2>5 DEF Brings, Kept
  <2>7. k = "join" /\ c.pc \in Welcomed => c.id # 0 BY <1>g, <2>1, <2>2, <2>3 DEF Talks
  <2>8. c.pc \notin {"idle", "url"} BY <1>g, <2>1 DEF Answering, Asking
  <2> QED BY <1>0, <1>g, <2>1, <2>6, <2>7, <2>8, MovesOn
(* No conversation moves.                                                  *)
<1>1. ASSUME NEW n \in Nodes,
             \/ \E t \in Tables : Write(n, t)
             \/ OIDCProvision(n) \/ Bump(n) \/ \E m \in members[n] : DeleteMember(n, m)
             \/ \E k \in Tokens : CreateJoinToken(n, k) \/ TokenExpires(n, k)
      PROVE  PromiseInv'
  <2>1. conv' = conv /\ meta' = meta /\ copied' = copied
    BY <1>1 DEF Write, OIDCProvision, Bump, DeleteMember, CreateJoinToken, TokenExpires
  <2> QED BY <1>0, <2>1, TalksNot DEF SameMaster
<1>2. ASSUME NEW n \in Nodes, Restart(n) PROVE PromiseInv'
  <2>1. PICK r : /\ meta' = [meta EXCEPT ![n].role = r]
                 /\ conv' = conv /\ copied' = copied
    BY <1>2 DEF Restart
  <2>2. \A m \in Nodes : meta'[m].url = meta[m].url /\ meta'[m].secret = meta[m].secret
    BY <1>0, <2>1 DEF Metas
  <2> QED BY <1>0, <2>1, <2>2, TalksNot DEF SameMaster
<1>3. CASE UNCHANGED vars BY <1>0, <1>3, TalksNot DEF vars, SameMaster
(* A conversation begins.                                                  *)
<1>4. ASSUME NEW n \in Nodes, NEW p \in Nodes, NEW k \in Tokens, <<n, p>> \in Joins,
             Connect(n, p, k)
      PROVE  PromiseInv'
  <2>1. PICK c : c = [Idle EXCEPT !.pc = "consume", !.peer = p, !.tok = k] OBVIOUS
  <2>2. c \in Convs /\ c.pc = "consume" /\ c.peer = p BY <2>1, IdleTyped DEF Convs, Answering
  <2>3. Becomes(n, "join", c) BY <1>4, <2>1 DEF Connect, Becomes
  <2>4. ~Source(n) /\ Source(p) BY <1>4 DEF Source, PromiseInv, TwoLevels
  <2>5. meta[n].secret = 0 BY <1>4 DEF Connect, canJoinAsSecondary, alreadyJoined
  <2>6. meta[n].url = None BY <2>5 DEF PromiseInv, Follows
  <2>7. meta' = meta /\ copied' = copied BY <1>4 DEF Connect
  <2>8. Talks(n, "join", c)' BY <2>2, <2>4, <2>6, <2>7 DEF Talks, Joined, Welcomed, Source
  <2>9. Brings(c)' BY <2>2 DEF Brings, Asking
  <2> QED BY <1>0, <2>2, <2>3, <2>4, <2>7, <2>8, <2>9, MoveStep DEF SameMaster
<1>5. ASSUME NEW n \in Nodes, Pull(n) PROVE PromiseInv'
  <2>1. PICK c : c = [Idle EXCEPT !.pc = "auth", !.peer = meta[n].url, !.id = meta[n].secret]
    OBVIOUS
  <2>2. meta[n].url \in Nodes /\ meta[n].secret \in Nat /\ meta[n].url # None
    BY <1>0, <1>5 DEF Metas, Pull
  <2>3. c \in Convs /\ c.pc = "auth" /\ c.peer = meta[n].url
    BY <2>1, <2>2, IdleTyped DEF Convs, Answering
  <2>4. Becomes(n, "pull", c) BY <1>5, <2>1 DEF Pull, Becomes
  <2>5. ~Source(n) /\ Source(meta[n].url) BY <2>2 DEF PromiseInv, SourceKeeps, Follows
  <2>6. meta' = meta /\ copied' = copied BY <1>5 DEF Pull
  <2>7. Talks(n, "pull", c)' BY <2>3, <2>5, <2>6 DEF Talks, Source
  <2>8. Brings(c)' BY <2>3 DEF Brings, Asking
  <2> QED BY <1>0, <2>3, <2>4, <2>5, <2>6, <2>7, <2>8, MoveStep DEF SameMaster
(* The answering node.                                                     *)
<1>6. ASSUME NEW n \in Nodes, JoinConsume(n) PROVE PromiseInv'
  <2>1. /\ conv[n]["join"].pc = "consume" /\ meta' = meta /\ copied' = copied
    BY <1>6 DEF JoinConsume, Serving
  <2>2. CASE Hangup(n, "join") BY <1>0, <2>1, <2>2, HangsUp
  <2>3. ASSUME NEW pc \in {"member", "self"}, Goto(n, "join", pc) PROVE PromiseInv'
    BY <1>0, <1>g, <2>1, <2>3 DEF Answering, Asking, Joined, Welcomed
  <2>4. PICK pc \in {"member", "self"} : Hangup(n, "join") \/ Goto(n, "join", pc)
    BY <1>6 DEF JoinConsume
  <2> QED BY <2>2, <2>3, <2>4
<1>7. ASSUME NEW n \in Nodes, EnsureSelfMember(n) PROVE PromiseInv'
  BY <1>0, <1>7, <1>g DEF EnsureSelfMember, Serving, Answering, Asking, Joined, Welcomed
<1>8. ASSUME NEW n \in Nodes, InsertMember(n) PROVE PromiseInv'
  <2>1. PICK d, p : d = conv[n]["join"] /\ p = conv[n]["join"].peer OBVIOUS
  <2>2. PICK i, c : i = made[p] + 1 /\ c = [d EXCEPT !.pc = "bump", !.id = i] OBVIOUS
  <2>3. /\ d.pc = "member" /\ meta' = meta /\ copied' = copied
        /\ conv' = [conv EXCEPT ![n]["join"].pc = "bump", ![n]["join"].id = i]
    BY <1>8, <2>1, <2>2 DEF InsertMember, Serving
  <2>4. d \in Convs /\ p \in Nodes /\ i \in Nat /\ i # 0
    BY <1>0, <1>c, <2>1, <2>2, <2>3 DEF TypeInv, TypeOK
  <2>5. c \in Convs /\ c.pc = "bump" /\ c.peer = d.peer /\ c.id # 0
    BY <2>2, <2>4 DEF Convs, Answering
  <2>6. Becomes(n, "join", c) BY <1>0, <2>1, <2>2, <2>3, <2>4 DEF Becomes, Convs
  <2>7. Brings(c)' BY <2>5 DEF Brings, Asking
  <2> QED BY <1>0, <2>1, <2>3, <2>5, <2>6, <2>7, MovesOn DEF Joined, Welcomed
<1>9. ASSUME NEW n \in Nodes, JoinBump(n) PROVE PromiseInv'
  <2>1. meta' = meta /\ copied' = copied BY <1>9 DEF JoinBump
  <2>2. CASE conv[n]["join"].pc = "selfbump" /\ Goto(n, "join", "member")
    BY <1>0, <1>g, <2>1, <2>2 DEF Answering, Asking, Joined, Welcomed
  <2>3. CASE conv[n]["join"].pc = "bump" /\ Goto(n, "join", "users")
    BY <1>0, <1>g, <2>1, <2>3 DEF Answering, Asking, Joined, Welcomed
  <2> QED BY <1>9, <2>2, <2>3 DEF JoinBump, Serving
<1>10. ASSUME NEW n \in Nodes, MemberAuth(n) PROVE PromiseInv'
  <2>1. conv[n]["pull"].pc = "auth" /\ meta' = meta /\ copied' = copied
    BY <1>10 DEF MemberAuth, Serving
  <2>2. CASE Hangup(n, "pull") BY <1>0, <2>1, <2>2, HangsUp
  <2>3. CASE Goto(n, "pull", "users")
    BY <1>0, <1>g, <2>1, <2>3 DEF Answering, Asking, Joined, Welcomed
  <2> QED BY <1>10, <2>2, <2>3 DEF MemberAuth
<1>11. ASSUME NEW n \in Nodes, NEW k \in Kinds, ReadTables(n, k) PROVE PromiseInv'
  <2>1. PICK d, s : d = conv[n][k] /\ s = table[conv[n][k].peer]["users"] OBVIOUS
  <2>2. /\ d.pc = "users" /\ meta' = meta /\ copied' = copied /\ Fills(n, k, "gen", "users", s)
    BY <1>11, <2>1 DEF ReadTables, Serving, Fills
  <2>3. d.peer \in Nodes /\ Talks(n, k, d) BY <1>c, <2>1, <2>2
  <2>4. s \in SUBSET Changes BY <1>0, <2>1, <2>3 DEF TypeInv, TypeOK, Content, Tables
  <2>5. PICK c \in Convs : Becomes(n, k, c) /\ Filled(d, c, "gen", "users", s)
    BY <1>0, <2>1, <2>2, <2>4, FilledTyped DEF Tables, Answering
  <2>6. c.pc = "gen" /\ c.peer = d.peer /\ c.id = d.id BY <2>5 DEF Filled
  <2>7. Brings(c)' BY <2>6 DEF Brings, Asking
  <2>8. k = "join" => c.id # 0 BY <2>2, <2>3, <2>6 DEF Talks, Welcomed
  <2> QED BY <1>0, <2>1, <2>2, <2>5, <2>6, <2>7, <2>8, MovesOn DEF Joined
<1>12. ASSUME NEW n \in Nodes, NEW k \in Kinds, ReadGeneration(n, k) PROVE PromiseInv'
  <2>1. PICK d, h : d = conv[n][k] /\ h = gen[conv[n][k].peer] OBVIOUS
  <2>2. /\ d.pc = "gen" /\ meta' = meta /\ copied' = copied /\ gen' = gen
        /\ conv' = [conv EXCEPT ![n][k].pc = "views", ![n][k].g = h]
    BY <1>12, <2>1 DEF ReadGeneration, Serving
  <2>3. d \in Convs /\ d.peer \in Nodes /\ Talks(n, k, d) BY <1>c, <2>1, <2>2
  <2>4. h \in Nat BY <1>0, <2>1, <2>3 DEF TypeInv, TypeOK
  <2>5. PICK c : c = [d EXCEPT !.pc = "views", !.g = h] OBVIOUS
  <2>6. c \in Convs /\ c.pc = "views" /\ c.peer = d.peer /\ c.id = d.id /\ c.g = h
    BY <2>3, <2>4, <2>5 DEF Convs, Answering
  <2>7. Becomes(n, k, c) BY <1>0, <2>1, <2>2, <2>3, <2>5 DEF Becomes, Convs
  <2>8. Brings(c)' BY <2>1, <2>2, <2>4, <2>6 DEF Brings, Asking
  <2>9. k = "join" => c.id # 0 BY <2>2, <2>3, <2>6 DEF Talks, Welcomed
  <2> QED BY <1>0, <2>1, <2>2, <2>6, <2>7, <2>8, <2>9, MovesOn DEF Joined
<1>13. ASSUME NEW n \in Nodes, NEW k \in Kinds, AttachViews(n, k) PROVE PromiseInv'
  <2>1. PICK d, p, s, pc : /\ d = conv[n][k] /\ p = conv[n][k].peer /\ s = table[p]["views"]
                           /\ pc = IF k = "join" THEN "answer" ELSE "compare"
    OBVIOUS
  <2>2. d.pc = "views" /\ meta' = meta /\ copied' = copied BY <1>13, <2>1 DEF AttachViews, Serving
  <2>3. p \in Nodes /\ Source(p) /\ Talks(n, k, d) /\ Brings(d) BY <1>c, <2>1, <2>2
  <2>4. CASE Hangup(n, k) BY <1>0, <2>2, <2>4, HangsUp
  <2>5. CASE Fills(n, k, pc, "views", s)
    <3>1. s \in SUBSET Changes BY <1>0, <2>1, <2>3 DEF TypeInv, TypeOK, Content, Tables
    <3>2. PICK c \in Convs : Becomes(n, k, c) /\ Filled(d, c, pc, "views", s)
      BY <1>0, <2>1, <2>2, <2>5, <3>1, FilledTyped DEF Tables, Asking
    <3>3. /\ c.pc = pc /\ c.peer = p /\ c.id = d.id /\ c.g = d.g /\ c.snap["views"] = s
      BY <2>1, <3>2 DEF Filled, Tables
    <3>4. Kept(p, c.g, s)
      <4>1. c.g <= gen[p] BY <2>1, <2>2, <2>3, <3>3 DEF Brings
      <4>2. SourceKeeps(p) BY <2>3 DEF PromiseInv
      <4> QED BY <2>1, <4>1, <4>2 DEF Kept, SourceKeeps
    <3>5. Brings(c) BY <2>1, <3>3, <3>4 DEF Brings, Asking
    <3>6. Brings(c)' BY <1>0, <2>3, <3>3, <3>5, BringsOn
    <3>7. k = "join" => c.id # 0 BY <2>2, <2>3, <3>3 DEF Talks, Welcomed
    <3> QED BY <1>0, <2>1, <2>2, <3>2, <3>3, <3>6, <3>7, MovesOn DEF Joined
  <2> QED BY <1>13, <2>1, <2>4, <2>5 DEF AttachViews, Fills
<1>14. ASSUME NEW n \in Nodes, NEW k \in Kinds, Lose(n, k) PROVE PromiseInv'
  <2>1. PICK d, c : d = conv[n][k] /\ c = [d EXCEPT !.live = FALSE] OBVIOUS
  <2>2. /\ d.pc \in Answering /\ meta' = meta /\ copied' = copied /\ Becomes(n, k, c)
    BY <1>14, <2>1 DEF Lose, Becomes
  <2>3. d.pc # "idle" /\ d.pc # "url" BY <2>2 DEF Answering
  <2>4. /\ d \in Convs /\ d.peer \in Nodes /\ Source(d.peer)
        /\ Talks(n, k, d) /\ Brings(d)
    BY <1>c, <2>1, <2>3
  <2>5. /\ c \in Convs /\ c.pc = d.pc /\ c.peer = d.peer /\ c.id = d.id
        /\ c.g = d.g /\ c.snap = d.snap
    BY <2>1, <2>4, CutTyped
  <2>6. Brings(d)' BY <1>0, <2>4, BringsOn
  <2>7. Brings(c)' BY <2>5, <2>6 DEF Brings, Kept
  <2>8. k = "join" /\ c.pc \in Welcomed => c.id # 0 BY <2>4, <2>5 DEF Talks
  <2> QED BY <1>0, <2>1, <2>2, <2>3, <2>5, <2>7, <2>8, MovesOn
(* The asking node.                                                        *)
<1>f. ASSUME NEW n \in Nodes, NEW k \in Kinds, ApplyFails(n, k) PROVE PromiseInv'
  BY <1>0, <1>f, HangsUp DEF ApplyFails
<1>15. ASSUME NEW n \in Nodes, Compare(n) PROVE PromiseInv'
  <2>1. conv[n]["pull"].pc = "compare" /\ meta' = meta /\ copied' = copied
    BY <1>15 DEF Compare, At
  <2>2. CASE Hangup(n, "pull") BY <1>0, <2>1, <2>2, HangsUp
  <2>3. CASE Goto(n, "pull", "tx")
    BY <1>0, <1>g, <2>1, <2>3 DEF Answering, Asking, Joined, Welcomed
  <2> QED BY <1>15, <2>2, <2>3 DEF Compare
<1>16. ASSUME NEW n \in Nodes, NEW k \in Kinds, ApplySnapshot(n, k) PROVE PromiseInv'
  BY <1>16, <1>g DEF ApplySnapshot, At, Answering, Asking, Joined, Welcomed
<1>17. ASSUME NEW n \in Nodes, NEW k \in Kinds, ApplyViews(n, k) PROVE PromiseInv'
  <2>1. PICK d, g, s, v, q : /\ d = conv[n][k] /\ g = conv[n][k].g
                             /\ s = conv[n][k].snap["views"] /\ v = table'[n]["views"]
                             /\ q = conv[n][k].peer
    OBVIOUS
  <2>2. /\ d.pc = "apply" /\ Hangup(n, k) /\ meta' = meta
        /\ copied' = [copied EXCEPT ![n] = g]
        /\ table' = [table EXCEPT ![n]["views"] = @ \cup s]
    BY <1>17, <2>1 DEF ApplyViews, At
  <2>3. /\ d \in Convs /\ g \in Nat /\ q \in Nodes /\ Source(q)
        /\ Talks(n, k, d) /\ Brings(d)
    BY <1>c, <2>1, <2>2 DEF Convs
  <2>4. Kept(q, g, s) BY <2>1, <2>2, <2>3 DEF Brings, Asking
  <2>5. s \subseteq v
    BY <1>0, <2>1, <2>2 DEF TypeInv, TypeOK, Content, Tables
  <2>6. Kept(q, g, v)' BY <1>0, <2>3, <2>4, <2>5, KeptOn DEF Onward
  <2>7. meta[n].url = q /\ meta[n].url # None /\ meta[n].secret # 0
    <3>1. meta[n].url = q BY <2>1, <2>2, <2>3 DEF Talks, Joined, Kinds
    <3>2. q # None BY <2>3, ClusterAssumption
    <3> QED BY <3>1, <3>2 DEF PromiseInv, Follows
  <2>8. \A m \in Nodes : copied'[m] = IF m = n THEN g ELSE copied[m]
    BY <1>0, <2>2 DEF TypeInv, TypeOK
  <2>9. ASSUME NEW m \in Nodes PROVE Follows(m)'
    <3>1. CASE m # n BY <1>0, <2>2, <2>8, <3>1, FollowsOn
    <3>2. CASE m = n
      <4>1. Kept(meta[n].url, copied[n], table[n]["views"])'
        BY <2>1, <2>2, <2>6, <2>7, <2>8 DEF Kept
      <4>2. Source(meta[n].url)' BY <2>2, <2>3, <2>7 DEF Source
      <4> QED BY <2>2, <2>7, <3>2, <4>1, <4>2 DEF Follows
    <3> QED BY <3>1, <3>2
  <2>10. PICK c : c = Idle OBVIOUS
  <2>11. c \in Convs /\ c.pc = "idle" /\ Becomes(n, k, c)
    BY <2>2, <2>10, IdleTyped DEF Idle, Hangup, Becomes
  <2>12. Talks(n, k, c)' /\ Brings(c)' BY <2>11 DEF Talks, Brings, Joined, Welcomed, Asking
  <2>13. \A p \in Nodes : Source(p) => meta'[p].url = None BY <2>2 DEF PromiseInv, SourceKeeps
  <2>14. \A m \in Nodes : SameMaster(m) BY <2>2 DEF SameMaster
  <2> QED BY <1>0, <2>9, <2>11, <2>12, <2>13, <2>14, ReplaceStep
<1>18. ASSUME NEW n \in Nodes, AcceptJoin(n) PROVE PromiseInv'
  <2>1. PICK d, q : d = conv[n]["join"] /\ q = conv[n]["join"].peer OBVIOUS
  <2>2. d.pc \in {"answer", "secret", "url", "role"} /\ copied' = copied
    BY <1>18, <2>1 DEF AcceptJoin, At
  <2>3. /\ d \in Convs /\ q \in Nodes /\ Source(q) /\ Talks(n, "join", d) /\ Brings(d)
        /\ ~Source(n)
    BY <1>0, <1>c, <2>1, <2>2 DEF PromiseInv, SourceKeeps
  <2>4. Brings(d)' BY <1>0, <2>1, <2>3, BringsOn
  <2>g. ASSUME NEW pc \in {"secret", "url", "role", "tx"}, Goto(n, "join", pc)
        PROVE  \E c \in Convs : /\ Becomes(n, "join", c) /\ Brings(c)'
                                /\ c.pc = pc /\ c.peer = q /\ c.id = d.id
    <3>1. pc \in Answering \cup Asking /\ conv[n]["join"].pc # "idle"
      BY <2>1, <2>2 DEF Asking
    <3>2. PICK c \in Convs :
               /\ Becomes(n, "join", c) /\ c.pc = pc /\ c.snap = d.snap
               /\ c.peer = d.peer /\ c.id = d.id /\ c.g = d.g
      BY <1>0, <2>1, <2>g, <3>1, GotoTyped
    <3>3. d.pc \in Asking /\ c.pc # "views" BY <2>2, <3>2 DEF Asking
    <3>4. Brings(c)' BY <2>4, <3>2, <3>3 DEF Brings, Kept
    <3> QED BY <2>1, <3>2, <3>4
  <2>5. CASE d.pc = "answer" /\ Goto(n, "join", "secret") /\ meta' = [meta EXCEPT ![n].cluster = TRUE]
    <3>1. PICK c \in Convs : /\ Becomes(n, "join", c) /\ Brings(c)'
                             /\ c.pc = "secret" /\ c.peer = q /\ c.id = d.id
      BY <2>5, <2>g
    <3>2. \A m \in Nodes : SameMaster(m) BY <1>0, <2>5 DEF Metas, SameMaster
    <3>3. Talks(n, "join", c) BY <2>1, <2>3, <2>5, <3>1 DEF Talks, Joined, Welcomed
    <3>4. Talks(n, "join", c)' BY <1>0, <3>2, <3>3, TalksOn DEF SameMaster
    <3> QED BY <1>0, <2>2, <2>3, <3>1, <3>2, <3>4, MoveStep
  <2>6. CASE d.pc = "secret" /\ Goto(n, "join", "url") /\ meta' = [meta EXCEPT ![n].secret = d.id]
    <3>1. PICK c \in Convs : /\ Becomes(n, "join", c) /\ Brings(c)'
                             /\ c.pc = "url" /\ c.peer = q /\ c.id = d.id
      BY <2>6, <2>g
    <3>2. d.id # 0 /\ meta[n].url = None BY <2>3, <2>6 DEF Talks, Joined, Welcomed
    <3>3. \A m \in Nodes : SameMaster(m) BY <1>0, <2>6, <3>2 DEF Metas, SameMaster
    <3>4. meta'[n].secret # 0 /\ meta'[n].url = None BY <1>0, <2>6, <3>2 DEF Metas
    <3>5. Talks(n, "join", c)' BY <2>3, <3>1, <3>4 DEF Talks, Joined, Welcomed, Source
    <3> QED BY <1>0, <2>2, <2>3, <3>1, <3>3, <3>5, MoveStep
  <2>7. CASE d.pc = "role" /\ Goto(n, "join", "tx") /\ meta' = [meta EXCEPT ![n].role = "secondary"]
    <3>1. PICK c \in Convs : /\ Becomes(n, "join", c) /\ Brings(c)'
                             /\ c.pc = "tx" /\ c.peer = q /\ c.id = d.id
      BY <2>7, <2>g
    <3>2. \A m \in Nodes : SameMaster(m) BY <1>0, <2>7 DEF Metas, SameMaster
    <3>3. Talks(n, "join", c) BY <2>1, <2>3, <2>7, <3>1 DEF Talks, Joined, Welcomed
    <3>4. Talks(n, "join", c)' BY <1>0, <3>2, <3>3, TalksOn DEF SameMaster
    <3> QED BY <1>0, <2>2, <2>3, <3>1, <3>2, <3>4, MoveStep
  <2>8. CASE d.pc = "url" /\ Goto(n, "join", "role") /\ meta' = [meta EXCEPT ![n].url = q]
    <3>1. PICK c \in Convs : /\ Becomes(n, "join", c) /\ Brings(c)'
                             /\ c.pc = "role" /\ c.peer = q /\ c.id = d.id
      BY <2>8, <2>g
    <3>2. meta[n].secret # 0 /\ meta[n].url = None BY <2>3, <2>8 DEF Talks, Joined
    <3>3. conv[n]["pull"].pc = "idle"
      <4>1. ASSUME conv[n]["pull"].pc # "idle" PROVE FALSE
        <5>1. Talks(n, "pull", conv[n]["pull"]) /\ conv[n]["pull"].peer \in Nodes
          BY <1>0, <1>c, <4>1
        <5>2. conv[n]["pull"].peer = None BY <3>2, <4>1, <5>1 DEF Talks
        <5> QED BY <5>1, <5>2, ClusterAssumption
      <4> QED BY <4>1
    <3>4. \A m \in Nodes : meta'[m] = IF m = n THEN [meta[n] EXCEPT !.url = q] ELSE meta[m]
      BY <1>0, <2>8
    <3>5. meta'[n].secret # 0 /\ meta'[n].url = q BY <1>0, <3>2, <3>4 DEF Metas
    <3>6. \A m \in Nodes, j \in Kinds :
            m # n \/ j # "join" => conv[m][j].pc = "idle" \/ SameMaster(m)
      BY <3>3, <3>4 DEF Kinds, SameMaster
    <3>7. \A p \in Nodes : Source(p) => meta'[p].url = None
      BY <2>3, <3>4 DEF PromiseInv, SourceKeeps
    <3>8. ASSUME NEW m \in Nodes PROVE Follows(m)'
      <4>1. CASE m # n BY <1>0, <2>2, <3>4, <4>1, FollowsOn
      <4>2. CASE m = n
        <5>1. PICK v : v = table'[n]["views"] OBVIOUS
        <5>2. copied'[n] = 0 BY <2>2, <3>2 DEF PromiseInv, Follows
        <5>3. gen'[q] \in Nat /\ promised'[q] \in SUBSET [g : Nat, content : Content]
          BY <2>3 DEF TypeInv, TypeOK
        <5>4. \A x \in promised'[q] : x.g # 0 BY <1>0, <2>3, SourceOn
        <5>5. Kept(q, 0, v)' BY <5>3, <5>4 DEF Kept
        <5>6. Kept(meta[n].url, copied[n], table[n]["views"])'
          BY <3>5, <5>1, <5>2, <5>5 DEF Kept
        <5>7. q # None BY <2>3, ClusterAssumption
        <5>8. Source(meta[n].url)' BY <2>3, <3>5 DEF Source
        <5> QED BY <3>5, <4>2, <5>6, <5>7, <5>8 DEF Follows
      <4> QED BY <4>1, <4>2
    <3>9. Talks(n, "join", c)' BY <2>3, <3>1, <3>5 DEF Talks, Joined, Welcomed, Source
    <3> QED BY <1>0, <2>3, <3>1, <3>6, <3>7, <3>8, <3>9, ReplaceStep
  <2> QED BY <1>18, <2>1, <2>5, <2>6, <2>7, <2>8 DEF AcceptJoin, At
(* A node dies: its conversations end, or nobody waits for them.           *)
<1>19. ASSUME NEW n \in Nodes, Crash(n) PROVE PromiseInv'
  <2>1. /\ table' = table /\ meta' = meta /\ copied' = copied
        /\ conv' = [m \in Nodes |-> [k \in Kinds |-> AfterCrash(n, m, k)]]
    BY <1>19 DEF Crash
  <2>2. ASSUME NEW m \in Nodes, NEW k \in Kinds
        PROVE  /\ Talks(m, k, conv[m][k])' /\ Brings(conv[m][k])'
               /\ conv[m][k].pc = "idle" => conv'[m][k].pc = "idle"
    <3>1. PICK d, e : d = conv[m][k] /\ e = conv'[m][k] OBVIOUS
    <3>2. e = AfterCrash(n, m, k) BY <2>1, <3>1
    <3>3. e \in {Idle, d, [d EXCEPT !.live = FALSE]} BY <3>1, <3>2 DEF AfterCrash
    <3>4. /\ d \in Convs /\ Talks(m, k, d) /\ Brings(d)
          /\ d.pc # "idle" => d.peer \in Nodes /\ Source(d.peer)
      BY <1>c, <3>1
    <3>5. CASE e = Idle
      <4>1. e.pc = "idle" BY <3>5 DEF Idle
      <4>2. Talks(m, k, e)' /\ Brings(e)' BY <4>1 DEF Talks, Brings, Joined, Welcomed, Asking
      <4> QED BY <3>1, <4>1, <4>2 DEF Talks, Brings, Kept
    <3>6. CASE e \in {d, [d EXCEPT !.live = FALSE]}
      <4>1. /\ e.pc = d.pc /\ e.peer = d.peer /\ e.id = d.id /\ e.g = d.g /\ e.snap = d.snap
        BY <3>4, <3>6, CutTyped
      <4>2. Talks(m, k, d)' BY <2>1, <3>4, TalksOn
      <4>3. Brings(d)' BY <1>0, <3>4, BringsOn
      <4>4. Talks(m, k, e)' /\ Brings(e)' BY <4>1, <4>2, <4>3 DEF Talks, Brings, Kept
      <4> QED BY <3>1, <4>1, <4>4 DEF Talks, Brings, Kept
    <3> QED BY <3>3, <3>5, <3>6
  <2>3. ASSUME NEW p \in Nodes, Source(p)' PROVE SourceKeeps(p)'
    <3>1. Source(p) BY <2>3 DEF Source
    <3>2. SourceKeeps(p) BY <3>1 DEF PromiseInv
    <3>3. \A j \in Kinds : conv'[p][j].pc = "idle" BY <2>2, <3>2 DEF SourceKeeps
    <3>4. meta'[p].url = None BY <2>1, <3>2 DEF SourceKeeps
    <3> QED BY <1>0, <3>1, <3>3, <3>4, SourceOn DEF SourceKeeps
  <2>4. ASSUME NEW m \in Nodes PROVE Follows(m)' BY <1>0, <2>1, FollowsOn
  <2>5. TwoLevels' BY DEF PromiseInv, TwoLevels, Source
  <2> QED BY <2>2, <2>3, <2>4, <2>5 DEF PromiseInv
<1> QED
  BY <1>1, <1>2, <1>3, <1>4, <1>5, <1>6, <1>7, <1>8, <1>9, <1>10, <1>11, <1>12, <1>13, <1>14,
     <1>15, <1>16, <1>17, <1>18, <1>19, <1>f
  DEF Next, ServerStep, ClientStep

(* A secondary that stands at a generation of its primary has every view   *)
(* the primary had when it gave that number, in a cluster of any size in   *)
(* which nobody joins a node that may be told to join: fullSnapshot reads  *)
(* the views after the generation, and replaceViewsFromSnap only adds.     *)
THEOREM ViewsKept == Spec /\ TwoLevels => []ViewsPromise
<1>1. Init /\ TwoLevels => PromiseInv
  <2> SUFFICES ASSUME Init, TwoLevels PROVE PromiseInv OBVIOUS
  <2>1. TypeInv BY InitTyped
  <2>2. \A n \in Nodes, k \in Kinds : conv[n][k].pc = "idle" BY DEF Init, Idle
  <2>3. \A n \in Nodes : meta[n].url = None /\ promised[n] = {} /\ copied[n] = 0
    BY DEF Init
  <2>4. \A p \in Nodes : SourceKeeps(p) /\ Follows(p) BY <2>2, <2>3 DEF SourceKeeps, Follows
  <2>5. \A n \in Nodes, k \in Kinds : Talks(n, k, conv[n][k]) /\ Brings(conv[n][k])
    BY <2>2 DEF Talks, Brings, Joined, Welcomed, Asking
  <2> QED BY <2>1, <2>4, <2>5 DEF PromiseInv
<1>2. PromiseInv /\ [Next]_vars => PromiseInv'
  <2>1. PromiseInv => TypeInv BY DEF PromiseInv
  <2> QED BY <2>1, PromiseStep, TypeStep
<1>3. PromiseInv => ViewsPromise
  <2> SUFFICES ASSUME PromiseInv, NEW n \in Nodes, AtGeneration(n),
                      NEW x \in promised[meta[n].url], x.g = gen[n]
               PROVE  x.content["views"] \subseteq table[n]["views"]
    BY DEF ViewsPromise, Promised
  <2>1. Kept(meta[n].url, copied[n], table[n]["views"]) /\ copied[n] = gen[n]
    BY DEF AtGeneration, PromiseInv, Follows
  <2>2. gen[n] \in Nat BY DEF PromiseInv, TypeInv, TypeOK
  <2> QED BY <2>1, <2>2 DEF Kept
<1> QED BY <1>1, <1>2, <1>3, PTL DEF Spec
=============================================================================
