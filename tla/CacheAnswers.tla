---------------------------- MODULE CacheAnswers ----------------------------
(***************************************************************************)
(* How split-horizon-cache/cache.go classifies an answer: does it resolve  *)
(* the question, may it be kept, and in which of the two caches.           *)
(*                                                                         *)
(* A message is its rcode, the records of its answer section as a set, and *)
(* whether it is truncated, carries an SOA, or refers to other servers.    *)
(* One class is asked for.  A record is an owner, a type and, for a CNAME, *)
(* a target.                                                               *)
(***************************************************************************)
EXTENDS Naturals, FiniteSets

CONSTANTS
    Names,         \* owner names and targets, the question's among them
    QName, QType   \* the question

ASSUME QuestionAssumption == QName \in Names /\ IsFiniteSet(Names)

Types   == {"CNAME", "A", "ANY"}
Records == [owner : Names, type : {"A"}, target : {QName}]
             \cup [owner : Names, type : {"CNAME"}, target : Names]

(* uniqueCNAMETarget: none, one, or too many.                              *)
CNAMETargets(answer, owner) ==
    {r.target : r \in {x \in answer : x.type = "CNAME" /\ x.owner = owner}}

(* The two variables of canonicalName's loop.                              *)
Loop(visited, name) == [visited |-> visited, name |-> name]
Loops == [visited : SUBSET Names, name : Names]

(* A slip: an owner with two targets is followed to one of them.           *)
canonicalNameAny(answer) ==
    LET walk[at \in Loops] ==
          LET targets == CNAMETargets(answer, at.name) IN
            IF at.name \in at.visited THEN {}
            ELSE IF targets = {} THEN {at.name}
            ELSE walk[Loop(at.visited \cup {at.name}, CHOOSE t \in targets : TRUE)]
    IN  walk[Loop({}, QName)]

(* canonicalName: the name the chain ends at, as a set that is empty when  *)
(* an owner comes back or has two targets.                                 *)
canonicalName(answer) ==
    LET walk[at \in Loops] ==
          LET targets == CNAMETargets(answer, at.name) IN
            IF at.name \in at.visited \/ Cardinality(targets) > 1 THEN {}
            ELSE IF targets = {} THEN {at.name}
            ELSE walk[Loop(at.visited \cup {at.name}, CHOOSE t \in targets : TRUE)]
    IN  walk[Loop({}, QName)]

(* answerHasType.                                                          *)
answerHasType(answer) ==
    CASE QType = "ANY"   -> \E r \in answer : r.owner = QName
      [] QType = "CNAME" -> Cardinality(CNAMETargets(answer, QName)) = 1
      [] OTHER -> \E r \in answer : r.type = QType /\ r.owner \in canonicalName(answer)

answersQuestion(m) == m.rcode = "NOERROR" /\ answerHasType(m.answer)

isNODATA(m) == m.answer # {} /\ ~answersQuestion(m)

(* response.Typify, as far as these messages go.                           *)
Typify(m) ==
    CASE m.rcode = "NXDOMAIN" -> "NameError"
      [] m.rcode = "SERVFAIL" -> "ServerError"
      [] m.rcode = "REFUSED"  -> "OtherError"
      [] m.rcode = "NOERROR" /\ m.answer # {} -> "NoError"
      [] m.rcode = "NOERROR" /\ m.answer = {} ->
           IF m.soa THEN "NoData" ELSE IF m.referral THEN "Delegation" ELSE "NoError"

cacheResponseType(m) ==
    IF Typify(m) = "NoError" /\ m.soa /\ isNODATA(m) THEN "NoData" ELSE Typify(m)

(* A slip: every NXDOMAIN is kept.                                         *)
CacheableDenial(m) ==
    LET t == cacheResponseType(m) IN
      /\ ~m.truncated
      /\ t # "OtherError"
      /\ ~(t = "NoError" /\ ~m.soa /\ isNODATA(m))

(* key: is the message kept at all?                                        *)
Cacheable(m) ==
    LET t == cacheResponseType(m) IN
      /\ ~m.truncated
      /\ t # "OtherError"
      /\ t = "NameError" => m.soa
      /\ ~(t = "NoError" /\ ~m.soa /\ isNODATA(m))

(* What the rest of the cache makes of it: see Kinds in SplitHorizonCache. *)
Kind(m) ==
    CASE Cacheable(m) ->
           (CASE cacheResponseType(m) \in {"NameError", "NoData"} -> "denial"
              [] cacheResponseType(m) = "ServerError" -> "servfail"
              [] OTHER -> IF answersQuestion(m) THEN "answer" ELSE "empty")
      [] ~Cacheable(m) /\ ~m.truncated /\ m.rcode \in {"NOERROR", "NXDOMAIN"} -> "bare"
      [] OTHER -> "other"

Messages ==
    [rcode : {"NOERROR", "NXDOMAIN", "SERVFAIL", "REFUSED"}, answer : SUBSET Records,
     truncated : BOOLEAN, soa : BOOLEAN, referral : BOOLEAN]
=============================================================================
