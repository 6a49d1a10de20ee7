--------------------------- MODULE CacheComposed ---------------------------
(***************************************************************************)
(* The cache of SplitHorizonCache with the messages of CacheAnswers: what  *)
(* is kept under each kind, and why.                                       *)
(***************************************************************************)
EXTENDS SplitHorizonCache, CacheAnswers

(* No variable occurs in the two properties of CacheAnswers: it is enough  *)
(* to look at them before anything has happened.                           *)
AtStart == asked = 0 /\ events = 0

(* The names the CNAMEs lead to from a name, however many an owner has:    *)
(* those in every set that has its targets and the targets of its members. *)
Beyond(answer, name) ==
    {n \in Names : \A S \in SUBSET Names :
       CNAMETargets(answer, name) \subseteq S
         /\ (\A x \in S : CNAMETargets(answer, x) \subseteq S) => n \in S}

(* A chain that is followed name by name comes out where the CNAMEs, taken *)
(* as a relation, lead: the question is answered exactly if the names that *)
(* can be reached have one target each, form no loop, and the last one of  *)
(* them has the type (canonicalName, answerHasType).                       *)
ChainFollowed ==
    AtStart => \A answer \in SUBSET Records :
      LET reached == {QName} \cup Beyond(answer, QName)
      IN  answerHasType(answer) <=>
            /\ \A n \in reached : /\ n \notin Beyond(answer, n)
                                  /\ Cardinality(CNAMETargets(answer, n)) <= 1
            /\ \E n \in reached : /\ CNAMETargets(answer, n) = {}
                                  /\ \E r \in answer : r.type = QType /\ r.owner = n

(* Nothing that does not answer the question is kept as an answer to it,   *)
(* and nothing is denied without an SOA to say for how long (key,          *)
(* cacheResponseType).                                                     *)
KindsHonest ==
    AtStart => \A m \in Messages :
      /\ Kind(m) = "answer" => answersQuestion(m)
      /\ Kind(m) = "empty" => m.answer = {}
      /\ Kind(m) = "denial" => m.soa
=============================================================================
