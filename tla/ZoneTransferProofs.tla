------------------------- MODULE ZoneTransferProofs -------------------------
(***************************************************************************)
(* Theorems about ZoneTransfer: what a secondary-persistent zone that      *)
(* follows a primary over the network can come to hold.                    *)
(***************************************************************************)
EXTENDS ZoneTransfer, UpdatePersistProofs

-----------------------------------------------------------------------------
(* Streams of records.                                                     *)

(* The records of a part of a stream are those of its set.                 *)
LEMMA SetToSeqFacts ==
    ASSUME NEW S, IsFiniteSet(S)
    PROVE  /\ SetToSeq(S) \in Seq(S)
           /\ \A x \in S : \E i \in 1 .. Len(SetToSeq(S)) : SetToSeq(S)[i] = x
PROOF
<1> DEFINE n == Cardinality(S)
           f == SetToSeq(S)
<1>1. n \in Nat /\ ExistsBijection(1 .. n, S)
  BY FS_CardinalityType
<1>2. \E g \in [1 .. n -> S] : IsInjective(g)
  BY <1>1 DEF ExistsBijection, Bijection, Injection, IsInjective
<1>3. f \in [1 .. n -> S] /\ IsInjective(f)
  BY <1>2 DEF SetToSeq
<1>4. f \in Injection(1 .. n, S)
  BY <1>3 DEF Injection
<1>5. IsFiniteSet(1 .. n) /\ Cardinality(1 .. n) = n
  BY <1>1, FS_Interval
<1> HIDE DEF n, f
<1>6. f \in Surjection(1 .. n, S)
  BY <1>4, <1>5, FS_Injection DEF n
<1>7. f \in Seq(S)
  BY <1>1, <1>3, SeqDef
<1>8. Len(f) = n
  BY <1>1, <1>3, <1>7, LenProperties
<1> QED
  BY <1>6, <1>7, <1>8 DEF Surjection, f

(* Parts put together are a sequence of the same records; one part alone   *)
(* is itself.                                                              *)
Flattens(seqs, n, f) == f = [i \in 1 .. n |-> IF i = 1 THEN seqs[i] ELSE f[i-1] \o seqs[i]]

LEMMA FlattensExist ==
    ASSUME NEW n \in Nat, NEW seqs
    PROVE  \E f : Flattens(seqs, n, f)
PROOF
<1> DEFINE Without == {m \in Nat : ~ \E f : Flattens(seqs, m, f)}
<1>1. Without \in SUBSET Nat
  OBVIOUS
<1>2. ASSUME Without # {} PROVE FALSE
  <2>1. PICK m \in Without : \A k \in Without : m <= k
    <3> HIDE DEF Without
    <3> QED
      BY <1>1, <1>2, LeastNatural
  <2>2. CASE m = 0
    <3> DEFINE f == [i \in 1 .. 0 |-> seqs]
    <3>1. Flattens(seqs, m, f)
      BY <2>2 DEF Flattens
    <3> QED
      BY <3>1
  <2>3. CASE m # 0
    <3>1. m \in Nat /\ m - 1 \in Nat /\ m - 1 \notin Without
      BY <2>1, <2>3
    <3>2. PICK f : Flattens(seqs, m - 1, f)
      BY <3>1
    <3>3. \A i \in 1 .. (m - 1) : f[i] = IF i = 1 THEN seqs[i] ELSE f[i-1] \o seqs[i]
      BY <3>2 DEF Flattens
    <3> DEFINE last == IF m = 1 THEN seqs[m] ELSE f[m - 1] \o seqs[m]
               g == [i \in 1 .. m |-> IF i = m THEN last ELSE f[i]]
    <3>4. \A i \in 1 .. m : g[i] = IF i = 1 THEN seqs[i] ELSE g[i-1] \o seqs[i]
      <4> SUFFICES ASSUME NEW i \in 1 .. m
                   PROVE  g[i] = IF i = 1 THEN seqs[i] ELSE g[i-1] \o seqs[i]
        OBVIOUS
      <4>1. CASE i = m
        <5>1. m # 1 => m - 1 \in 1 .. m /\ m - 1 # m
          BY <2>3, <3>1
        <5> QED
          BY <4>1, <5>1
      <4>2. CASE i # m
        <5>1. i \in 1 .. (m - 1) /\ (i # 1 => i - 1 \in 1 .. m /\ i - 1 # m)
          BY <3>1, <4>2
        <5> QED
          BY <3>3, <4>2, <5>1
      <4> QED
        BY <4>1, <4>2
    <3>5. g = [i \in 1 .. m |-> g[i]]
      OBVIOUS
    <3> HIDE DEF g
    <3>6. Flattens(seqs, m, g)
      BY <3>4, <3>5 DEF Flattens
    <3> QED
      BY <3>6
  <2> QED
    BY <2>2, <2>3
<1> QED
  BY <1>2

LEMMA FlattenFacts ==
    ASSUME NEW S, NEW n \in Nat, NEW seqs \in [1 .. n -> Seq(S)]
    PROVE  /\ FlattenSeq(seqs) \in Seq(S)
           /\ n = 1 => FlattenSeq(seqs) = seqs[1]
PROOF
<1>1. seqs \in Seq(Seq(S)) /\ Len(seqs) = n
  <2>1. seqs \in Seq(Seq(S))
    BY SeqDef
  <2> QED
    BY <2>1, LenProperties
<1>2. CASE n = 0
  <2>1. FlattenSeq(seqs) = seqs
    BY <1>1, <1>2 DEF FlattenSeq
  <2>2. seqs = << >>
    BY <1>1, <1>2, EmptySeq
  <2> QED
    BY <1>2, <2>1, <2>2, EmptySeq
<1>3. CASE n # 0
  <2> DEFINE f == CHOOSE g : Flattens(seqs, n, g)
  <2>1. FlattenSeq(seqs) = f[n]
    BY <1>1, <1>3 DEF FlattenSeq, Flattens
  <2>3. Flattens(seqs, n, f)
    BY FlattensExist
  <2> HIDE DEF f
  <2>4. \A i \in 1 .. n : f[i] = IF i = 1 THEN seqs[i] ELSE f[i-1] \o seqs[i]
    BY <2>3 DEF Flattens
  <2> DEFINE Bad == {i \in 1 .. n : f[i] \notin Seq(S)}
  <2>5. ASSUME Bad # {} PROVE FALSE
    <3>1. Bad \in SUBSET Nat
      OBVIOUS
    <3>2. PICK i \in Bad : \A k \in Bad : i <= k
      <4> HIDE DEF Bad
      <4> QED
        BY <2>5, <3>1, LeastNatural
    <3>3. CASE i = 1
      BY <2>4, <3>3
    <3>4. CASE i # 1
      <4>1. i \in 1 .. n /\ i - 1 \in 1 .. n /\ i - 1 \notin Bad
        BY <3>2, <3>4
      <4>2. f[i - 1] \in Seq(S) /\ seqs[i] \in Seq(S)
        BY <4>1
      <4>3. f[i - 1] \o seqs[i] \in Seq(S)
        BY <4>2, ConcatProperties
      <4> QED
        BY <2>4, <3>4, <4>1, <4>3
    <3> QED
      BY <3>3, <3>4
  <2>6. f[n] \in Seq(S)
    BY <1>3, <2>5
  <2>7. n = 1 => f[n] = seqs[1]
    BY <2>4
  <2> QED
    BY <2>1, <2>6, <2>7
<1> QED
  BY <1>2, <1>3

(* What is between the ends of a stream.                                   *)
LEMMA InnerFacts ==
    ASSUME NEW S, NEW e \in Seq(S), NEW n \in Nat, Len(e) = n + 2
    PROVE  /\ Inner(e) \in Seq(S) /\ Len(Inner(e)) = n
           /\ \A i \in 1 .. n : Inner(e)[i] = e[i + 1]
PROOF
<1>1. PICK k \in Int : k = 2
  OBVIOUS
<1>2. PICK m \in Int : m = n + 1
  OBVIOUS
<1>3. /\ Len(e) - 1 = m
      /\ (IF k <= m THEN m - k + 1 ELSE 0) = n /\ m - k + 1 = n
      /\ \A i \in 1 .. n : k + i - 1 = i + 1
      /\ \A i \in k .. m : i \in 1 .. Len(e)
  BY <1>1, <1>2
<1>4. \A i \in k .. m : e[i] \in S
  BY <1>3, ElementOfSeq
<1>5. /\ SubSeq(e, k, m) \in Seq(S)
      /\ Len(SubSeq(e, k, m)) = IF k <= m THEN m - k + 1 ELSE 0
      /\ \A i \in 1 .. m - k + 1 : SubSeq(e, k, m)[i] = e[k + i - 1]
  BY <1>4, SubSeqProperties
<1>6. Inner(e) = SubSeq(e, k, m)
  BY <1>1, <1>3 DEF Inner
<1> QED
  BY <1>3, <1>5, <1>6

(* A stream between two SOAs.                                              *)
LEMMA EnvelopeFacts ==
    ASSUME NEW S, NEW x \in S, NEW X \in Seq(S), NEW e, e = <<x>> \o X \o <<x>>
    PROVE  /\ e \in Seq(S) /\ Len(X) \in Nat /\ Len(e) = Len(X) + 2
           /\ e[1] = x /\ e[Len(e)] = x /\ Head(e) = x /\ Last(e) = x
           /\ \A i \in 1 .. Len(X) : e[i + 1] = X[i]
PROOF
<1> DEFINE a == <<x>> \o X
           n == Len(X)
<1>0. n \in Nat
  BY LenProperties
<1>1. <<x>> \in Seq(S) /\ Len(<<x>>) = 1 /\ <<x>>[1] = x
  OBVIOUS
<1>2. /\ a \in Seq(S) /\ Len(a) = 1 + n
      /\ \A i \in 1 .. 1 + n : a[i] = IF i <= 1 THEN <<x>>[i] ELSE X[i - 1]
  BY <1>1, ConcatProperties
<1>3. a[1] = x /\ \A i \in 1 .. n : a[i + 1] = X[i]
  <2>1. 1 \in 1 .. 1 + n /\ \A i \in 1 .. n : i + 1 \in 1 .. 1 + n /\ ~(i + 1 <= 1) /\ (i + 1) - 1 = i
    BY <1>0
  <2> HIDE DEF a
  <2> QED
    BY <1>1, <1>2, <2>1
<1>4. e = a \o <<x>>
  OBVIOUS
<1> HIDE DEF a
<1>5. /\ e \in Seq(S) /\ Len(e) = (1 + n) + 1
      /\ \A i \in 1 .. (1 + n) + 1 : e[i] = IF i <= 1 + n THEN a[i] ELSE <<x>>[i - (1 + n)]
  BY <1>1, <1>2, <1>4, ConcatProperties
<1> HIDE DEF n
<1>6. Len(e) = n + 2 /\ e[1] = x /\ e[n + 2] = x
  <2>1. 1 \in 1 .. (1 + n) + 1 /\ 1 <= 1 + n /\ n + 2 = (1 + n) + 1 /\ n + 2 \in 1 .. (1 + n) + 1
        /\ ~(n + 2 <= 1 + n) /\ (n + 2) - (1 + n) = 1
    BY <1>0
  <2> QED
    BY <1>1, <1>3, <1>5, <2>1
<1>7. \A i \in 1 .. n : e[i + 1] = X[i]
  <2>1. \A i \in 1 .. n : i + 1 \in 1 .. (1 + n) + 1 /\ i + 1 <= 1 + n
    BY <1>0
  <2> QED
    BY <1>3, <1>5, <2>1
<1>8. Head(e) = x /\ Last(e) = x
  BY <1>5, <1>6 DEF Last
<1> QED
  BY <1>0, <1>5, <1>6, <1>7, <1>8 DEF n

-----------------------------------------------------------------------------
(* What the primary sends.                                                 *)

LEMMA GenerationSOA ==
    ASSUME NEW c \in Generations
    PROVE  /\ soaOf(c) \in c /\ isSOA(soaOf(c)) /\ soaOf(c) \in RR
           /\ soaOf(c).data = serialOf(c) /\ serialOf(c) \in Serials
           /\ \A rr \in c : isSOA(rr) => rr = soaOf(c)
           /\ SOAs(c) = {soaOf(c)}
PROOF
<1>1. c \in SUBSET RR /\ hasSOA(c) /\ OneSOA(c)
  BY DEF Generations, KeepsApex
<1>2. soaOf(c) \in SOAs(c)
  BY <1>1 DEF hasSOA, soaOf
<1>3. soaOf(c) \in c /\ isSOA(soaOf(c)) /\ soaOf(c) \in RR
  BY <1>1, <1>2 DEF SOAs, isSOA
<1>4. \A rr \in c : isSOA(rr) => rr = soaOf(c)
  BY <1>1, <1>3 DEF OneSOA, isSOA
<1>5. soaOf(c).data = serialOf(c)
  BY <1>1 DEF serialOf
<1>6. SOAs(c) = {soaOf(c)}
  BY <1>3, <1>4 DEF SOAs, isSOA
<1>7. serialOf(c) \in Serials
  BY <1>1, SerialOfType
<1> QED
  BY <1>3, <1>4, <1>5, <1>6, <1>7

Envelope(x, X) == <<x>> \o X \o <<x>>

(* A whole transfer holds the records of the generation it is of.          *)
LEMMA AxfrFacts ==
    ASSUME NEW c \in Generations
    PROVE  \E X \in Seq(RR) :
             /\ axfrStream(c) = Envelope(soaOf(c), X)
             /\ \A i \in 1 .. Len(X) : ~isSOA(X[i])
             /\ {X[i] : i \in 1 .. Len(X)} = c \ SOAs(c)
PROOF
<1> DEFINE S == c \ SOAs(c)
           X == SetToSeq(S)
<1>1. c \in SUBSET RR /\ IsFiniteSet(c)
  BY DEF Generations
<1>2. IsFiniteSet(S) /\ S \in SUBSET c /\ \A rr \in S : ~isSOA(rr)
  <2>1. S \in SUBSET c /\ \A rr \in S : ~isSOA(rr)
    BY DEF SOAs, isSOA
  <2> QED
    BY <1>1, <2>1, FS_Subset
<1>3. axfrStream(c) = Envelope(soaOf(c), X)
  BY DEF axfrStream, Envelope
<1> HIDE DEF S
<1>4. X \in Seq(S) /\ \A rr \in S : \E i \in 1 .. Len(X) : X[i] = rr
  BY <1>2, SetToSeqFacts
<1> HIDE DEF X
<1>5. \A i \in 1 .. Len(X) : X[i] \in S
  BY <1>4, ElementOfSeq
<1>6. {X[i] : i \in 1 .. Len(X)} = S
  BY <1>4, <1>5
<1>7. X \in Seq(RR)
  <2>1. S \in SUBSET RR
    BY <1>1, <1>2
  <2> QED
    BY <1>4, <2>1, SeqMonotonic
<1>8. \A i \in 1 .. Len(X) : ~isSOA(X[i])
  BY <1>2, <1>5
<1> QED
  BY <1>3, <1>6, <1>7, <1>8 DEF S

(* An increment of an incremental transfer: what goes after the SOA with   *)
(* the old serial, what comes after the one with the new.                  *)
Part(old, D, new, A) == <<old>> \o D \o <<new>> \o A

LEMMA PartType ==
    ASSUME NEW S, NEW a \in S, NEW D \in Seq(S), NEW b \in S, NEW A \in Seq(S)
    PROVE  Part(a, D, b, A) \in Seq(S)
PROOF
<1>1. <<a>> \in Seq(S) /\ <<b>> \in Seq(S)
  OBVIOUS
<1>2. <<a>> \o D \in Seq(S)
  BY <1>1, ConcatProperties
<1> DEFINE s == <<a>> \o D
<1>3. Part(a, D, b, A) = s \o <<b>> \o A
  BY DEF Part
<1> HIDE DEF s
<1>4. s \o <<b>> \in Seq(S)
  BY <1>1, <1>2, ConcatProperties DEF s
<1> DEFINE t == s \o <<b>>
<1>5. Part(a, D, b, A) = t \o A
  BY <1>3
<1> HIDE DEF t
<1> QED
  BY <1>4, <1>5, ConcatProperties DEF t

(* An increment on the wire: two SOAs with its serials, its records after  *)
(* them.                                                                   *)
Carries(s, inc) ==
    \E a, b \in RR, D, A \in Seq(RR) :
        /\ s = Part(a, D, b, A)
        /\ isSOA(a) /\ a.data = inc.oldSerial
        /\ isSOA(b) /\ b.data = inc.newSerial
        /\ \A i \in 1 .. Len(D) : ~isSOA(D[i])
        /\ \A i \in 1 .. Len(A) : ~isSOA(A[i])
        /\ {D[i] : i \in 1 .. Len(D)} = inc.deleted
        /\ {A[i] : i \in 1 .. Len(A)} = inc.added

LEMMA SectionFacts ==
    ASSUME NEW c \in Generations, NEW d \in Generations
    PROVE  LET S == diffMissing(c, d)
               X == SetToSeq(S)
           IN  /\ X \in Seq(RR)
               /\ \A i \in 1 .. Len(X) : ~isSOA(X[i])
               /\ {X[i] : i \in 1 .. Len(X)} = S
PROOF
<1> DEFINE S == diffMissing(c, d)
           X == SetToSeq(S)
<1>1. c \in SUBSET RR /\ IsFiniteSet(c)
  BY DEF Generations
<1>2. S \in SUBSET c /\ \A rr \in S : ~isSOA(rr)
  BY DEF diffMissing, isSOA
<1> HIDE DEF S
<1>3. IsFiniteSet(S)
  BY <1>1, <1>2, FS_Subset
<1>4. X \in Seq(S) /\ \A rr \in S : \E i \in 1 .. Len(X) : X[i] = rr
  BY <1>3, SetToSeqFacts
<1> HIDE DEF X
<1>5. \A i \in 1 .. Len(X) : X[i] \in S
  BY <1>4, ElementOfSeq
<1>6. {X[i] : i \in 1 .. Len(X)} = S
  BY <1>4, <1>5
<1>7. X \in Seq(RR)
  <2>1. S \in SUBSET RR
    BY <1>1, <1>2
  <2> QED
    BY <1>4, <2>1, SeqMonotonic
<1>8. \A i \in 1 .. Len(X) : ~isSOA(X[i])
  BY <1>2, <1>5
<1> QED
  BY <1>6, <1>7, <1>8 DEF S, X

LEMMA PartFacts ==
    ASSUME NEW soa \in RR, isSOA(soa), NEW G \in [Serials -> Generations], NEW n,
           NEW inc \in Told(G, n)
    PROVE  LET p == Part(soaWithSerial(soa, inc.oldSerial), SetToSeq(inc.deleted),
                         soaWithSerial(soa, inc.newSerial), SetToSeq(inc.added))
           IN  p \in Seq(RR) /\ Carries(p, inc)
PROOF
<1> DEFINE a == soaWithSerial(soa, inc.oldSerial)
           b == soaWithSerial(soa, inc.newSerial)
           D == SetToSeq(inc.deleted)
           A == SetToSeq(inc.added)
           p == Part(a, D, b, A)
<1>1. /\ inc.oldSerial \in Serials /\ inc.newSerial \in Serials
      /\ inc.deleted = diffMissing(G[inc.oldSerial], G[inc.newSerial])
      /\ inc.added = diffMissing(G[inc.newSerial], G[inc.oldSerial])
  BY DEF Told, Increment
<1>2. G[inc.oldSerial] \in Generations /\ G[inc.newSerial] \in Generations
  BY <1>1
<1>3. \A s \in Serials : /\ soaWithSerial(soa, s) \in RR /\ isSOA(soaWithSerial(soa, s))
                         /\ soaWithSerial(soa, s).data = s
  BY DEF soaWithSerial, isSOA, RR
<1>4. /\ a \in RR /\ isSOA(a) /\ a.data = inc.oldSerial
      /\ b \in RR /\ isSOA(b) /\ b.data = inc.newSerial
  BY <1>1, <1>3
<1>5. /\ D \in Seq(RR) /\ \A i \in 1 .. Len(D) : ~isSOA(D[i])
      /\ {D[i] : i \in 1 .. Len(D)} = inc.deleted
  BY <1>1, <1>2, SectionFacts
<1>6. /\ A \in Seq(RR) /\ \A i \in 1 .. Len(A) : ~isSOA(A[i])
      /\ {A[i] : i \in 1 .. Len(A)} = inc.added
  BY <1>1, <1>2, SectionFacts
<1> HIDE DEF a, b, D, A
<1>7. p \in Seq(RR)
  BY <1>4, <1>5, <1>6, PartType
<1>8. Carries(p, inc)
  BY <1>4, <1>5, <1>6 DEF Carries
<1> QED
  BY <1>7, <1>8 DEF a, b, D, A

(* An incremental transfer, and what it carries when it is of one          *)
(* increment.                                                              *)
LEMMA IxfrFacts ==
    ASSUME NEW c \in Generations, NEW G \in [Serials -> Generations], NEW n,
           NEW s \in Seq(Told(G, n))
    PROVE  \E X \in Seq(RR) : /\ ixfrStream(c, s) = Envelope(soaOf(c), X)
                              /\ Len(s) = 1 => Carries(X, s[1])
PROOF
<1> DEFINE soa == soaOf(c)
           part(inc) == Part(soaWithSerial(soa, inc.oldSerial), SetToSeq(inc.deleted),
                             soaWithSerial(soa, inc.newSerial), SetToSeq(inc.added))
           seqs == [i \in DOMAIN s |-> part(s[i])]
           X == FlattenSeq(seqs)
<1>1. soa \in RR /\ isSOA(soa)
  BY GenerationSOA
<1>2. Len(s) \in Nat /\ DOMAIN s = 1 .. Len(s) /\ \A i \in 1 .. Len(s) : s[i] \in Told(G, n)
  BY LenProperties, ElementOfSeq
<1>3. ixfrStream(c, s) = Envelope(soa, X)
  BY DEF ixfrStream, Envelope, Part
<1> HIDE DEF soa
<1>4. \A inc \in Told(G, n) : part(inc) \in Seq(RR) /\ Carries(part(inc), inc)
  BY <1>1, PartFacts
<1> HIDE DEF part
<1>5. seqs \in [1 .. Len(s) -> Seq(RR)]
  BY <1>2, <1>4
<1>6. Len(s) = 1 => seqs[1] = part(s[1]) /\ s[1] \in Told(G, n)
  BY <1>2
<1> HIDE DEF seqs
<1>7. X \in Seq(RR) /\ (Len(s) = 1 => X = seqs[1])
  BY <1>2, <1>5, FlattenFacts
<1> QED
  BY <1>3, <1>4, <1>6, <1>7 DEF soa

(* An answer of increments takes them from the journal; one that consists  *)
(* of a single increment leads from the serial asked from to the current.  *)
LEMMA AnswerFacts ==
    ASSUME NEW T, NEW s \in Seq(T), NEW c, NEW from
    PROVE  LET a == answer(s, c, from)
           IN  /\ a.kind \in {"axfr", "uptodate", "ixfr"}
               /\ a.kind # "ixfr" => a.incs = << >>
               /\ a.kind = "ixfr" =>
                    /\ a.incs \in Seq(T) /\ Len(a.incs) \in Nat \ {0} /\ from # serialOf(c)
                    /\ Len(a.incs) = 1 => /\ a.incs[1] \in T
                                          /\ a.incs[1].oldSerial = from
                                          /\ a.incs[1].newSerial = serialOf(c)
PROOF
<1> DEFINE a == answer(s, c, from)
           starts == {i \in DOMAIN s : s[i].oldSerial = from}
           k == CHOOSE i \in starts : \A j \in starts : i <= j
           L == Len(s)
<1>1. a.kind \in {"axfr", "uptodate", "ixfr"} /\ (a.kind # "ixfr" => a.incs = << >>)
  BY DEF answer
<1>2. ASSUME a.kind = "ixfr"
      PROVE  /\ a.incs \in Seq(T) /\ Len(a.incs) \in Nat \ {0} /\ from # serialOf(c)
             /\ Len(a.incs) = 1 => /\ a.incs[1] \in T
                                   /\ a.incs[1].oldSerial = from
                                   /\ a.incs[1].newSerial = serialOf(c)
  <2>1. L \in Nat /\ DOMAIN s = 1 .. L /\ \A i \in 1 .. L : s[i] \in T
    BY LenProperties, ElementOfSeq
  <2>2. a.incs = ixfrFrom(s, c, from) /\ a.incs # << >> /\ from # serialOf(c)
    BY <1>2 DEF answer
  <2>3. starts # {} /\ a.incs = SubSeq(s, k, L) /\ s[L].newSerial = serialOf(c)
    BY <2>2 DEF ixfrFrom
  <2>4. k \in 1 .. L /\ s[k].oldSerial = from
    <3>1. starts \in SUBSET Nat
      BY <2>1
    <3>2. \E i \in starts : \A j \in starts : i <= j
      <4> HIDE DEF starts
      <4> QED
        BY <2>3, <3>1, LeastNatural
    <3> QED
      BY <2>1, <3>2
  <2> HIDE DEF k, L, starts, a
  <2>5. /\ a.incs \in Seq(T) /\ Len(a.incs) = L - k + 1
        /\ \A i \in 1 .. L - k + 1 : a.incs[i] = s[k + i - 1]
    <3>1. k \in Int /\ L \in Int /\ k <= L /\ \A i \in k .. L : s[i] \in T
      BY <2>1, <2>4
    <3> QED
      BY <2>3, <3>1, SubSeqProperties
  <2>6. Len(a.incs) \in Nat \ {0}
    BY <2>1, <2>4, <2>5
  <2>7. ASSUME Len(a.incs) = 1 PROVE /\ a.incs[1] \in T
                                     /\ a.incs[1].oldSerial = from
                                     /\ a.incs[1].newSerial = serialOf(c)
    <3>1. k = L /\ L \in 1 .. L
      BY <2>1, <2>4, <2>5, <2>7
    <3>2. 1 \in 1 .. L - k + 1 /\ k + 1 - 1 = L
      BY <2>1, <3>1
    <3>3. a.incs[1] = s[L]
      BY <2>5, <3>2
    <3> QED
      BY <2>1, <2>3, <2>4, <3>1, <3>3
  <2> QED
    BY <2>2, <2>5, <2>6, <2>7
<1> QED
  BY <1>1, <1>2

(* Every answer opens with the SOA of the generation it leads to.          *)
LEMMA AnswerOpens ==
    ASSUME NEW c \in Generations, NEW G \in [Serials -> Generations], NEW n,
           NEW s \in Seq(Told(G, n)), NEW from
    PROVE  LET e == AnswerStream(s, c, from)
           IN  e \in Seq(RR) /\ e # << >> /\ e[1] = soaOf(c)
PROOF
<1> DEFINE a == answer(s, c, from)
           e == AnswerStream(s, c, from)
<1>1. a.kind \in {"axfr", "uptodate", "ixfr"} /\ (a.kind = "ixfr" => a.incs \in Seq(Told(G, n)))
  BY AnswerFacts
<1>2. soaOf(c) \in RR
  BY GenerationSOA
<1>3. ASSUME NEW X \in Seq(RR) PROVE LET t == Envelope(soaOf(c), X)
                                     IN  t \in Seq(RR) /\ t # << >> /\ t[1] = soaOf(c)
  <2> DEFINE t == Envelope(soaOf(c), X)
  <2>1. t \in Seq(RR) /\ Len(X) \in Nat /\ Len(t) = Len(X) + 2 /\ t[1] = soaOf(c)
    BY <1>2, EnvelopeFacts DEF Envelope
  <2> HIDE DEF t
  <2>2. t # << >>
    BY <2>1, EmptySeq
  <2> QED
    BY <2>1, <2>2 DEF t
<1>4. CASE a.kind = "axfr"
  <2>1. e = axfrStream(c)
    BY <1>4 DEF AnswerStream
  <2> QED
    BY <1>3, <2>1, AxfrFacts
<1>5. CASE a.kind = "uptodate"
  <2>1. e = <<soaOf(c)>>
    BY <1>5 DEF AnswerStream
  <2> QED
    BY <1>2, <2>1
<1>6. CASE a.kind = "ixfr"
  <2>1. e = ixfrStream(c, a.incs)
    BY <1>6 DEF AnswerStream
  <2> QED
    BY <1>1, <1>3, <1>6, <2>1, IxfrFacts
<1> QED
  BY <1>1, <1>4, <1>5, <1>6

-----------------------------------------------------------------------------
(* What the secondary makes of it: the serial that the stream opens with.  *)

OneSerial(s) == \A i \in 1 .. Len(s) : isSOA(s[i]) => s[i].data = s[1].data

LEMMA WholeSerial ==
    ASSUME NEW S, NEW s \in Seq(S), s # << >>, isSOA(s[1]), OneSerial(s)
    PROVE  serialOf(Range(s)) = s[1].data
PROOF
<1>1. Len(s) \in Nat /\ DOMAIN s = 1 .. Len(s) /\ 1 \in 1 .. Len(s)
  BY LenProperties, EmptySeq
<1>2. Range(s) = {s[i] : i \in 1 .. Len(s)}
  BY <1>1 DEF Range
<1>3. s[1] \in Range(s) /\ \A rr \in Range(s) : isSOA(rr) => rr.data = s[1].data
  BY <1>1, <1>2 DEF OneSerial
<1> DEFINE z == Range(s)
<1> HIDE DEF z
<1>4. s[1] \in SOAs(z) /\ \A rr \in SOAs(z) : rr.data = s[1].data
  BY <1>3 DEF SOAs, isSOA, z
<1>5. soaOf(z) \in SOAs(z)
  BY <1>4 DEF soaOf
<1> QED
  BY <1>4, <1>5 DEF serialOf, hasSOA, z

LEMMA InstalledSerial ==
    ASSUME NEW z, NEW s \in Seq(RR), s # << >>, isSOA(s[1]), Installs(s)
    PROVE  serialOf(Installed(z, s)) = s[1].data
PROOF
<1>0. Len(s) \in Nat /\ 1 \in 1 .. Len(s) /\ Head(s) = s[1]
  BY LenProperties, EmptySeq
<1>1. CASE classifyXFR(s) = "ixfr"
  <2> DEFINE y == FoldLeft(LAMBDA c, inc : removeRRs(c, inc.deleted) \cup inc.added,
                           z, parseIXFR(s).incs)
             t == (y \ SOAs(y)) \cup {s[1]}
  <2>1. Installed(z, s) = t
    BY <1>0, <1>1 DEF Installed, applyIncrements
  <2> HIDE DEF y
  <2>2. SOAs(t) = {s[1]}
    BY DEF SOAs, isSOA
  <2> HIDE DEF t
  <2>3. soaOf(t) = s[1]
    BY <2>2 DEF soaOf
  <2> QED
    BY <2>1, <2>2, <2>3 DEF serialOf, hasSOA
<1>2. CASE classifyXFR(s) = "axfr"
  <2>1. Installed(z, s) = Range(s)
    BY <1>2 DEF Installed
  <2>2. Len(s) # 1 /\ isSOA(Last(s)) /\ Last(s).data = s[1].data
        /\ \A rr \in Range(Inner(s)) : isSOA(rr) => rr.data = s[1].data
    BY <1>0, <1>2 DEF classifyXFR
  <2>3. Last(s) = s[Len(s)]
    BY DEF Last
  <2>4. PICK n \in Nat : Len(s) = n + 2
    <3> DEFINE L == Len(s)
    <3>1. L \in Nat /\ L # 0 /\ L # 1
      BY <1>0, <2>2
    <3> HIDE DEF L
    <3>2. L - 2 \in Nat /\ L = (L - 2) + 2
      BY <3>1
    <3> QED
      BY <3>2 DEF L
  <2>5. /\ Inner(s) \in Seq(RR) /\ Len(Inner(s)) = n
        /\ \A i \in 1 .. n : Inner(s)[i] = s[i + 1]
    BY <2>4, InnerFacts
  <2>6. \A i \in 1 .. n : s[i + 1] \in Range(Inner(s))
    <3>1. DOMAIN Inner(s) = 1 .. n
      BY <2>5, LenProperties
    <3> QED
      BY <2>5, <3>1 DEF Range
  <2>7. OneSerial(s)
    <3> SUFFICES ASSUME NEW i \in 1 .. Len(s), isSOA(s[i]) PROVE s[i].data = s[1].data
      BY DEF OneSerial
    <3>1. i \in 1 .. n + 2
      BY <2>4
    <3>2. i = 1 \/ i = n + 2 \/ (i - 1 \in 1 .. n /\ (i - 1) + 1 = i)
      BY <3>1
    <3> QED
      BY <2>2, <2>3, <2>4, <2>6, <3>2
  <2> QED
    BY <2>1, <2>7, WholeSerial
<1> QED
  BY <1>1, <1>2 DEF Installs

-----------------------------------------------------------------------------
(* The secondary is never ahead.  A stream that is on its way opens with a *)
(* serial that transfers could see when it was sent; what they can see     *)
(* only goes forward, and never past the store, so it does not matter how  *)
(* long the stream travels or what else is installed meanwhile.            *)

Worker == [pc : {"idle", "ixfr", "axfr", "ixfrGot", "axfrGot"}, serial : Serials,
           stream : Seq(RR), deltas : Nat]

XferType == xfer \in [Workers -> Worker]

Opens(s, n) == s # << >> /\ isSOA(s[1]) /\ Offset(s[1].data) <= n

UnderWay(x, n) ==
    /\ x.pc \in {"ixfrGot", "axfrGot"} => Opens(x.stream, n)
    /\ x.pc = "axfrGot" => OneSerial(x.stream)

BehindInv ==
    /\ ReplicaInv
    /\ serialOf(zone) \in Serials
    /\ zone # {} => Offset(serialOf(zone)) <= Reached
    /\ XferType
    /\ \A w \in Workers : UnderWay(xfer[w], Reached)

LEMMA ReachedGrows ==
    ASSUME ReplicaInv, [Next]_vars, ReplicaInv'
    PROVE  Reached \in Int /\ Reached' \in Int /\ Reached <= Reached'
PROOF
<1> USE DEF handler, journal, Reply
<1>0. SerialInv /\ JournalInv /\ MaxCommits < Half /\ Level /\ Level' /\ SerialInv' /\ TypeInv /\ TypeInv'
  BY DEF ReplicaInv, SerialInv, ApexInv, UniqueInv
<1>1. /\ Reached \in Int /\ Reached' \in Int
      /\ Reached <= Offset(serialOf(store))
      /\ Offset(serialOf(mem)) <= Offset(serialOf(store))
      /\ Offset(serialOf(store)) \in Int /\ Offset(serialOf(mem)) \in Int
  <2>1. mem' \in SUBSET RR /\ store' \in SUBSET RR
    BY <1>0 DEF TypeInv, TypeOK
  <2>2. serialOf(mem') \in Serials /\ serialOf(store') \in Serials
    BY <2>1, SerialOfType
  <2>3. Offset(serialOf(mem')) \in Int /\ Offset(serialOf(store')) \in Int
    BY <2>2, OffsetFacts
  <2>4. Reached' \in Int
    BY <2>3 DEF Reached
  <2>5. /\ Reached \in Int /\ Reached <= Offset(serialOf(store))
        /\ Offset(serialOf(store)) \in Int /\ Offset(serialOf(mem)) \in Int
    BY <1>0, LevelFacts
  <2> QED
    BY <1>0, <2>4, <2>5 DEF Level
<1>2. ASSUME NEW r \in WireRequests, ServeUpdate(r) PROVE Reached' = Reached
  BY <1>2 DEF ServeUpdate, Begin, Reached
<1>3. ASSUME NEW q \in HttpRequests, HttpApply(q) PROVE Reached' = Reached
  <2>1. pc = "idle" /\ pc' \in {"idle", "apply"} /\ UNCHANGED <<mem, store>>
    BY <1>3 DEF HttpApply, Begin
  <2> QED
    BY <2>1 DEF Reached
<1>4. ASSUME \/ ApplyNext \/ NothingChanged \/ PersistFails \/ CommitJournalFails \/ Transfer
             \/ UNCHANGED vars
      PROVE  Reached' = Reached
  BY <1>4 DEF ApplyNext, NothingChanged, PersistFails, CommitJournalFails, Transfer, vars, Reached
<1>5. ASSUME Persist PROVE Reached <= Reached'
  <2>1. hasSOA(work)
    BY <1>0, <1>5, CopiesFacts DEF SerialInv, ApexInv, KeepsApex, Persist
  <2>2. mem' = mem /\ pc = "apply" /\ pc' \in {"journal", "swap"}
    BY <1>5, <2>1 DEF Persist
  <2>3. Reached = Offset(serialOf(mem)) /\ Reached' \in {Offset(serialOf(mem)), Offset(serialOf(store'))}
    BY <2>2 DEF Reached
  <2>4. Offset(serialOf(mem)) <= Offset(serialOf(store'))
    BY <1>0, <2>2 DEF Level
  <2> QED
    BY <1>1, <2>3, <2>4
<1>6. ASSUME CommitJournal \/ Crash PROVE Reached <= Reached'
  <2>1. Reached' = Offset(serialOf(store))
    BY <1>6 DEF CommitJournal, Crash, Reached
  <2> QED
    BY <1>1, <2>1
<1>7. ASSUME Swap PROVE Reached <= Reached'
  <2>1. Builds(work)
    BY <1>0, <1>7, CopiesFacts DEF Swap, JournalInv
  <2>2. mem' = store /\ pc' = "idle"
    BY <1>0, <1>7, <2>1 DEF Swap, SerialInv
  <2>3. Reached' = Offset(serialOf(store))
    BY <2>2 DEF Reached
  <2> QED
    BY <1>1, <2>3
<1>8. ASSUME Restart PROVE Reached <= Reached'
  <2>1. ReadBack(store) = store
    BY <1>0, CopiesFacts, NoZeroTTLKept DEF SerialInv
  <2>2. \/ pc' = "skipped" /\ store' = store
        \/ pc' = "idle" /\ mem' = store
    BY <1>8, <2>1 DEF Restart
  <2>3. Reached' = Offset(serialOf(store))
    BY <2>2 DEF Reached
  <2> QED
    BY <1>1, <2>3
<1> QED
  BY <1>1, <1>2, <1>3, <1>4, <1>5, <1>6, <1>7, <1>8 DEF Next

LEMMA OpensOn ==
    ASSUME NEW s \in Seq(RR), NEW n \in Int, NEW m \in Int, n <= m, Opens(s, n)
    PROVE  Opens(s, m)
PROOF
<1>1. 1 \in 1 .. Len(s)
  BY LenProperties, EmptySeq DEF Opens
<1>2. s[1] \in RR /\ s[1].type = "SOA"
  BY <1>1, ElementOfSeq DEF Opens, isSOA
<1>3. s[1].data \in Serials
  BY <1>2 DEF RR
<1>4. Offset(s[1].data) \in Int
  BY <1>3, OffsetFacts
<1> QED
  BY <1>4 DEF Opens

(* A stream as it is sent.                                                 *)
LEMMA Fetched ==
    ASSUME ReplicaInv, NEW from
    PROVE  /\ AnswerStream(incs, current, from) \in Seq(RR)
           /\ Opens(AnswerStream(incs, current, from), Reached)
           /\ axfrStream(current) \in Seq(RR)
           /\ Opens(axfrStream(current), Reached)
           /\ OneSerial(axfrStream(current))
           /\ Len(answer(incs, current, from).incs) \in Nat
PROOF
<1>1. PICK G \in [Serials -> Generations] : Contents(G)
  BY DEF ReplicaInv
<1>2. current \in Generations /\ Offset(serialOf(current)) <= Reached
  <2>1. current \in Seen(G, Reached)
    BY <1>1 DEF Contents
  <2>2. current \in SUBSET RR /\ G[serialOf(current)] = current /\ Offset(serialOf(current)) <= Reached
    BY <2>1 DEF Seen
  <2>3. serialOf(current) \in Serials
    BY <2>2, SerialOfType
  <2> QED
    BY <2>2, <2>3
<1>3. incs \in Seq(Told(G, Reached))
  BY <1>1 DEF Contents
<1>4. isSOA(soaOf(current)) /\ soaOf(current).data = serialOf(current) /\ soaOf(current) \in RR
  BY <1>2, GenerationSOA
<1>5. /\ AnswerStream(incs, current, from) \in Seq(RR)
      /\ Opens(AnswerStream(incs, current, from), Reached)
  <2>1. LET e == AnswerStream(incs, current, from)
        IN  e \in Seq(RR) /\ e # << >> /\ e[1] = soaOf(current)
    BY <1>2, <1>3, AnswerOpens
  <2> QED
    BY <1>2, <1>4, <2>1 DEF Opens
<1>6. PICK X \in Seq(RR) : /\ axfrStream(current) = Envelope(soaOf(current), X)
                           /\ \A i \in 1 .. Len(X) : ~isSOA(X[i])
  BY <1>2, AxfrFacts
<1> DEFINE e == axfrStream(current)
           x == soaOf(current)
           n == Len(X)
<1>7. /\ e \in Seq(RR) /\ n \in Nat /\ Len(e) = n + 2 /\ e[1] = x /\ e[Len(e)] = x
      /\ \A i \in 1 .. n : e[i + 1] = X[i]
  BY <1>4, <1>6, EnvelopeFacts DEF Envelope
<1> HIDE DEF e, x, n
<1>8. Opens(e, Reached)
  <2>1. e # << >>
    BY <1>7, EmptySeq
  <2> QED
    BY <1>2, <1>4, <1>7, <2>1 DEF Opens, x
<1>9. OneSerial(e)
  <2> SUFFICES ASSUME NEW i \in 1 .. Len(e), isSOA(e[i]) PROVE e[i].data = e[1].data
    BY DEF OneSerial
  <2>1. i \in 1 .. n + 2
    BY <1>7
  <2>2. i = 1 \/ i = n + 2 \/ (i - 1 \in 1 .. n /\ (i - 1) + 1 = i)
    BY <1>7, <2>1
  <2> QED
    BY <1>6, <1>7, <2>2 DEF n
<1>10. Len(answer(incs, current, from).incs) \in Nat
  <2> DEFINE a == answer(incs, current, from)
  <2>1. a.kind \in {"axfr", "uptodate", "ixfr"} /\ (a.kind # "ixfr" => a.incs = << >>)
        /\ (a.kind = "ixfr" => Len(a.incs) \in Nat \ {0})
    BY <1>3, AnswerFacts
  <2> HIDE DEF a
  <2>2. a.incs = << >> \/ Len(a.incs) \in Nat
    BY <2>1
  <2> QED
    BY <2>2, EmptySeq DEF a
<1> QED
  BY <1>5, <1>7, <1>8, <1>9, <1>10 DEF e

(* What a primary's step leaves alone.                                     *)
LEMMA BehindPrimary ==
    ASSUME RequestsIn(ServerSerials), RequestsIn(BuildableUpdates),
           BehindInv, [Next]_vars, UNCHANGED secondary
    PROVE  BehindInv'
PROOF
<1> USE DEF secondary
<1>1. ReplicaInv'
  BY ReplicaStep DEF BehindInv
<1>2. Reached \in Int /\ Reached' \in Int /\ Reached <= Reached'
  BY <1>1, ReachedGrows DEF BehindInv
<1>3. zone' = zone /\ xfer' = xfer
  OBVIOUS
<1>4. serialOf(zone) \in Serials /\ Offset(serialOf(zone)) \in Int
  BY OffsetFacts DEF BehindInv
<1>5. zone # {} => Offset(serialOf(zone)) <= Reached'
  BY <1>2, <1>4 DEF BehindInv
<1>6. ASSUME NEW w \in Workers PROVE UnderWay(xfer[w], Reached')
  <2>1. xfer[w].stream \in Seq(RR) /\ UnderWay(xfer[w], Reached)
    BY DEF BehindInv, XferType, Worker
  <2> QED
    BY <1>2, <2>1, OpensOn DEF UnderWay
<1>7. XferType'
  BY <1>3 DEF BehindInv, XferType
<1> QED
  BY <1>1, <1>3, <1>4, <1>5, <1>6, <1>7 DEF BehindInv

(* What a worker's step makes of its own state; the others keep theirs.    *)
LEMMA WorkerSteps ==
    ASSUME XferType, serialOf(zone) \in Serials, NEW w \in Workers
    PROVE  /\ StartTransfer(w) =>
                \E x \in Worker : /\ xfer' = [xfer EXCEPT ![w] = x]
                                  /\ x.pc = IF hasSOA(zone) THEN "ixfr" ELSE "axfr"
           /\ AnswerStream(incs, current, xfer[w].serial) \in Seq(RR)
                /\ Len(answer(incs, current, xfer[w].serial).incs) \in Nat
                /\ axfrStream(current) \in Seq(RR) /\ Fetch(w) =>
                \E x \in Worker : /\ xfer' = [xfer EXCEPT ![w] = x]
                                  /\ \/ /\ x.pc = "ixfrGot" /\ x.serial = xfer[w].serial
                                        /\ x.stream = AnswerStream(incs, current, x.serial)
                                        /\ x.deltas = Len(answer(incs, current, x.serial).incs)
                                     \/ /\ x.pc = "axfrGot" /\ x.stream = axfrStream(current)
           /\ FetchFails(w) => \E x \in Worker : /\ xfer' = [xfer EXCEPT ![w] = x]
                                                 /\ x.pc \in {"axfr", "idle"}
           /\ Install(w) => \E x \in Worker : /\ xfer' = [xfer EXCEPT ![w] = x]
                                              /\ x.pc \in {"axfr", "idle"}
PROOF
<1>0. xfer \in [Workers -> Worker] /\ xfer[w] \in Worker
  BY DEF XferType, Worker
<1>1. Resting \in Worker /\ [Resting EXCEPT !.pc = "axfr"] \in Worker
      /\ Resting.pc = "idle" /\ [Resting EXCEPT !.pc = "axfr"].pc = "axfr"
  <2>1. 0 \in Serials /\ << >> \in Seq(RR)
    BY EmptySeq, HalfAssumption DEF Serials
  <2>2. Resting \in Worker
    BY <2>1 DEF Resting, Worker
  <2>3. [Resting EXCEPT !.pc = "axfr"]
          = [pc |-> "axfr", serial |-> 0, stream |-> << >>, deltas |-> 0]
    BY DEF Resting
  <2>4. [pc |-> "axfr", serial |-> 0, stream |-> << >>, deltas |-> 0] \in Worker
    BY <2>1 DEF Worker
  <2> QED
    BY <2>2, <2>3, <2>4 DEF Resting
<1>2. ASSUME StartTransfer(w)
      PROVE  \E x \in Worker : /\ xfer' = [xfer EXCEPT ![w] = x]
                               /\ x.pc = IF hasSOA(zone) THEN "ixfr" ELSE "axfr"
  <2> DEFINE x == [pc |-> IF hasSOA(zone) THEN "ixfr" ELSE "axfr",
                   serial |-> serialOf(zone), stream |-> << >>, deltas |-> 0]
  <2>1. x \in Worker /\ x.pc = IF hasSOA(zone) THEN "ixfr" ELSE "axfr"
    BY EmptySeq DEF Worker
  <2>2. xfer' = [xfer EXCEPT ![w] = x]
    BY <1>2 DEF StartTransfer
  <2> HIDE DEF x
  <2> QED
    BY <2>1, <2>2
<1>3. ASSUME AnswerStream(incs, current, xfer[w].serial) \in Seq(RR),
             Len(answer(incs, current, xfer[w].serial).incs) \in Nat,
             axfrStream(current) \in Seq(RR), Fetch(w)
      PROVE  \E x \in Worker : /\ xfer' = [xfer EXCEPT ![w] = x]
                               /\ \/ /\ x.pc = "ixfrGot" /\ x.serial = xfer[w].serial
                                     /\ x.stream = AnswerStream(incs, current, x.serial)
                                     /\ x.deltas = Len(answer(incs, current, x.serial).incs)
                                  \/ /\ x.pc = "axfrGot" /\ x.stream = axfrStream(current)
  <2>0. PICK from \in Serials : from = xfer[w].serial
    BY <1>0 DEF Worker
  <2> DEFINE e == AnswerStream(incs, current, from)
             d == axfrStream(current)
             k == Len(answer(incs, current, from).incs)
             x == [pc |-> "ixfrGot", serial |-> from, stream |-> e, deltas |-> k]
             y == [pc |-> "axfrGot", serial |-> from, stream |-> d, deltas |-> 0]
  <2>1. e \in Seq(RR) /\ d \in Seq(RR) /\ k \in Nat
    BY <1>3, <2>0
  <2>2. xfer' = [xfer EXCEPT ![w] = x] \/ xfer' = [xfer EXCEPT ![w] = y]
    BY <1>3, <2>0 DEF Fetch
  <2> HIDE DEF e, d, k
  <2>3. x \in Worker /\ x.pc = "ixfrGot" /\ x.serial = from /\ x.stream = e /\ x.deltas = k
    BY <2>1 DEF Worker
  <2>4. y \in Worker /\ y.pc = "axfrGot" /\ y.stream = d
    BY <2>1 DEF Worker
  <2> HIDE DEF x, y
  <2> QED
    BY <2>0, <2>2, <2>3, <2>4 DEF e, d, k
<1>4. ASSUME FetchFails(w)
      PROVE  \E x \in Worker : xfer' = [xfer EXCEPT ![w] = x] /\ x.pc \in {"axfr", "idle"}
  <2> DEFINE y == [xfer[w] EXCEPT !.pc = "axfr"]
  <2>1. y \in Worker /\ y.pc = "axfr"
    BY <1>0 DEF Worker
  <2>2. xfer' = [xfer EXCEPT ![w] = y] \/ xfer' = [xfer EXCEPT ![w] = Resting]
    BY <1>4 DEF FetchFails
  <2> HIDE DEF y
  <2> QED
    BY <1>1, <2>1, <2>2
<1>5. ASSUME Install(w)
      PROVE  \E x \in Worker : xfer' = [xfer EXCEPT ![w] = x] /\ x.pc \in {"axfr", "idle"}
  <2>1. \/ xfer' = [xfer EXCEPT ![w] = Resting]
        \/ xfer' = [xfer EXCEPT ![w] = [Resting EXCEPT !.pc = "axfr"]]
    BY <1>5 DEF Install
  <2> QED
    BY <1>1, <2>1
<1> QED
  BY <1>2, <1>3, <1>4, <1>5

LEMMA BehindWorker ==
    ASSUME BehindInv, UNCHANGED vars, ReplicaInv', NEW w \in Workers, NEW x \in Worker,
           xfer' = [xfer EXCEPT ![w] = x], UnderWay(x, Reached),
           serialOf(zone') \in Serials, zone' # {} => Offset(serialOf(zone')) <= Reached
    PROVE  BehindInv'
PROOF
<1>1. Reached' = Reached
  BY DEF vars, Reached
<1>2. xfer \in [Workers -> Worker]
  BY DEF BehindInv, XferType, Worker
<1>3. XferType'
  BY <1>2 DEF XferType, Worker
<1>4. \A v \in Workers : xfer'[v] = IF v = w THEN x ELSE xfer[v]
  BY <1>2
<1>5. \A v \in Workers : UnderWay(xfer'[v], Reached)
  BY <1>4 DEF BehindInv
<1> QED
  BY <1>1, <1>3, <1>5 DEF BehindInv

LEMMA BehindStep ==
    ASSUME RequestsIn(ServerSerials), RequestsIn(BuildableUpdates)
    PROVE  BehindInv /\ [TransferNext]_allVars => BehindInv'
PROOF
<1> SUFFICES ASSUME BehindInv, [TransferNext]_allVars PROVE BehindInv'
  OBVIOUS
<1>0. ReplicaInv /\ XferType /\ serialOf(zone) \in Serials
      /\ (zone # {} => Offset(serialOf(zone)) <= Reached)
  BY DEF BehindInv
<1>1. CASE PrimaryNext \/ UNCHANGED allVars
  <2>1. [Next]_vars /\ UNCHANGED secondary
    BY <1>1 DEF PrimaryNext, Handler, Next, allVars
  <2> QED
    BY <2>1, BehindPrimary
<1>a. ASSUME UNCHANGED vars PROVE ReplicaInv'
  BY <1>0, <1>a, ReplicaStep
<1>2. ASSUME NEW w \in Workers, StartTransfer(w), UNCHANGED <<vars, zone, clean>> PROVE BehindInv'
  <2>1. PICK x \in Worker : xfer' = [xfer EXCEPT ![w] = x] /\ x.pc \in {"ixfr", "axfr"}
    BY <1>0, <1>2, WorkerSteps
  <2>2. UnderWay(x, Reached)
    BY <2>1 DEF UnderWay
  <2>3. UNCHANGED vars /\ zone' = zone
    BY <1>2
  <2> QED
    BY <1>0, <1>a, <2>1, <2>2, <2>3, BehindWorker
<1>3. ASSUME Refresh \/ \E w \in Workers : ForceTransfer(w) PROVE BehindInv'
  <2>1. \E w \in Workers : StartTransfer(w) /\ UNCHANGED <<vars, zone, clean>>
    BY <1>3 DEF Refresh, ForceTransfer
  <2> QED
    BY <1>2, <2>1
<1>4. ASSUME NEW w \in Workers, Fetch(w) PROVE BehindInv'
  <2> DEFINE e == AnswerStream(incs, current, xfer[w].serial)
             d == axfrStream(current)
  <2>1. /\ e \in Seq(RR) /\ Opens(e, Reached) /\ d \in Seq(RR) /\ Opens(d, Reached) /\ OneSerial(d)
        /\ Len(answer(incs, current, xfer[w].serial).incs) \in Nat
    BY <1>0, Fetched
  <2>2. PICK x \in Worker : /\ xfer' = [xfer EXCEPT ![w] = x]
                            /\ \/ x.pc = "ixfrGot" /\ x.stream = e
                               \/ x.pc = "axfrGot" /\ x.stream = d
    BY <1>0, <1>4, <2>1, WorkerSteps
  <2> HIDE DEF e, d
  <2>3. UnderWay(x, Reached)
    BY <2>1, <2>2 DEF UnderWay
  <2>4. UNCHANGED vars /\ zone' = zone
    BY <1>4 DEF Fetch
  <2> QED
    BY <1>0, <1>a, <2>2, <2>3, <2>4, BehindWorker
<1>5. ASSUME NEW w \in Workers, FetchFails(w) PROVE BehindInv'
  <2>1. PICK x \in Worker : xfer' = [xfer EXCEPT ![w] = x] /\ x.pc \in {"axfr", "idle"}
    BY <1>0, <1>5, WorkerSteps
  <2>2. UnderWay(x, Reached)
    BY <2>1 DEF UnderWay
  <2>3. UNCHANGED vars /\ zone' = zone
    BY <1>5 DEF FetchFails
  <2> QED
    BY <1>0, <1>a, <2>1, <2>2, <2>3, BehindWorker
<1>6. ASSUME NEW w \in Workers, Install(w) PROVE BehindInv'
  <2>1. PICK x \in Worker : xfer' = [xfer EXCEPT ![w] = x] /\ x.pc \in {"axfr", "idle"}
    BY <1>0, <1>6, WorkerSteps
  <2>2. UnderWay(x, Reached)
    BY <2>1 DEF UnderWay
  <2>3. UNCHANGED vars
    BY <1>6 DEF Install
  <2> DEFINE s == xfer[w].stream
  <2>4. s \in Seq(RR) /\ UnderWay(xfer[w], Reached)
    BY <1>0 DEF BehindInv, XferType, Worker
  <2>5. xfer[w].pc \in {"ixfrGot", "axfrGot"} => Opens(s, Reached) /\ s[1].data \in Serials
    <3>1. ASSUME Opens(s, Reached) PROVE s[1].data \in Serials
      <4>1. 1 \in 1 .. Len(s)
        BY <2>4, <3>1, LenProperties, EmptySeq DEF Opens
      <4>2. s[1] \in RR /\ s[1].type = "SOA"
        BY <2>4, <3>1, <4>1, ElementOfSeq DEF Opens, isSOA
      <4> QED
        BY <4>2 DEF RR
    <3> QED
      BY <2>4, <3>1 DEF UnderWay
  <2>6. zone' = zone \/ (Opens(s, Reached) /\ s[1].data \in Serials /\ serialOf(zone') = s[1].data)
    <3>1. CASE xfer[w].pc = "ixfrGot" /\ Installs(s) /\ zone' = Installed(zone, s)
      BY <2>4, <2>5, <3>1, InstalledSerial DEF Opens
    <3>2. CASE xfer[w].pc = "axfrGot" /\ zone' = Range(s)
      BY <2>4, <2>5, <3>2, WholeSerial DEF Opens, UnderWay
    <3> QED
      BY <1>6, <3>1, <3>2 DEF Install
  <2>7. serialOf(zone') \in Serials /\ (zone' # {} => Offset(serialOf(zone')) <= Reached)
    <3> HIDE DEF s
    <3> QED
      BY <1>0, <2>6 DEF Opens
  <2> QED
    BY <1>a, <2>1, <2>2, <2>3, <2>7, BehindWorker
<1> QED
  BY <1>1, <1>3, <1>4, <1>5, <1>6 DEF TransferNext

LEMMA BehindInit ==
    ASSUME KeepsApex(Seed), NoTwins(Seed), NoZeroTTL(Seed), Builds(Seed), MaxCommits < Half,
           TransferInit
    PROVE  BehindInv
PROOF
<1>1. ReplicaInv
  BY ReplicaInit DEF TransferInit
<1>2. serialOf(zone) = 0 /\ 0 \in Serials
  BY HalfAssumption DEF TransferInit, serialOf, hasSOA, SOAs, Serials
<1>3. xfer = [w \in Workers |-> Resting] /\ zone = {}
  BY DEF TransferInit
<1>4. XferType
  BY <1>2, <1>3, EmptySeq DEF XferType, Worker, Resting
<1>5. \A w \in Workers : UnderWay(xfer[w], Reached)
  BY <1>3 DEF UnderWay, Resting
<1> QED
  BY <1>1, <1>2, <1>3, <1>4, <1>5 DEF BehindInv

(* The generation a secondary-persistent zone serves would survive a crash *)
(* of its primary at any moment, whatever its transfers and forced ones do *)
(* to each other: for every history length, however long a stream is under *)
(* way, and also when the increments in it are misread (installIXFR).      *)
THEOREM SecondaryStaysBehind ==
    ASSUME KeepsApex(Seed), NoTwins(Seed), NoZeroTTL(Seed), Builds(Seed), MaxCommits < Half,
           RequestsIn(ServerSerials), RequestsIn(BuildableUpdates)
    PROVE  TransferSpec => []SecondaryNeverAhead
PROOF
<1>1. TransferInit => BehindInv
  BY BehindInit
<1>2. BehindInv /\ [TransferNext]_allVars => BehindInv'
  BY BehindStep
<1>3. BehindInv => SecondaryNeverAhead
  <2> SUFFICES ASSUME BehindInv, zone # {}
               PROVE  ~serialNewer(serialOf(zone), serialOf(store))
    BY DEF SecondaryNeverAhead
  <2>1. TypeInv /\ Level /\ MaxCommits < Half
    BY DEF BehindInv, ReplicaInv, SerialInv, ApexInv, UniqueInv
  <2>2. serialOf(zone) \in Serials /\ Offset(serialOf(zone)) <= Reached
        /\ Offset(serialOf(zone)) \in Int
    BY OffsetFacts DEF BehindInv
  <2>3. /\ serialOf(store) \in Serials
        /\ Offset(serialOf(zone)) <= Offset(serialOf(store))
        /\ Offset(serialOf(store)) < Half
    BY <2>1, <2>2, LevelFacts
  <2> QED
    BY <2>2, <2>3, OffsetFacts
<1> QED
  BY <1>1, <1>2, <1>3, PTL DEF TransferSpec

-----------------------------------------------------------------------------
(* Reading increments back.  A fold is the last of a row of states, each   *)
(* one step from the one before it.                                        *)

LEMMA MaxOfInterval ==
    ASSUME NEW m \in Nat, NEW S \in SUBSET (1 .. m), S # {}
    PROVE  /\ Max(S) \in S /\ \A k \in S : k <= Max(S)
           /\ m \in S => Max(S) = m
PROOF
<1>1. S \in SUBSET (0 .. m)
  OBVIOUS
<1>2. PICK k \in S : \A j \in S : j <= k
  BY <1>1, GreatestNatural
<1>3. \A j \in S : j \in Int /\ j <= m
  OBVIOUS
<1>4. \E x \in S : \A y \in S : x >= y
  BY <1>2, <1>3
<1>5. Max(S) \in S /\ \A y \in S : Max(S) >= y
  BY <1>4 DEF Max
<1> DEFINE x == Max(S)
<1> HIDE DEF x
<1>6. x \in S /\ \A y \in S : x >= y
  BY <1>5 DEF x
<1>7. x \in Int /\ x <= m
  BY <1>3, <1>6
<1>8. \A k1 \in S : k1 <= x
  BY <1>3, <1>6, <1>7
<1>9. m \in S => x = m
  BY <1>6, <1>7
<1> QED
  BY <1>6, <1>8, <1>9 DEF x

ParseNext(env, s, f, S) ==
    IF S = {} THEN ParseStart ELSE ParseRR(env, f[S \ {Max(S)}], s[Max(S)])

Parses(env, s, m, f) == f = [S \in SUBSET (1 .. m) |-> ParseNext(env, s, f, S)]

LEMMA ParsesExist ==
    ASSUME NEW n \in Nat, NEW env, NEW s
    PROVE  \E f : Parses(env, s, n, f)
PROOF
<1> DEFINE Without == {m \in Nat : ~ \E f : Parses(env, s, m, f)}
<1>1. Without \in SUBSET Nat
  OBVIOUS
<1>2. ASSUME Without # {} PROVE FALSE
  <2>1. PICK m \in Without : \A k \in Without : m <= k
    <3> HIDE DEF Without
    <3> QED
      BY <1>1, <1>2, LeastNatural
  <2>2. CASE m = 0
    <3> DEFINE f == [S \in SUBSET (1 .. m) |-> ParseStart]
    <3>1. \A S \in SUBSET (1 .. m) : S = {}
      BY <2>2
    <3>2. \A S \in SUBSET (1 .. m) : f[S] = ParseNext(env, s, f, S)
      <4> SUFFICES ASSUME NEW S \in SUBSET (1 .. m) PROVE f[S] = ParseNext(env, s, f, S)
        OBVIOUS
      <4>1. f[S] = ParseStart
        OBVIOUS
      <4> HIDE DEF f
      <4> QED
        BY <3>1, <4>1 DEF ParseNext
    <3>3. f = [S \in SUBSET (1 .. m) |-> f[S]]
      OBVIOUS
    <3> HIDE DEF f
    <3>4. Parses(env, s, m, f)
      BY <3>2, <3>3 DEF Parses
    <3> QED
      BY <3>4
  <2>3. CASE m # 0
    <3>1. m \in Nat /\ m - 1 \in Nat /\ m - 1 \notin Without
      BY <2>1, <2>3
    <3>2. PICK f : Parses(env, s, m - 1, f)
      BY <3>1
    <3>3. \A S \in SUBSET (1 .. (m - 1)) : f[S] = ParseNext(env, s, f, S)
      BY <3>2 DEF Parses
    <3> DEFINE g == [S \in SUBSET (1 .. m) |->
                       IF m \in S THEN ParseRR(env, f[S \ {m}], s[m]) ELSE f[S]]
    <3>4. \A S \in SUBSET (1 .. m) :
              g[S] = IF m \in S THEN ParseRR(env, f[S \ {m}], s[m]) ELSE f[S]
      OBVIOUS
    <3>5. g = [S \in SUBSET (1 .. m) |-> g[S]]
      OBVIOUS
    <3> HIDE DEF g
    <3>6. \A S \in SUBSET (1 .. m) : m \notin S => S \in SUBSET (1 .. (m - 1))
      BY <3>1
    <3>7. ASSUME NEW S \in SUBSET (1 .. m) PROVE g[S] = ParseNext(env, s, g, S)
      <4>1. CASE S = {}
        <5>1. g[S] = f[S] /\ S \in SUBSET (1 .. (m - 1))
          BY <3>4, <4>1
        <5> QED
          BY <3>3, <4>1, <5>1 DEF ParseNext
      <4>2. CASE m \in S
        <5>1. Max(S) = m
          BY <3>1, <4>2, MaxOfInterval
        <5>2. S \ {m} \in SUBSET (1 .. m) /\ m \notin S \ {m}
          OBVIOUS
        <5>3. g[S \ {m}] = f[S \ {m}]
          BY <3>4, <5>2
        <5> QED
          BY <3>4, <4>2, <5>1, <5>3 DEF ParseNext
      <4>3. CASE S # {} /\ m \notin S
        <5>1. S \in SUBSET (1 .. (m - 1)) /\ g[S] = f[S]
          BY <3>4, <3>6, <4>3
        <5>2. S \ {Max(S)} \in SUBSET (1 .. m) /\ m \notin S \ {Max(S)}
          BY <4>3
        <5>3. g[S \ {Max(S)}] = f[S \ {Max(S)}]
          BY <3>4, <5>2
        <5> QED
          BY <3>3, <4>3, <5>1, <5>3 DEF ParseNext
      <4> QED
        BY <4>1, <4>2, <4>3
    <3>8. Parses(env, s, m, g)
      BY <3>5, <3>7 DEF Parses
    <3> QED
      BY <3>8
  <2> QED
    BY <2>2, <2>3
<1> QED
  BY <1>2

(* The parser's states t before the first and after every record.          *)
ParseRow(env, s, n, t) ==
    t[0] = ParseStart /\ \A i \in 1 .. n : t[i] = ParseRR(env, t[i-1], s[i])

Parsed(env, s) == FoldLeft(LAMBDA q, rr : ParseRR(env, q, rr), ParseStart, s)

LEMMA ParseStates ==
    ASSUME NEW S, NEW s \in Seq(S), NEW env, NEW n \in Nat, n = Len(s)
    PROVE  \E t : /\ ParseRow(env, s, n, t)
                  /\ Parsed(env, s) = t[n]
PROOF
<1>1. DOMAIN s = 1 .. n
  BY LenProperties
<1> DEFINE f == CHOOSE g : Parses(env, s, n, g)
<1>2. Parses(env, s, n, f)
  BY ParsesExist
<1>3. Parsed(env, s) = f[1 .. n]
  BY <1>1 DEF Parsed, FoldLeft, MapThenFoldSet, Parses, ParseNext
<1> HIDE DEF f
<1>4. \A R \in SUBSET (1 .. n) : f[R] = ParseNext(env, s, f, R)
  BY <1>2 DEF Parses
<1> DEFINE t == [i \in 0 .. n |-> f[1 .. i]]
<1>5. t[0] = ParseStart
  <2>1. 1 .. 0 = {} /\ t[0] = f[1 .. 0]
    OBVIOUS
  <2> QED
    BY <1>4, <2>1 DEF ParseNext
<1>6. ASSUME NEW i \in 1 .. n PROVE t[i] = ParseRR(env, t[i-1], s[i])
  <2> DEFINE R == 1 .. i
  <2>1. i \in Nat /\ R \in SUBSET (1 .. i) /\ R \in SUBSET (1 .. n) /\ R # {} /\ i \in R
    <3>1. i \in Nat /\ i \in R /\ \A k \in R : k \in 1 .. n
      OBVIOUS
    <3>2. R \in SUBSET (1 .. n) /\ R # {}
      BY <3>1
    <3> QED
      BY <3>1, <3>2
  <2>2. R \ {i} = 1 .. (i - 1) /\ i - 1 \in 0 .. n /\ i \in 0 .. n
    OBVIOUS
  <2>3. t[i] = f[R] /\ t[i-1] = f[R \ {i}]
    BY <2>2
  <2> HIDE DEF R, t
  <2>4. Max(R) = i
    BY <2>1, MaxOfInterval
  <2> QED
    BY <1>4, <2>1, <2>3, <2>4 DEF ParseNext
<1>7. t[n] = f[1 .. n]
  OBVIOUS
<1> HIDE DEF t
<1>8. ParseRow(env, s, n, t)
  BY <1>5, <1>6 DEF ParseRow
<1> QED
  BY <1>3, <1>7, <1>8

(* The parser within one increment.                                        *)
ParseState(m, o, n, D, A) ==
    [mode |-> m, cur |-> [oldSerial |-> o, newSerial |-> n, deleted |-> D, added |-> A],
     incs |-> << >>, ok |-> TRUE]

LEMMA ParseOpens ==
    ASSUME NEW env, NEW rr, isSOA(rr), rr.data # env
    PROVE  ParseRR(env, ParseStart, rr) = ParseState("del", rr.data, 0, {}, {})
PROOF
<1> DEFINE p == ParseStart
<1>1. p.ok /\ p.mode = "none" /\ p.cur = NoIncrement
  BY DEF ParseStart
<1>2. ParseRR(env, p, rr) = [p EXCEPT !.mode = "del", !.cur.oldSerial = rr.data]
  BY <1>1 DEF ParseRR
<1>3. [p EXCEPT !.mode = "del", !.cur.oldSerial = rr.data]
        = [[p EXCEPT !.mode = "del"] EXCEPT !.cur = [NoIncrement EXCEPT !.oldSerial = rr.data]]
  BY DEF ParseStart
<1> QED
  BY <1>2, <1>3 DEF ParseStart, ParseState, NoIncrement

LEMMA ParseDeletes ==
    ASSUME NEW env, NEW rr, ~isSOA(rr), NEW o, NEW n, NEW D, NEW A
    PROVE  ParseRR(env, ParseState("del", o, n, D, A), rr)
             = ParseState("del", o, n, D \cup {rr}, A)
PROOF
<1> DEFINE p == ParseState("del", o, n, D, A)
<1>1. p.ok /\ p.mode = "del"
  BY DEF ParseState
<1>2. ParseRR(env, p, rr) = [p EXCEPT !.cur.deleted = @ \cup {rr}]
  BY <1>1 DEF ParseRR
<1> QED
  BY <1>2 DEF ParseState

LEMMA ParseTurns ==
    ASSUME NEW env, NEW rr, isSOA(rr), rr.data = env, NEW o, NEW n, NEW D, NEW A
    PROVE  ParseRR(env, ParseState("del", o, n, D, A), rr)
             = ParseState("add", o, env, D, A)
PROOF
<1> DEFINE p == ParseState("del", o, n, D, A)
<1>1. p.ok /\ p.mode = "del"
  BY DEF ParseState
<1>2. ParseRR(env, p, rr) = [p EXCEPT !.mode = "add", !.cur.newSerial = rr.data]
  BY <1>1 DEF ParseRR
<1> QED
  BY <1>2 DEF ParseState

LEMMA ParseAdds ==
    ASSUME NEW env, NEW rr, ~isSOA(rr), NEW o, NEW n, NEW D, NEW A
    PROVE  ParseRR(env, ParseState("add", o, n, D, A), rr)
             = ParseState("add", o, n, D, A \cup {rr})
PROOF
<1> DEFINE p == ParseState("add", o, n, D, A)
<1>1. p.ok /\ p.mode = "add"
  BY DEF ParseState
<1>2. ParseRR(env, p, rr) = [p EXCEPT !.cur.added = @ \cup {rr}]
  BY <1>1 DEF ParseRR
<1> QED
  BY <1>2 DEF ParseState

PartShape(s, a, D, b, A, d, k) ==
    /\ s \in Seq(RR) /\ Len(s) = d + 2 + k
    /\ s[1] = a /\ s[d + 2] = b
    /\ \A i \in 1 .. d : s[i + 1] = D[i]
    /\ \A i \in 1 .. k : s[d + 2 + i] = A[i]

LEMMA PartElements ==
    ASSUME NEW a \in RR, NEW D \in Seq(RR), NEW b \in RR, NEW A \in Seq(RR)
    PROVE  PartShape(Part(a, D, b, A), a, D, b, A, Len(D), Len(A))
PROOF
<1>a. PICK s : s = Part(a, D, b, A)
  OBVIOUS
<1>b. PICK d \in Nat : d = Len(D)
  BY LenProperties
<1>c. PICK k \in Nat : k = Len(A)
  BY LenProperties
<1>d. PICK S : S = RR
  OBVIOUS
<1>e. a \in S /\ b \in S /\ D \in Seq(S) /\ A \in Seq(S)
  BY <1>d
<1> DEFINE x == <<a>> \o D
           y == x \o <<b>>
<1>0. s \in Seq(S)
  BY <1>a, <1>e, PartType
<1>1. <<a>> \in Seq(S) /\ Len(<<a>>) = 1 /\ <<a>>[1] = a
      /\ <<b>> \in Seq(S) /\ Len(<<b>>) = 1 /\ <<b>>[1] = b
  BY <1>e
<1>2. /\ x \in Seq(S) /\ Len(x) = 1 + d
      /\ \A i \in 1 .. 1 + d : x[i] = IF i <= 1 THEN <<a>>[i] ELSE D[i - 1]
  BY <1>b, <1>e, <1>1, ConcatProperties
<1>3. s = y \o A
  BY <1>a DEF Part
<1> HIDE DEF x
<1>4. /\ y \in Seq(S) /\ Len(y) = (1 + d) + 1
      /\ \A i \in 1 .. (1 + d) + 1 : y[i] = IF i <= 1 + d THEN x[i] ELSE <<b>>[i - (1 + d)]
  BY <1>1, <1>2, ConcatProperties
<1> HIDE DEF y
<1>5. PICK l \in Nat : l = d + 2
  OBVIOUS
<1>6. Len(y) = l
  BY <1>4, <1>5
<1>7. /\ Len(s) = l + k
      /\ \A i \in 1 .. l + k : s[i] = IF i <= l THEN y[i] ELSE A[i - l]
  <2>1. y \in Seq(S)
    BY <1>4
  <2>2. /\ Len(y \o A) = Len(y) + Len(A)
        /\ \A i \in 1 .. Len(y) + Len(A) : (y \o A)[i] = IF i <= Len(y) THEN y[i] ELSE A[i - Len(y)]
    BY <1>e, <2>1, ConcatProperties
  <2> QED
    BY <1>3, <1>6, <1>c, <2>2
<1>8. \A i \in 1 .. l : s[i] = y[i]
  <2>1. \A i \in 1 .. l : i \in 1 .. l + k /\ i <= l
    OBVIOUS
  <2> QED
    BY <1>7, <2>1
<1>9. \A i \in 1 .. k : s[l + i] = A[i]
  <2>1. \A i \in 1 .. k : l + i \in 1 .. l + k /\ ~(l + i <= l) /\ (l + i) - l = i
    OBVIOUS
  <2> QED
    BY <1>7, <2>1
<1>10. s[1] = a
  <2>1. 1 \in 1 .. l /\ 1 \in 1 .. (1 + d) + 1 /\ 1 <= 1 + d /\ 1 \in 1 .. 1 + d
    BY <1>5
  <2> QED
    BY <1>1, <1>2, <1>4, <1>8, <2>1
<1>11. s[l] = b
  <2>1. l \in 1 .. l /\ l \in 1 .. (1 + d) + 1 /\ ~(l <= 1 + d) /\ l - (1 + d) = 1
    BY <1>5
  <2> QED
    BY <1>1, <1>4, <1>8, <2>1
<1>12. \A i \in 1 .. d : s[i + 1] = D[i]
  <2> SUFFICES ASSUME NEW i \in 1 .. d PROVE s[i + 1] = D[i]
    OBVIOUS
  <2>1. i + 1 \in 1 .. l /\ i + 1 \in 1 .. (1 + d) + 1 /\ i + 1 <= 1 + d
        /\ i + 1 \in 1 .. 1 + d /\ ~(i + 1 <= 1) /\ (i + 1) - 1 = i
    BY <1>5
  <2>2. s[i + 1] = y[i + 1] /\ y[i + 1] = x[i + 1]
    BY <1>4, <1>8, <2>1
  <2> QED
    BY <1>2, <2>1, <2>2
<1>13. PartShape(s, a, D, b, A, d, k)
  BY <1>0, <1>5, <1>7, <1>9, <1>10, <1>11, <1>12, <1>d DEF PartShape
<1> QED
  BY <1>13, <1>a, <1>b, <1>c

LEMMA EnvelopeParts ==
    ASSUME NEW x \in RR, NEW X \in Seq(RR)
    PROVE  Head(Envelope(x, X)) = x /\ Inner(Envelope(x, X)) = X
PROOF
<1> DEFINE e == Envelope(x, X)
<1>1. e = <<x>> \o X \o <<x>>
  BY DEF Envelope
<1> HIDE DEF e
<1>2. Inner(e) = X
  <2>1. PICK n \in Nat : n = Len(X)
    BY LenProperties
  <2>2. e \in Seq(RR) /\ Len(e) = n + 2 /\ \A i \in 1 .. n : e[i + 1] = X[i]
    BY <1>1, <2>1, EnvelopeFacts
  <2>3. /\ Inner(e) \in Seq(RR) /\ Len(Inner(e)) = n
        /\ \A i \in 1 .. n : Inner(e)[i] = e[i + 1]
    BY <2>2, InnerFacts
  <2> QED
    BY <2>1, <2>2, <2>3, SeqEqual
<1>3. Head(e) = x
  BY <1>1, EnvelopeFacts
<1> QED
  BY <1>2, <1>3 DEF e

(* The first i records of a part.                                          *)
Lead(D, i) == {D[j] : j \in 1 .. i}

LEMMA FrontFacts ==
    ASSUME NEW D
    PROVE  /\ Lead(D, 0) = {}
           /\ \A i \in Nat : i # 0 => Lead(D, i) = Lead(D, i - 1) \cup {D[i]}
PROOF
<1>1. Lead(D, 0) = {}
  BY DEF Lead
<1>2. ASSUME NEW i \in Nat, i # 0 PROVE Lead(D, i) = Lead(D, i - 1) \cup {D[i]}
  <2>1. 1 .. i = (1 .. (i - 1)) \cup {i}
    BY <1>2
  <2> QED
    BY <2>1 DEF Lead
<1> QED
  BY <1>1, <1>2

(* Read back, an increment is what it was, when the envelope carries the   *)
(* serial it ends at and it starts at another.                             *)
LEMMA ParsedPart ==
    ASSUME NEW env, NEW X, NEW inc, Carries(X, inc), env = inc.newSerial, inc.oldSerial # env
    PROVE  Parsed(env, X) = ParseState("add", inc.oldSerial, env, inc.deleted, inc.added)
PROOF
<1>1. PICK a, b \in RR, D, A \in Seq(RR) :
        /\ X = Part(a, D, b, A)
        /\ isSOA(a) /\ a.data = inc.oldSerial
        /\ isSOA(b) /\ b.data = inc.newSerial
        /\ \A i \in 1 .. Len(D) : ~isSOA(D[i])
        /\ \A i \in 1 .. Len(A) : ~isSOA(A[i])
        /\ {D[i] : i \in 1 .. Len(D)} = inc.deleted
        /\ {A[i] : i \in 1 .. Len(A)} = inc.added
  BY DEF Carries
<1>2. PICK d \in Nat : d = Len(D)
  BY LenProperties
<1>3. PICK k \in Nat : k = Len(A)
  BY LenProperties
<1>4. /\ X \in Seq(RR) /\ Len(X) = d + 2 + k
      /\ X[1] = a /\ X[d + 2] = b
      /\ \A i \in 1 .. d : X[i + 1] = D[i]
      /\ \A i \in 1 .. k : X[d + 2 + i] = A[i]
  <2>1. X = Part(a, D, b, A)
    BY <1>1
  <2>2. PartShape(X, a, D, b, A, d, k)
    BY <1>2, <1>3, <2>1, PartElements
  <2> QED
    BY <2>2 DEF PartShape
<1>5. PICK n \in Nat : n = d + 2 + k
  OBVIOUS
<1>6. PICK t : /\ ParseRow(env, X, n, t)
               /\ Parsed(env, X) = t[n]
  <2>1. X \in Seq(RR) /\ n = Len(X)
    BY <1>4, <1>5
  <2> QED
    BY <2>1, ParseStates, Zenon
<1>7. t[0] = ParseStart /\ \A i \in 1 .. n : t[i] = ParseRR(env, t[i-1], X[i])
  BY <1>6 DEF ParseRow
<1>8. t[1] = ParseRR(env, ParseStart, a)
  <2>1. 1 \in 1 .. n /\ 1 - 1 = 0
    BY <1>5
  <2> QED
    BY <1>4, <1>7, <2>1
<1>9. \A i \in 1 .. d : t[i + 1] = ParseRR(env, t[i], D[i])
  <2> SUFFICES ASSUME NEW i \in 1 .. d PROVE t[i + 1] = ParseRR(env, t[i], D[i])
    OBVIOUS
  <2>1. i + 1 \in 1 .. n /\ (i + 1) - 1 = i
    BY <1>5
  <2>2. t[i + 1] = ParseRR(env, t[(i + 1) - 1], X[i + 1])
    BY <1>7, <2>1
  <2> QED
    BY <1>4, <2>1, <2>2
<1>10. t[d + 2] = ParseRR(env, t[d + 1], b)
  <2>1. d + 2 \in 1 .. n /\ (d + 2) - 1 = d + 1
    BY <1>5
  <2>2. t[d + 2] = ParseRR(env, t[(d + 2) - 1], X[d + 2])
    BY <1>7, <2>1
  <2> QED
    BY <1>4, <2>1, <2>2
<1>11. \A i \in 1 .. k : t[d + 2 + i] = ParseRR(env, t[d + 2 + (i - 1)], A[i])
  <2> SUFFICES ASSUME NEW i \in 1 .. k
               PROVE  t[d + 2 + i] = ParseRR(env, t[d + 2 + (i - 1)], A[i])
    OBVIOUS
  <2>1. d + 2 + i \in 1 .. n /\ (d + 2 + i) - 1 = d + 2 + (i - 1)
    BY <1>5
  <2>2. t[d + 2 + i] = ParseRR(env, t[(d + 2 + i) - 1], X[d + 2 + i])
    BY <1>7, <2>1
  <2> QED
    BY <1>4, <2>1, <2>2
<1> DEFINE o == inc.oldSerial
           Del(i) == ParseState("del", o, 0, Lead(D, i), {})
           Add(i) == ParseState("add", o, env, Lead(D, d), Lead(A, i))
<1>12. t[0 + 1] = Del(0)
  <2>1. t[1] = ParseState("del", o, 0, {}, {})
    BY <1>1, <1>8, ParseOpens
  <2>2. Lead(D, 0) = {} /\ 0 + 1 = 1
    BY FrontFacts
  <2> QED
    BY <2>1, <2>2
<1>13. \A i \in 1 .. d : t[i] = Del(i - 1) => t[i + 1] = Del(i)
  <2> SUFFICES ASSUME NEW i \in 1 .. d, t[i] = Del(i - 1) PROVE t[i + 1] = Del(i)
    OBVIOUS
  <2>1. ~isSOA(D[i])
    BY <1>1, <1>2
  <2>2. ParseRR(env, Del(i - 1), D[i]) = ParseState("del", o, 0, Lead(D, i - 1) \cup {D[i]}, {})
    BY <2>1, ParseDeletes
  <2>3. Lead(D, i) = Lead(D, i - 1) \cup {D[i]}
    <3>1. i \in Nat /\ i # 0
      OBVIOUS
    <3> QED
      BY <3>1, FrontFacts
  <2> QED
    BY <1>9, <2>2, <2>3
<1> HIDE DEF Del
<1>14. \A i \in 0 .. d : t[i + 1] = Del(i)
  <2> DEFINE Bad == {i \in 0 .. d : t[i + 1] # Del(i)}
  <2>1. ASSUME Bad # {} PROVE FALSE
    <3>1. Bad \in SUBSET Nat
      OBVIOUS
    <3>2. PICK i \in Bad : \A j \in Bad : i <= j
      <4> HIDE DEF Bad
      <4> QED
        BY <2>1, <3>1, LeastNatural
    <3>3. i # 0
      BY <1>12, <3>2
    <3>4. i \in 1 .. d /\ i - 1 \in 0 .. d /\ i - 1 \notin Bad /\ (i - 1) + 1 = i
      BY <3>2, <3>3
    <3>5. t[i] = Del(i - 1)
      BY <3>4
    <3> QED
      BY <1>13, <3>2, <3>4, <3>5
  <2> QED
    BY <2>1
<1>15. t[d + 2 + 0] = Add(0)
  <2>1. t[d + 1] = ParseState("del", o, 0, Lead(D, d), {})
    BY <1>14 DEF Del
  <2>2. ParseRR(env, t[d + 1], b) = ParseState("add", o, env, Lead(D, d), {})
    BY <1>1, <2>1, ParseTurns
  <2>3. d + 2 + 0 = d + 2 /\ Lead(A, 0) = {}
    BY FrontFacts
  <2> QED
    BY <1>10, <2>2, <2>3
<1>16. \A i \in 1 .. k : t[d + 2 + (i - 1)] = Add(i - 1) => t[d + 2 + i] = Add(i)
  <2> SUFFICES ASSUME NEW i \in 1 .. k, t[d + 2 + (i - 1)] = Add(i - 1)
               PROVE  t[d + 2 + i] = Add(i)
    OBVIOUS
  <2>1. ~isSOA(A[i])
    BY <1>1, <1>3
  <2>2. ParseRR(env, Add(i - 1), A[i])
          = ParseState("add", o, env, Lead(D, d), Lead(A, i - 1) \cup {A[i]})
    BY <2>1, ParseAdds
  <2>3. Lead(A, i) = Lead(A, i - 1) \cup {A[i]}
    <3>1. i \in Nat /\ i # 0
      OBVIOUS
    <3> QED
      BY <3>1, FrontFacts
  <2> QED
    BY <1>11, <2>2, <2>3
<1> HIDE DEF Add
<1>17. \A i \in 0 .. k : t[d + 2 + i] = Add(i)
  <2> DEFINE Bad == {i \in 0 .. k : t[d + 2 + i] # Add(i)}
  <2>1. ASSUME Bad # {} PROVE FALSE
    <3>1. Bad \in SUBSET Nat
      OBVIOUS
    <3>2. PICK i \in Bad : \A j \in Bad : i <= j
      <4> HIDE DEF Bad
      <4> QED
        BY <2>1, <3>1, LeastNatural
    <3>3. i # 0
      BY <1>15, <3>2
    <3>4. i \in 1 .. k /\ i - 1 \in 0 .. k /\ i - 1 \notin Bad
      BY <3>2, <3>3
    <3>5. t[d + 2 + (i - 1)] = Add(i - 1)
      BY <3>4
    <3> QED
      BY <1>16, <3>2, <3>4, <3>5
  <2> QED
    BY <2>1
<1>18. t[n] = Add(k)
  BY <1>5, <1>17
<1>19. Lead(D, d) = inc.deleted /\ Lead(A, k) = inc.added
  BY <1>1, <1>2, <1>3 DEF Lead
<1> QED
  BY <1>6, <1>18, <1>19 DEF Add

(* What parseIXFR finds in a transfer of one increment, if it accepts it.  *)
LEMMA ParsedIncrement ==
    ASSUME NEW soa \in RR, NEW X \in Seq(RR), NEW inc \in Increment, Carries(X, inc),
           soa.data = inc.newSerial, inc.oldSerial # inc.newSerial,
           NEW e, e = Envelope(soa, X), parseIXFR(e).ok
    PROVE  parseIXFR(e).incs = <<inc>>
PROOF
<1> DEFINE env == Head(e).data
           p == Parsed(env, Inner(e))
           q == flush(p)
<1>1. Head(e) = soa /\ Inner(e) = X
  BY EnvelopeParts
<1>2. parseIXFR(e).incs = q.incs /\ q.ok
  BY DEF parseIXFR, Parsed
<1>3. p = ParseState("add", inc.oldSerial, inc.newSerial, inc.deleted, inc.added)
  <2>1. env = inc.newSerial
    BY <1>1
  <2>2. Parsed(env, X) = ParseState("add", inc.oldSerial, env, inc.deleted, inc.added)
    BY <2>1, ParsedPart
  <2> QED
    BY <1>1, <2>1, <2>2
<1> HIDE DEF env, p
<1>4. inc = [oldSerial |-> inc.oldSerial, newSerial |-> inc.newSerial,
             deleted |-> inc.deleted, added |-> inc.added]
  BY DEF Increment
<1>5. p.mode = "add" /\ p.cur = inc /\ p.incs = << >> /\ p.ok = TRUE
  BY <1>3, <1>4 DEF ParseState
<1>6. q.incs = <<inc>>
  <2>1. CASE less(inc.oldSerial, inc.newSerial)
    <3>1. q = [p EXCEPT !.incs = Append(p.incs, p.cur), !.cur = NoIncrement]
      BY <1>5, <2>1 DEF flush
    <3>2. Append(p.incs, p.cur) = <<inc>>
      BY <1>5
    <3>3. p \in [mode : {"add"}, cur : {inc}, incs : {<< >>}, ok : {TRUE}]
      BY <1>3, <1>4 DEF ParseState
    <3> QED
      BY <3>1, <3>2, <3>3
  <2>2. CASE ~less(inc.oldSerial, inc.newSerial)
    <3>1. q = [p EXCEPT !.ok = FALSE]
      BY <1>5, <2>2 DEF flush
    <3>2. ~q.ok
      BY <1>3, <3>1 DEF ParseState
    <3> QED
      BY <1>2, <3>2
  <2> QED
    BY <2>1, <2>2
<1> QED
  BY <1>2, <1>6

-----------------------------------------------------------------------------
(* Installing a transfer.                                                  *)

Merged(z, inc) == removeRRs(z, inc.deleted) \cup inc.added

MergeNext(z, inc, f, S) == IF S = {} THEN z ELSE Merged(f[S \ {Max(S)}], <<inc>>[Max(S)])

LEMMA AppliedOne ==
    ASSUME NEW z, NEW inc, NEW soa
    PROVE  applyIncrements(z, <<inc>>, soa)
             = (Merged(z, inc) \ SOAs(Merged(z, inc))) \cup {soa}
PROOF
<1> DEFINE s == <<inc>>
           y == FoldLeft(LAMBDA c, i : removeRRs(c, i.deleted) \cup i.added, z, s)
           Makes(f) == f = [S \in SUBSET (1 .. 1) |-> MergeNext(z, inc, f, S)]
           f0 == CHOOSE f : Makes(f)
<1>1. applyIncrements(z, <<inc>>, soa) = (y \ SOAs(y)) \cup {soa}
  BY DEF applyIncrements
<1>2. DOMAIN s = 1 .. 1
  OBVIOUS
<1>3. y = f0[1 .. 1]
  BY <1>2 DEF FoldLeft, MapThenFoldSet, MergeNext, Merged
<1>4. \E f : Makes(f)
  <2> DEFINE g == [S \in SUBSET (1 .. 1) |-> IF S = {} THEN z ELSE Merged(z, inc)]
  <2>1. \A S \in SUBSET (1 .. 1) : g[S] = IF S = {} THEN z ELSE Merged(z, inc)
    OBVIOUS
  <2>2. g = [S \in SUBSET (1 .. 1) |-> g[S]]
    OBVIOUS
  <2> HIDE DEF g
  <2>3. ASSUME NEW S \in SUBSET (1 .. 1) PROVE g[S] = MergeNext(z, inc, g, S)
    <3>1. CASE S = {}
      BY <2>1, <3>1 DEF MergeNext
    <3>2. CASE S # {}
      <4>1. S = {1} /\ 1 \in S
        <5>1. \A i \in 1 .. 1 : i = 1
          OBVIOUS
        <5>2. \A i \in S : i = 1
          BY <5>1
        <5> QED
          BY <3>2, <5>2
      <4>2. Max(S) = 1
        BY <3>2, <4>1, MaxOfInterval
      <4>3. S \ {1} = {} /\ {} \in SUBSET (1 .. 1)
        BY <4>1
      <4>4. g[S \ {Max(S)}] = z /\ <<inc>>[Max(S)] = inc
        BY <2>1, <4>2, <4>3
      <4> QED
        BY <2>1, <3>2, <4>4 DEF MergeNext
    <3> QED
      BY <3>1, <3>2
  <2>4. Makes(g)
    BY <2>2, <2>3
  <2> QED
    BY <2>4
<1>5. Makes(f0)
  BY <1>4
<1> HIDE DEF f0, y
<1>6. \A S \in SUBSET (1 .. 1) : f0[S] = MergeNext(z, inc, f0, S)
  BY <1>5
<1>7. f0[{}] = z
  <2>1. {} \in SUBSET (1 .. 1)
    OBVIOUS
  <2> QED
    BY <1>6, <2>1 DEF MergeNext
<1>8. f0[1 .. 1] = Merged(z, inc)
  <2> DEFINE S == 1 .. 1
  <2>1. S \in SUBSET (1 .. 1) /\ S # {} /\ 1 \in S /\ S \ {1} = {}
    OBVIOUS
  <2> HIDE DEF S
  <2>2. Max(S) = 1
    BY <2>1, MaxOfInterval
  <2>3. <<inc>>[1] = inc
    OBVIOUS
  <2>4. f0[S] = Merged(f0[S \ {Max(S)}], <<inc>>[Max(S)])
    BY <1>6, <2>1 DEF MergeNext
  <2> QED
    BY <1>7, <2>1, <2>2, <2>3, <2>4 DEF S
<1> QED
  BY <1>1, <1>3, <1>8

(* Deletes match without their TTLs; in a zone without twins that is the   *)
(* record itself.                                                          *)
LEMMA MergedExact ==
    ASSUME NEW z, NEW c, NoTwins(z), NEW inc,
           inc.deleted = diffMissing(z, c), inc.added = diffMissing(c, z)
    PROVE  Merged(z, inc) \ SOAs(Merged(z, inc)) = c \ SOAs(c)
PROOF
<1>1. \A d \in inc.deleted : d \in z
  BY DEF diffMissing
<1>2. \A rr \in z : rr \in removeRRs(z, inc.deleted) <=> rr \notin inc.deleted
  BY <1>1 DEF removeRRs, NoTwins, sameRR
<1>3. \A rr : rr \in removeRRs(z, inc.deleted) => rr \in z
  BY DEF removeRRs
<1>4. \A rr : rr \in inc.deleted <=> rr \in z /\ rr \notin c /\ rr.type # "SOA"
  BY DEF diffMissing
<1>5. \A rr : rr \in inc.added <=> rr \in c /\ rr \notin z /\ rr.type # "SOA"
  BY DEF diffMissing
<1>6. \A rr : rr \in Merged(z, inc) <=> rr \in removeRRs(z, inc.deleted) \/ rr \in inc.added
  BY DEF Merged
<1> DEFINE y == Merged(z, inc)
<1> HIDE DEF y
<1>7. \A rr : rr \in y \ SOAs(y) <=> rr \in y /\ rr.type # "SOA"
  BY DEF SOAs
<1>8. \A rr : rr \in c \ SOAs(c) <=> rr \in c /\ rr.type # "SOA"
  BY DEF SOAs
<1>9. \A rr : rr \in y \ SOAs(y) <=> rr \in c \ SOAs(c)
  BY <1>2, <1>3, <1>4, <1>5, <1>6, <1>7, <1>8 DEF y
<1> QED
  BY <1>9 DEF y

LEMMA SeenFacts ==
    ASSUME NEW G \in [Serials -> Generations], NEW n, NEW z \in Seen(G, n)
    PROVE  z \in Generations /\ serialOf(z) \in Serials /\ G[serialOf(z)] = z
PROOF
<1>1. z \in SUBSET RR /\ G[serialOf(z)] = z
  BY DEF Seen
<1>2. serialOf(z) \in Serials
  BY <1>1, SerialOfType
<1> QED
  BY <1>1, <1>2

(* A whole transfer installs the generation it is of.                      *)
LEMMA InstalledWhole ==
    ASSUME NEW c \in Generations, NEW z
    PROVE  /\ Range(axfrStream(c)) = c
           /\ Installed(z, axfrStream(c)) = c
PROOF
<1>1. PICK X \in Seq(RR) :
        /\ axfrStream(c) = Envelope(soaOf(c), X)
        /\ \A i \in 1 .. Len(X) : ~isSOA(X[i])
        /\ {X[i] : i \in 1 .. Len(X)} = c \ SOAs(c)
  BY AxfrFacts
<1>2. soaOf(c) \in RR /\ soaOf(c) \in c /\ SOAs(c) = {soaOf(c)}
  BY GenerationSOA
<1> DEFINE e == axfrStream(c)
           x == soaOf(c)
<1>3. PICK n \in Nat : n = Len(X)
  BY LenProperties
<1>4. /\ e \in Seq(RR) /\ Len(e) = n + 2 /\ e[1] = x /\ e[n + 2] = x
      /\ \A i \in 1 .. n : e[i + 1] = X[i]
  <2>1. /\ e \in Seq(RR) /\ Len(e) = Len(X) + 2 /\ e[1] = x /\ e[Len(e)] = x
        /\ \A i \in 1 .. Len(X) : e[i + 1] = X[i]
    BY <1>1, <1>2, EnvelopeFacts DEF Envelope
  <2> HIDE DEF e, x
  <2> QED
    BY <1>3, <2>1
<1>5. Inner(e) = X
  BY <1>1, <1>2, EnvelopeParts
<1> HIDE DEF e, x
<1>6. Range(e) = {e[i] : i \in 1 .. n + 2}
  <2>1. DOMAIN e = 1 .. n + 2
    BY <1>4, LenProperties
  <2> QED
    BY <2>1 DEF Range
<1>7. \A rr : rr \in Range(e) => rr = x \/ \E i \in 1 .. n : rr = X[i]
  <2> SUFFICES ASSUME NEW i \in 1 .. n + 2 PROVE e[i] = x \/ \E j \in 1 .. n : e[i] = X[j]
    BY <1>6
  <2>1. i = 1 \/ i = n + 2 \/ (i - 1 \in 1 .. n /\ (i - 1) + 1 = i)
    OBVIOUS
  <2> QED
    BY <1>4, <2>1
<1>8. x \in Range(e) /\ \A i \in 1 .. n : X[i] \in Range(e)
  <2>1. 1 \in 1 .. n + 2 /\ \A i \in 1 .. n : i + 1 \in 1 .. n + 2
    OBVIOUS
  <2> QED
    BY <1>4, <1>6, <2>1
<1>9. \A rr : rr \in c \ SOAs(c) <=> \E i \in 1 .. n : rr = X[i]
  BY <1>1, <1>3
<1>10. Range(e) = c
  <2>1. \A rr : rr \in Range(e) <=> rr \in c
    BY <1>2, <1>7, <1>8, <1>9 DEF x
  <2> QED
    BY <2>1
<1>11. classifyXFR(e) # "ixfr"
  <2>1. ASSUME NEW rr \in Range(Inner(e)) PROVE ~isSOA(rr)
    <3>1. DOMAIN X = 1 .. n
      BY <1>3, LenProperties
    <3>2. rr \in {X[i] : i \in 1 .. n}
      BY <1>5, <2>1, <3>1 DEF Range
    <3> QED
      BY <1>1, <1>3, <3>2
  <2> QED
    BY <2>1 DEF classifyXFR
<1> QED
  BY <1>10, <1>11 DEF Installed, e

(* A transfer of one increment that is accepted installs the generation it *)
(* leads to.                                                               *)
LEMMA InstalledIncrement ==
    ASSUME NEW G \in [Serials -> Generations], NEW n,
           NEW z \in Seen(G, n), NEW c \in Seen(G, n), NEW inc \in Told(G, n),
           inc.oldSerial = serialOf(z), inc.newSerial = serialOf(c), serialOf(z) # serialOf(c),
           Installs(ixfrStream(c, <<inc>>))
    PROVE  Installed(z, ixfrStream(c, <<inc>>)) = c
PROOF
<1> DEFINE e == ixfrStream(c, <<inc>>)
           soa == soaOf(c)
<1>1. z \in Generations /\ c \in Generations /\ G[serialOf(z)] = z /\ G[serialOf(c)] = c
  BY SeenFacts
<1>2. /\ inc \in Increment
      /\ inc.deleted = diffMissing(z, c) /\ inc.added = diffMissing(c, z)
  BY <1>1 DEF Told
<1>3. soa \in RR /\ soa.data = inc.newSerial /\ SOAs(c) = {soa} /\ soa \in c
  BY <1>1, GenerationSOA
<1>4. PICK X \in Seq(RR) : e = Envelope(soa, X) /\ Carries(X, inc)
  <2>1. <<inc>> \in Seq(Told(G, n)) /\ Len(<<inc>>) = 1 /\ <<inc>>[1] = inc
    OBVIOUS
  <2> QED
    BY <1>1, <2>1, IxfrFacts
<1> HIDE DEF e, soa
<1>5. Head(e) = soa /\ Inner(e) = X
  BY <1>3, <1>4, EnvelopeParts
<1>6. \E rr \in Range(Inner(e)) : isSOA(rr) /\ rr.data # soa.data
  <2>1. PICK a, b \in RR, D, A \in Seq(RR) :
          X = Part(a, D, b, A) /\ isSOA(a) /\ a.data = inc.oldSerial
    BY <1>4 DEF Carries
  <2>2. PartShape(X, a, D, b, A, Len(D), Len(A))
    BY <2>1, PartElements
  <2>3. X[1] = a /\ Len(X) = Len(D) + 2 + Len(A) /\ Len(D) \in Nat /\ Len(A) \in Nat
    BY <2>2, LenProperties DEF PartShape
  <2>4. 1 \in 1 .. Len(X)
    BY <2>3
  <2>5. a \in Range(X)
    BY <2>3, <2>4, LenProperties DEF Range
  <2> QED
    BY <1>3, <1>5, <2>1, <2>5
<1>7. classifyXFR(e) # "axfr"
  BY <1>5, <1>6 DEF classifyXFR
<1>8. classifyXFR(e) = "ixfr" /\ parseIXFR(e).ok
  BY <1>7 DEF Installs, e
<1>9. parseIXFR(e).incs = <<inc>>
  BY <1>2, <1>3, <1>4, <1>8, ParsedIncrement
<1>10. Installed(z, e) = applyIncrements(z, <<inc>>, soa)
  BY <1>5, <1>8, <1>9 DEF Installed
<1>11. Installed(z, e) = (c \ SOAs(c)) \cup {soa}
  <2>1. NoTwins(z)
    BY <1>1 DEF Generations
  <2>2. Merged(z, inc) \ SOAs(Merged(z, inc)) = c \ SOAs(c)
    BY <1>2, <2>1, MergedExact
  <2> QED
    BY <1>10, <2>2, AppliedOne
<1> QED
  BY <1>3, <1>11 DEF e

-----------------------------------------------------------------------------
(* What the secondary holds.  What is on its way is a generation as a      *)
(* whole, or an increment from the serial asked from, or a stream of       *)
(* several, of which nothing is said: the history then says so.  None of   *)
(* this depends on what the zone holds meanwhile, so transfers may overlap *)
(* as they like; that an increment meets its serial is in the history.     *)

Delivers(G, n, x) ==
    \/ x.deltas = 0 /\ \E c \in Seen(G, n) : x.stream \in {axfrStream(c), <<soaOf(c)>>}
    \/ x.deltas = 1 /\ \E c \in Seen(G, n), inc \in Told(G, n) :
                         /\ inc.oldSerial = x.serial /\ inc.newSerial = serialOf(c)
                         /\ x.serial # serialOf(c)
                         /\ x.stream = ixfrStream(c, <<inc>>)
    \/ x.deltas \notin {0, 1}

Carrying(G, n, x) ==
    /\ x.pc = "ixfrGot" => Delivers(G, n, x)
    /\ x.pc = "axfrGot" => \E c \in Seen(G, n) : x.stream = axfrStream(c)

Following(G) ==
    /\ clean => zone \in Seen(G, Reached)
    /\ \A w \in Workers : Carrying(G, Reached, xfer[w])

ExactInv ==
    /\ BehindInv
    /\ \E G \in [Serials -> Generations] : Contents(G) /\ Following(G)

(* A primary's step keeps the contents of the serials that transfers can   *)
(* have seen.                                                              *)
LEMMA ContentsKept ==
    ASSUME RequestsIn(ServerSerials), RequestsIn(BuildableUpdates),
           ReplicaInv, [Next]_vars, NEW G \in [Serials -> Generations], Contents(G)
    PROVE  \E H \in [Serials -> Generations] :
             Contents(H)' /\ \A t \in Serials : Offset(t) <= Reached => H[t] = G[t]
PROOF
<1>1. SerialInv /\ JournalInv /\ MaxCommits < Half /\ Level
  BY DEF ReplicaInv
<1>2. SerialInv' /\ JournalInv' /\ Level'
  BY <1>1, SerialStep, JournalStep, LevelStep
<1>3. TypeInv'
  BY <1>2 DEF SerialInv, ApexInv, UniqueInv
<1>4. CASE Persist
  BY <1>1, <1>2, <1>4, ContentsWritten
<1>5. CASE ~Persist
  <2>1. Contents(G)'
    BY <1>1, <1>2, <1>3, <1>5, ContentsStep
  <2> QED
    BY <2>1
<1> QED
  BY <1>4, <1>5

LEMMA CarryingOn ==
    ASSUME NEW G \in [Serials -> Generations], NEW H \in [Serials -> Generations],
           NEW n \in Int, NEW m \in Int, n <= m,
           \A s \in Serials : Offset(s) <= n => H[s] = G[s],
           NEW x, Carrying(G, n, x)
    PROVE  Carrying(H, m, x)
PROOF
<1>1. Seen(G, n) \subseteq Seen(H, m) /\ Told(G, n) \subseteq Told(H, m)
  BY SeenOn
<1>2. ASSUME Delivers(G, n, x) PROVE Delivers(H, m, x)
  BY <1>1, <1>2 DEF Delivers
<1> QED
  BY <1>1, <1>2 DEF Carrying

LEMMA ExactPrimary ==
    ASSUME RequestsIn(ServerSerials), RequestsIn(BuildableUpdates),
           ExactInv, [Next]_vars, UNCHANGED secondary
    PROVE  ExactInv'
PROOF
<1> USE DEF secondary
<1>1. BehindInv /\ ReplicaInv
  BY DEF ExactInv, BehindInv
<1>2. BehindInv' /\ ReplicaInv'
  BY <1>1, BehindPrimary DEF BehindInv
<1>3. Reached \in Int /\ Reached' \in Int /\ Reached <= Reached'
  BY <1>1, <1>2, ReachedGrows
<1>4. PICK G \in [Serials -> Generations] : Contents(G) /\ Following(G)
  BY DEF ExactInv
<1>5. PICK H \in [Serials -> Generations] :
        Contents(H)' /\ \A t \in Serials : Offset(t) <= Reached => H[t] = G[t]
  BY <1>1, <1>4, ContentsKept
<1>6. PICK m \in Int : m = Reached'
  BY <1>3
<1>7. Seen(G, Reached) \subseteq Seen(H, m)
  BY <1>3, <1>5, <1>6, SeenOn
<1>8. clean => zone \in Seen(H, m)
  BY <1>4, <1>7 DEF Following
<1>9. ASSUME NEW w \in Workers PROVE Carrying(H, m, xfer[w])
  <2>1. Carrying(G, Reached, xfer[w])
    BY <1>4 DEF Following
  <2> QED
    BY <1>3, <1>5, <1>6, <2>1, CarryingOn
<1>10. zone' = zone /\ xfer' = xfer /\ clean' = clean
  OBVIOUS
<1>11. Following(H)'
  BY <1>6, <1>8, <1>9, <1>10 DEF Following
<1> QED
  BY <1>2, <1>5, <1>11 DEF ExactInv

(* What a transfer's own step does.                                        *)
LEMMA ExactWorker ==
    ASSUME UNCHANGED vars, BehindInv, BehindInv', NEW G \in [Serials -> Generations],
           Contents(G), Following(G), NEW w \in Workers, NEW x \in Worker,
           xfer' = [xfer EXCEPT ![w] = x],
           clean' => zone' \in Seen(G, Reached), Carrying(G, Reached, x)
    PROVE  ExactInv'
PROOF
<1>1. Reached' = Reached
  BY DEF vars, Reached
<1>2. xfer \in [Workers -> Worker]
  BY DEF BehindInv, XferType, Worker
<1>3. \A v \in Workers : xfer'[v] = IF v = w THEN x ELSE xfer[v]
  BY <1>2
<1>4. Contents(G)'
  BY <1>1 DEF Contents, vars, journal
<1>5. \A v \in Workers : Carrying(G, Reached, xfer'[v])
  BY <1>3 DEF Following
<1>6. Following(G)'
  BY <1>1, <1>5 DEF Following
<1> QED
  BY <1>4, <1>6 DEF ExactInv

LEMMA ExactFetched ==
    ASSUME ReplicaInv, NEW G \in [Serials -> Generations], Contents(G), NEW x,
           x.stream = AnswerStream(incs, current, x.serial),
           x.deltas = Len(answer(incs, current, x.serial).incs)
    PROVE  Delivers(G, Reached, x)
PROOF
<1>1. current \in Seen(G, Reached) /\ incs \in Seq(Told(G, Reached))
  BY DEF Contents
<1>2. PICK from : from = x.serial
  OBVIOUS
<1> DEFINE a == answer(incs, current, from)
           s == AnswerStream(incs, current, from)
<1>3. /\ a.kind \in {"axfr", "uptodate", "ixfr"}
      /\ a.kind # "ixfr" => a.incs = << >>
      /\ a.kind = "ixfr" =>
           /\ a.incs \in Seq(Told(G, Reached)) /\ Len(a.incs) \in Nat \ {0}
           /\ from # serialOf(current)
           /\ Len(a.incs) = 1 => /\ a.incs[1] \in Told(G, Reached)
                                 /\ a.incs[1].oldSerial = from
                                 /\ a.incs[1].newSerial = serialOf(current)
  BY <1>1, AnswerFacts
<1>4. s = CASE a.kind = "axfr"     -> axfrStream(current)
            [] a.kind = "uptodate" -> <<soaOf(current)>>
            [] a.kind = "ixfr"     -> ixfrStream(current, a.incs)
  BY DEF AnswerStream
<1>5. x.stream = s /\ x.deltas = Len(a.incs)
  BY <1>2
<1> HIDE DEF a, s
<1>6. CASE a.kind # "ixfr"
  <2>1. s \in {axfrStream(current), <<soaOf(current)>>}
    BY <1>3, <1>4, <1>6
  <2>2. x.deltas = 0
    BY <1>3, <1>5, <1>6, EmptySeq
  <2> QED
    BY <1>1, <1>5, <2>1, <2>2 DEF Delivers
<1>7. CASE a.kind = "ixfr" /\ Len(a.incs) = 1
  <2>1. PICK inc \in Told(G, Reached) : inc = a.incs[1]
    BY <1>3, <1>7
  <2>2. a.incs = <<inc>>
    BY <1>3, <1>7, <2>1
  <2>3. s = ixfrStream(current, <<inc>>)
    BY <1>4, <1>7, <2>2
  <2> QED
    BY <1>1, <1>2, <1>3, <1>5, <1>7, <2>1, <2>3 DEF Delivers
<1>8. CASE a.kind = "ixfr" /\ Len(a.incs) # 1
  BY <1>3, <1>5, <1>8 DEF Delivers
<1> QED
  BY <1>6, <1>7, <1>8

(* What arrives installs a generation that was seen, if the history stays  *)
(* clean.                                                                  *)
LEMMA DeliveredSeen ==
    ASSUME NEW G \in [Serials -> Generations], NEW n, NEW x,
           Delivers(G, n, x), Installs(x.stream), StaysClean(x),
           clean => zone \in Seen(G, n)
    PROVE  Installed(zone, x.stream) \in Seen(G, n)
PROOF
<1>1. CASE x.deltas = 0
  <2>1. PICK c \in Seen(G, n) : x.stream \in {axfrStream(c), <<soaOf(c)>>}
    BY <1>1 DEF Delivers
  <2>2. c \in Generations
    BY <2>1, SeenFacts
  <2>3. CASE x.stream = axfrStream(c)
    BY <2>2, <2>3, InstalledWhole
  <2>4. CASE x.stream = <<soaOf(c)>>
    <3>1. isSOA(soaOf(c))
      BY <2>2, GenerationSOA
    <3>2. Head(x.stream) = soaOf(c) /\ x.stream # << >> /\ Len(x.stream) = 1
      BY <2>4
    <3>3. classifyXFR(x.stream) = "uptodate"
      BY <3>1, <3>2 DEF classifyXFR
    <3> QED
      BY <3>3 DEF Installs
  <2> QED
    BY <2>1, <2>3, <2>4
<1>2. CASE x.deltas = 1
  <2>1. zone \in Seen(G, n) /\ x.serial = serialOf(zone)
    BY <1>2 DEF StaysClean
  <2>2. PICK c \in Seen(G, n), inc \in Told(G, n) :
           /\ inc.oldSerial = x.serial /\ inc.newSerial = serialOf(c)
           /\ x.serial # serialOf(c)
           /\ x.stream = ixfrStream(c, <<inc>>)
    BY <1>2 DEF Delivers
  <2>3. Installed(zone, x.stream) = c
    BY <2>1, <2>2, InstalledIncrement
  <2> QED
    BY <2>3
<1> QED
  BY <1>1, <1>2 DEF StaysClean

LEMMA ExactStep ==
    ASSUME RequestsIn(ServerSerials), RequestsIn(BuildableUpdates)
    PROVE  ExactInv /\ [TransferNext]_allVars => ExactInv'
PROOF
<1> SUFFICES ASSUME ExactInv, [TransferNext]_allVars PROVE ExactInv'
  OBVIOUS
<1>0. BehindInv /\ ReplicaInv /\ XferType /\ serialOf(zone) \in Serials
  BY DEF ExactInv, BehindInv
<1>1. BehindInv'
  BY <1>0, BehindStep
<1>2. PICK G \in [Serials -> Generations] : Contents(G) /\ Following(G)
  BY DEF ExactInv
<1>3. clean => zone \in Seen(G, Reached)
  BY <1>2 DEF Following
<1>4. CASE PrimaryNext \/ UNCHANGED allVars
  <2>1. [Next]_vars /\ UNCHANGED secondary
    BY <1>4 DEF PrimaryNext, Handler, Next, allVars
  <2> QED
    BY <2>1, ExactPrimary
<1>5. ASSUME NEW w \in Workers, NEW x \in Worker, xfer' = [xfer EXCEPT ![w] = x],
             UNCHANGED vars, clean' => zone' \in Seen(G, Reached), Carrying(G, Reached, x)
      PROVE  ExactInv'
  BY <1>0, <1>1, <1>2, <1>5, ExactWorker
<1>6. ASSUME NEW w \in Workers, StartTransfer(w), UNCHANGED <<vars, zone, clean>> PROVE ExactInv'
  <2>1. PICK x \in Worker : xfer' = [xfer EXCEPT ![w] = x] /\ x.pc \in {"ixfr", "axfr"}
    BY <1>0, <1>6, WorkerSteps
  <2>2. Carrying(G, Reached, x)
    BY <2>1 DEF Carrying
  <2>3. UNCHANGED vars /\ zone' = zone /\ clean' = clean
    BY <1>6
  <2> QED
    BY <1>3, <1>5, <2>1, <2>2, <2>3
<1>7. ASSUME Refresh \/ \E w \in Workers : ForceTransfer(w) PROVE ExactInv'
  <2>1. \E w \in Workers : StartTransfer(w) /\ UNCHANGED <<vars, zone, clean>>
    BY <1>7 DEF Refresh, ForceTransfer
  <2> QED
    BY <1>6, <2>1
<1>8. ASSUME NEW w \in Workers, Fetch(w) PROVE ExactInv'
  <2>1. /\ AnswerStream(incs, current, xfer[w].serial) \in Seq(RR)
        /\ Len(answer(incs, current, xfer[w].serial).incs) \in Nat
        /\ axfrStream(current) \in Seq(RR)
    BY <1>0, Fetched
  <2>2. PICK x \in Worker :
           /\ xfer' = [xfer EXCEPT ![w] = x]
           /\ \/ /\ x.pc = "ixfrGot"
                 /\ x.stream = AnswerStream(incs, current, x.serial)
                 /\ x.deltas = Len(answer(incs, current, x.serial).incs)
              \/ x.pc = "axfrGot" /\ x.stream = axfrStream(current)
    BY <1>0, <1>8, <2>1, WorkerSteps
  <2>3. Carrying(G, Reached, x)
    <3>1. CASE /\ x.pc = "ixfrGot"
               /\ x.stream = AnswerStream(incs, current, x.serial)
               /\ x.deltas = Len(answer(incs, current, x.serial).incs)
      <4>1. Delivers(G, Reached, x)
        BY <1>0, <1>2, <3>1, ExactFetched
      <4> QED
        BY <3>1, <4>1 DEF Carrying
    <3>2. CASE x.pc = "axfrGot" /\ x.stream = axfrStream(current)
      BY <1>2, <3>2 DEF Carrying, Contents
    <3> QED
      BY <2>2, <3>1, <3>2
  <2>4. UNCHANGED vars /\ zone' = zone /\ clean' = clean
    BY <1>8 DEF Fetch
  <2> QED
    BY <1>3, <1>5, <2>2, <2>3, <2>4
<1>9. ASSUME NEW w \in Workers, FetchFails(w) PROVE ExactInv'
  <2>1. PICK x \in Worker : xfer' = [xfer EXCEPT ![w] = x] /\ x.pc \in {"axfr", "idle"}
    BY <1>0, <1>9, WorkerSteps
  <2>2. Carrying(G, Reached, x)
    BY <2>1 DEF Carrying
  <2>3. UNCHANGED vars /\ zone' = zone /\ clean' = clean
    BY <1>9 DEF FetchFails
  <2> QED
    BY <1>3, <1>5, <2>1, <2>2, <2>3
<1>10. ASSUME NEW w \in Workers, Install(w) PROVE ExactInv'
  <2>1. PICK x \in Worker : xfer' = [xfer EXCEPT ![w] = x] /\ x.pc \in {"axfr", "idle"}
    BY <1>0, <1>10, WorkerSteps
  <2>2. Carrying(G, Reached, x)
    BY <2>1 DEF Carrying
  <2>3. UNCHANGED vars
    BY <1>10 DEF Install
  <2>4. PICK y : y = xfer[w]
    OBVIOUS
  <2>5. Carrying(G, Reached, y)
    BY <1>2, <2>4 DEF Following
  <2>6. clean' => zone' \in Seen(G, Reached)
    <3>1. CASE /\ y.pc = "ixfrGot" /\ Installs(y.stream)
               /\ zone' = Installed(zone, y.stream) /\ clean' = StaysClean(y)
      BY <1>3, <2>5, <3>1, DeliveredSeen DEF Carrying
    <3>2. CASE y.pc = "axfrGot" /\ zone' = Range(y.stream)
      <4>1. PICK c \in Seen(G, Reached) : y.stream = axfrStream(c)
        BY <2>5, <3>2 DEF Carrying
      <4>2. Range(y.stream) = c
        BY <4>1, SeenFacts, InstalledWhole
      <4> QED
        BY <3>2, <4>2
    <3>3. CASE zone' = zone /\ clean' = clean
      BY <1>3, <3>3
    <3> QED
      BY <1>10, <2>4, <3>1, <3>2, <3>3 DEF Install
  <2> QED
    BY <1>5, <2>1, <2>2, <2>3, <2>6
<1> QED
  BY <1>4, <1>7, <1>8, <1>9, <1>10 DEF TransferNext

(* For every number of increments the primary keeps and of transfers that  *)
(* overlap, through updates, crashes, failed journal writes, reconciled    *)
(* journals, lost answers and answers that come in after newer ones: a     *)
(* zone made of whole transfers and of single increments on the serial     *)
(* they were asked for is, under the serial its primary serves, what its   *)
(* primary serves (parseIXFR, applyIncrements, installAXFR).  Neither half *)
(* of the history can be left out: transfer_deltas has the counterexample  *)
(* for several increments in one answer.                                   *)
THEOREM TransfersStayExact ==
    ASSUME KeepsApex(Seed), NoTwins(Seed), NoZeroTTL(Seed), Builds(Seed), MaxCommits < Half,
           RequestsIn(ServerSerials), RequestsIn(BuildableUpdates)
    PROVE  TransferSpec => []TransfersExact
PROOF
<1>1. TransferInit => ExactInv
  <2> SUFFICES ASSUME TransferInit PROVE ExactInv
    OBVIOUS
  <2>1. BehindInv
    BY BehindInit
  <2>2. PICK G \in [Serials -> Generations] : Contents(G)
    BY <2>1 DEF BehindInv, ReplicaInv
  <2>3. clean = FALSE /\ \A w \in Workers : xfer[w] = Resting
    BY DEF TransferInit
  <2>4. Following(G)
    BY <2>3 DEF Following, Carrying, Resting
  <2> QED
    BY <2>1, <2>2, <2>4 DEF ExactInv
<1>2. ExactInv /\ [TransferNext]_allVars => ExactInv'
  BY ExactStep
<1>3. ExactInv => TransfersExact
  <2> SUFFICES ASSUME ExactInv, clean, serialOf(zone) = serialOf(current)
               PROVE  zone = current
    BY DEF TransfersExact
  <2>1. PICK G \in [Serials -> Generations] : Contents(G) /\ Following(G)
    BY DEF ExactInv
  <2>2. zone \in Seen(G, Reached) /\ current \in Seen(G, Reached)
    BY <2>1 DEF Contents, Following
  <2> QED
    BY <2>2, SeenFacts
<1> QED
  BY <1>1, <1>2, <1>3, PTL DEF TransferSpec

=============================================================================
