---------------------------- MODULE FilterEngine ----------------------------
(***************************************************************************)
(* What a list of domains blocks (admin/filterparse.go, filtereng.go).     *)
(* A name is the sequence of its labels, the host's first.  A line of a    *)
(* list is what is left of its notation (hosts file, adblock, plain):      *)
(* whether the parser takes it at all (no comment, no exception, no bare   *)
(* address, no reserved name), the domain it names and whether that starts *)
(* with "*.".                                                              *)
(***************************************************************************)
EXTENDS Naturals, Sequences, SequencesExt

Lines == [taken : BOOLEAN, name : Seq(STRING), kids : BOOLEAN]

(* parseFilterPattern: a line that is taken names two labels or more.      *)
Accepted(line) == line.taken /\ Len(line.name) >= 2

(* A slip: the last line for a name decides, also over one that takes in   *)
(* the name itself.                                                        *)
parseFilterListLast(lines) ==
    {lines[i] : i \in {j \in DOMAIN lines :
        /\ Accepted(lines[j])
        /\ \A k \in DOMAIN lines :
             Accepted(lines[k]) /\ lines[k].name = lines[j].name => k <= j}}

(* parseFilterList: one pattern per name, and one that takes in the name   *)
(* itself is not replaced.                                                 *)
parseFilterList(lines) ==
    LET accepted == {l \in ToSet(lines) : Accepted(l)}
        self     == {l \in accepted : ~l.kids}
    IN  self \cup {l \in accepted : \A m \in self : m.name # l.name}

(* rulesFromParsed.                                                        *)
rulesFromParsed(action, parsed) ==
    {[action |-> action, name |-> l.name, kids |-> l.kids] : l \in parsed}

(* replace: the four maps of the engine.                                   *)
Patterns(rules, action, kids) ==
    {r.name : r \in {s \in rules : s.action = action /\ s.kids = kids}}

(* What parentName reaches from a name, the root left out.                 *)
Parents(n) == {SubSeq(n, i, Len(n)) : i \in 2 .. Len(n)}

filterHit(n, self, kids) ==
    n \in self \/ \E rest \in Parents(n) : rest \in self \/ rest \in kids

(* blocked.                                                                *)
blocked(rules, n) ==
    /\ \E r \in rules : r.action = "block"
    /\ ~filterHit(n, Patterns(rules, "allow", FALSE), Patterns(rules, "allow", TRUE))
    /\ filterHit(n, Patterns(rules, "block", FALSE), Patterns(rules, "block", TRUE))

(* The reference: "`example.com` matches itself and subdomains;            *)
(* `*.example.com` matches subdomains only" (admin/README.md).             *)
Matches(line, n) ==
    Accepted(line) /\ IsSuffix(line.name, n) /\ (line.kids => line.name # n)
=============================================================================
