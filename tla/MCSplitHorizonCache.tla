------------------------ MODULE MCSplitHorizonCache ------------------------
EXTENDS CacheComposed, TLC

CONSTANTS lan, wan, w1, w2

(* One client on the LAN, one outside, until the ACL is given the other's  *)
(* network.                                                                *)
LanView == [c \in Clients |-> IF c = lan THEN "internal" ELSE "public"]
WanView == [c \in Clients |-> IF c = wan THEN "internal" ELSE "public"]
NewViews == {WanView}

Setting(pre, upto, mode, pos, re, except, answers) ==
    [prefetch |-> pre, staleUpTo |-> upto, mode |-> mode,
     preferPositive |-> pos, recheck |-> re, except |-> except, answers |-> answers]

(* The kinds of message that are kept.                                     *)
Kept == {Kind(m) : m \in {x \in Messages : ~x.referral /\ Cacheable(x)}}

(* Stale items served at once, with the policy that prefers answers; then  *)
(* popular items refreshed, and stale ones served after a look at the      *)
(* source, where denials are not to be cached.  A failure is to the first  *)
(* what a denial is, and an empty answer to the second what an answer is.  *)
Modes == {Setting(FALSE, 2, "immediate", TRUE, 1, {}, Kept \ {"servfail"}),
          Setting(TRUE, 2, "timeout", FALSE, 1, {"denial"}, Kept \ {"empty"})}

(* Nothing refreshed, nothing stale.                                       *)
PlainMode == {Setting(FALSE, 0, "immediate", FALSE, 0, {}, {"answer"})}

WorkersAlike == Permutations(Workers)
=============================================================================
