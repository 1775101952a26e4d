---------------------------- MODULE FirewallRules ----------------------------
(***************************************************************************)
(* The algebra of firewall rulesets (firewall.go): Equivalent, the diff    *)
(* ServerInjectedRules and its inverse Without, over one direction.        *)
(*                                                                         *)
(* A rule is its IP version and everything else; the fields other than the *)
(* version are only ever compared for equality, so they are one value, the *)
(* body.  Version "any" is the empty ip_version, which applies to both.    *)
(***************************************************************************)
EXTENDS Integers, Sequences, FiniteSets, SequencesExt

CONSTANT Bodies

Versions == {"ipv4", "ipv6"}

Rules == [body : Bodies, version : Versions \cup {"any"}]

AppliesToExact(r, v) == r.version = v

AppliesTo(r, v) == r.version \in {"any", v}

(* The subsequence of s at the indices in I.                               *)
At(s, I) == FlattenSeq([i \in DOMAIN s |-> IF i \in I THEN <<s[i]>> ELSE <<>>])

-----------------------------------------------------------------------------
(* projectRules: what applies to v, in order, with the version cleared.    *)
ProjectRules(rules, v) ==
  FlattenSeq([i \in DOMAIN rules |-> IF AppliesTo(rules[i], v) THEN <<rules[i].body>> ELSE <<>>])

(* rulesEquivalent, which Equivalent applies to each direction.            *)
RulesEquivalentExact(a, b) == a = b

RulesEquivalent(a, b) == \A v \in Versions : ProjectRules(a, v) = ProjectRules(b, v)

-----------------------------------------------------------------------------
(* How many rules of posted a rule with this body may consume in v.        *)
AvailableOnce(posted, body, v) ==
  IF \E i \in DOMAIN posted : AppliesTo(posted[i], v) /\ posted[i].body = body THEN 1 ELSE 0

Available(posted, body, v) ==
  Cardinality({i \in DOMAIN posted : AppliesTo(posted[i], v) /\ posted[i].body = body})

(* The rules of returned up to the i-th that compete for the same rules.   *)
Competing(returned, i, v) ==
  {j \in 1..i : AppliesTo(returned[j], v) /\ returned[j].body = returned[i].body}

Accounted(posted, returned, i, v) ==
  Cardinality(Competing(returned, i, v)) <= Available(posted, returned[i].body, v)

AppliedVersions(r) == {v \in Versions : AppliesTo(r, v)}

(* injectedRules, which ServerInjectedRules applies to each direction.     *)
InjectedRules(posted, returned) ==
  At(returned, {i \in DOMAIN returned :
                  \A v \in AppliedVersions(returned[i]) :
                     ~Accounted(posted, returned, i, v)})

-----------------------------------------------------------------------------
(* removeRules, which Without applies to each direction: exact matches,    *)
(* each entry of remove dropping at most one rule, the first ones first.   *)
Count(s, x) == Cardinality({i \in DOMAIN s : s[i] = x})

RemoveRulesEveryCopy(rules, remove) ==
  SelectSeq(rules, LAMBDA r : Count(remove, r) = 0)

RemoveRules(rules, remove) ==
  At(rules, {i \in DOMAIN rules :
               Cardinality({j \in 1..i : rules[j] = rules[i]}) > Count(remove, rules[i])})

-----------------------------------------------------------------------------
(***************************************************************************)
(* What the API does with a ruleset it accepts: it puts its internal rules *)
(* in front and stores the posted ones as they are, or with every rule of  *)
(* version "any" split into its two halves ("rules submitted without an IP *)
(* version have been observed to come back expanded").                     *)
(***************************************************************************)
Halves(r) == IF r.version = "any"
             THEN <<[r EXCEPT !.version = "ipv4"], [r EXCEPT !.version = "ipv6"]>>
             ELSE <<r>>

Expand(rules) == FlattenSeq([i \in DOMAIN rules |-> Halves(rules[i])])

Normalize(rules, expands) == IF expands THEN Expand(rules) ELSE rules
=============================================================================
