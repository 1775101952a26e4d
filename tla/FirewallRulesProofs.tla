------------------------ MODULE FirewallRulesProofs ------------------------
EXTENDS FirewallRules, Induction, FiniteSetTheorems

(***************************************************************************)
(* The operators on rulesets distribute over a ruleset that grows at its   *)
(* end, so that what they give is shown by induction over rulesets.        *)
(***************************************************************************)
Kept(r, v) == IF AppliesTo(r, v) THEN <<r.body>> ELSE <<>>

LEMMA KeptTyped == \A r \in Rules : \A v : Kept(r, v) \in Seq(Bodies)
BY DEF Kept, Rules

LEMMA ProjectAppend ==
  ASSUME NEW s \in Seq(Rules), NEW r \in Rules, NEW v
  PROVE  ProjectRules(Append(s, r), v) = ProjectRules(s, v) \o Kept(r, v)
<1>. DEFINE parts == [i \in DOMAIN s |-> Kept(s[i], v)]
<1>1. \A x \in Rules : Kept(x, v) \in Seq(Bodies)
  BY KeptTyped
<1>2. parts \in Seq(Seq(Bodies))
  BY <1>1
<1>3. [i \in DOMAIN Append(s, r) |-> Kept(Append(s, r)[i], v)] = Append(parts, Kept(r, v))
  <2>. HIDE DEF Kept
  <2>. QED  OBVIOUS
<1>. HIDE DEF parts
<1>4. FlattenSeq(Append(parts, Kept(r, v))) = FlattenSeq(parts) \o Kept(r, v)
  BY <1>1, <1>2, FlattenAppend
<1>. QED  BY <1>3, <1>4 DEF ProjectRules, Kept, parts

LEMMA ProjectEmpty == \A v : ProjectRules(<<>>, v) = <<>>
BY FlattenEmpty DEF ProjectRules

LEMMA ProjectTyped ==
  ASSUME NEW v
  PROVE  \A s \in Seq(Rules) : ProjectRules(s, v) \in Seq(Bodies)
<1>. DEFINE S == {s \in Seq(Rules) : ProjectRules(s, v) \in Seq(Bodies)}
<1>1. <<>> \in S
  BY ProjectEmpty, EmptySeq
<1>2. ASSUME NEW s \in Seq(Rules), NEW r \in Rules, s \in S PROVE Append(s, r) \in S
  <2>1. Kept(r, v) \in Seq(Bodies)
    BY KeptTyped
  <2>2. ProjectRules(Append(s, r), v) \in Seq(Bodies)
    BY <1>2, <2>1, ProjectAppend, ConcatProperties
  <2>. QED  BY <2>2
<1>. QED
  <2>. HIDE DEF S
  <2>1. Seq(Rules) \subseteq S
    BY <1>1, <1>2, SequenceInduction
  <2>. QED  BY <2>1 DEF S

LEMMA ProjectConcat ==
  ASSUME NEW s \in Seq(Rules), NEW v
  PROVE  \A t \in Seq(Rules) : ProjectRules(s \o t, v) = ProjectRules(s, v) \o ProjectRules(t, v)
<1>. DEFINE S == {t \in Seq(Rules) :
                    ProjectRules(s \o t, v) = ProjectRules(s, v) \o ProjectRules(t, v)}
<1>1. <<>> \in S
  <2>1. s \o <<>> = s /\ ProjectRules(s, v) \o <<>> = ProjectRules(s, v)
    BY ProjectTyped, ConcatEmptySeq
  <2>2. ProjectRules(s \o <<>>, v) = ProjectRules(s, v) \o ProjectRules(<<>>, v)
    BY ONLY <2>1, ProjectEmpty
  <2>. QED  BY <2>2, EmptySeq
<1>2. ASSUME NEW t \in Seq(Rules), NEW r \in Rules, t \in S PROVE Append(t, r) \in S
  <2>1. s \o Append(t, r) = Append(s \o t, r) /\ s \o t \in Seq(Rules)
    OBVIOUS
  <2>2. /\ ProjectRules(s \o Append(t, r), v) = ProjectRules(s \o t, v) \o Kept(r, v)
        /\ ProjectRules(Append(t, r), v) = ProjectRules(t, v) \o Kept(r, v)
    BY <2>1, ProjectAppend
  <2>3. /\ Kept(r, v) \in Seq(Bodies)
        /\ ProjectRules(s, v) \in Seq(Bodies) /\ ProjectRules(t, v) \in Seq(Bodies)
    BY ProjectTyped, KeptTyped
  <2>4. (ProjectRules(s, v) \o ProjectRules(t, v)) \o Kept(r, v)
          = ProjectRules(s, v) \o (ProjectRules(t, v) \o Kept(r, v))
    BY ONLY <2>3, ConcatAssociative
  <2>5. ProjectRules(s \o t, v) = ProjectRules(s, v) \o ProjectRules(t, v)
    BY <1>2
  <2>6. ProjectRules(s \o Append(t, r), v) = ProjectRules(s, v) \o ProjectRules(Append(t, r), v)
    BY ONLY <2>2, <2>4, <2>5
  <2>. QED  BY <2>6
<1>. QED
  <2>. HIDE DEF S
  <2>1. Seq(Rules) \subseteq S
    BY <1>1, <1>2, SequenceInduction
  <2>. QED  BY <2>1 DEF S

-----------------------------------------------------------------------------
LEMMA HalvesTyped == \A r \in Rules : Halves(r) \in Seq(Rules)
<1>. SUFFICES ASSUME NEW r \in Rules PROVE Halves(r) \in Seq(Rules)
  OBVIOUS
<1>1. [r EXCEPT !.version = "ipv4"] \in Rules /\ [r EXCEPT !.version = "ipv6"] \in Rules
  BY DEF Rules, Versions
<1>2. \A x, y \in Rules : <<x, y>> \in Seq(Rules) /\ <<x>> \in Seq(Rules)
  OBVIOUS
<1>3. Halves(r) \in {<<[r EXCEPT !.version = "ipv4"], [r EXCEPT !.version = "ipv6"]>>, <<r>>}
  BY DEF Halves
<1>. QED  BY ONLY <1>1, <1>2, <1>3, r \in Rules

LEMMA ExpandAppend ==
  ASSUME NEW s \in Seq(Rules), NEW r \in Rules
  PROVE  Expand(Append(s, r)) = Expand(s) \o Halves(r)
<1>. DEFINE parts == [i \in DOMAIN s |-> Halves(s[i])]
<1>0. \A x \in Rules : Halves(x) \in Seq(Rules)
  BY HalvesTyped
<1>1. parts \in Seq(Seq(Rules))
  <2>1. \A i \in 1..Len(s) : s[i] \in Rules
    BY ElementOfSeq
  <2>2. DOMAIN s = 1..Len(s) /\ Len(s) \in Nat
    BY LenProperties
  <2>3. parts \in [1..Len(s) -> Seq(Rules)]
    BY ONLY <1>0, <2>1, <2>2
  <2>. HIDE DEF parts
  <2>. QED  BY <2>2, <2>3
<1>2. [i \in DOMAIN Append(s, r) |-> Halves(Append(s, r)[i])] = Append(parts, Halves(r))
  OBVIOUS
<1>. HIDE DEF parts
<1>3. FlattenSeq(Append(parts, Halves(r))) = FlattenSeq(parts) \o Halves(r)
  BY <1>1, HalvesTyped, FlattenAppend
<1>. QED  BY <1>2, <1>3 DEF Expand, parts

LEMMA ExpandEmpty == Expand(<<>>) = <<>>
BY FlattenEmpty DEF Expand

LEMMA ExpandTyped == \A s \in Seq(Rules) : Expand(s) \in Seq(Rules)
<1>. DEFINE S == {s \in Seq(Rules) : Expand(s) \in Seq(Rules)}
<1>1. <<>> \in S
  BY ExpandEmpty, EmptySeq
<1>2. ASSUME NEW s \in Seq(Rules), NEW r \in Rules, s \in S PROVE Append(s, r) \in S
  <2>1. Expand(Append(s, r)) \in Seq(Rules)
    BY <1>2, HalvesTyped, ExpandAppend, ConcatProperties
  <2>. QED  BY <2>1
<1>. QED
  <2>. HIDE DEF S
  <2>1. Seq(Rules) \subseteq S
    BY <1>1, <1>2, SequenceInduction
  <2>. QED  BY <2>1 DEF S

LEMMA ExpandConcat ==
  ASSUME NEW s \in Seq(Rules)
  PROVE  \A t \in Seq(Rules) : Expand(s \o t) = Expand(s) \o Expand(t)
<1>. DEFINE S == {t \in Seq(Rules) : Expand(s \o t) = Expand(s) \o Expand(t)}
<1>1. <<>> \in S
  <2>1. s \o <<>> = s /\ Expand(s) \o <<>> = Expand(s)
    BY ExpandTyped, ConcatEmptySeq
  <2>2. Expand(s \o <<>>) = Expand(s) \o Expand(<<>>)
    BY ONLY <2>1, ExpandEmpty
  <2>. QED  BY <2>2, EmptySeq
<1>2. ASSUME NEW t \in Seq(Rules), NEW r \in Rules, t \in S PROVE Append(t, r) \in S
  <2>1. s \o Append(t, r) = Append(s \o t, r) /\ s \o t \in Seq(Rules)
    OBVIOUS
  <2>2. /\ Expand(s \o Append(t, r)) = Expand(s \o t) \o Halves(r)
        /\ Expand(Append(t, r)) = Expand(t) \o Halves(r)
    BY <2>1, ExpandAppend
  <2>3. Halves(r) \in Seq(Rules) /\ Expand(s) \in Seq(Rules) /\ Expand(t) \in Seq(Rules)
    BY ExpandTyped, HalvesTyped
  <2>4. (Expand(s) \o Expand(t)) \o Halves(r) = Expand(s) \o (Expand(t) \o Halves(r))
    BY ONLY <2>3, ConcatAssociative
  <2>5. Expand(s \o t) = Expand(s) \o Expand(t)
    BY <1>2
  <2>6. Expand(s \o Append(t, r)) = Expand(s) \o Expand(Append(t, r))
    BY ONLY <2>2, <2>4, <2>5
  <2>. QED  BY <2>6
<1>. QED
  <2>. HIDE DEF S
  <2>1. Seq(Rules) \subseteq S
    BY <1>1, <1>2, SequenceInduction
  <2>. QED  BY <2>1 DEF S

(* The halves of a rule say what the rule says, for each version.          *)
LEMMA HalvesKeep ==
  ASSUME NEW r \in Rules, NEW v \in Versions
  PROVE  ProjectRules(Halves(r), v) = Kept(r, v)
<1>0. \A x \in Rules : ProjectRules(<<x>>, v) = Kept(x, v)
  <2>. SUFFICES ASSUME NEW x \in Rules PROVE ProjectRules(<<x>>, v) = Kept(x, v)
    OBVIOUS
  <2>1. <<x>> = Append(<<>>, x) /\ <<>> \in Seq(Rules)
    BY EmptySeq
  <2>2. Kept(x, v) \in Seq(Bodies) /\ <<>> \o Kept(x, v) = Kept(x, v)
    BY KeptTyped, ConcatEmptySeq
  <2>. QED  BY <2>1, <2>2, ProjectAppend, ProjectEmpty
<1>1. CASE r.version # "any"
  BY <1>0, <1>1 DEF Halves
<1>2. CASE r.version = "any"
  <2>. DEFINE p == [r EXCEPT !.version = "ipv4"]
  <2>. DEFINE q == [r EXCEPT !.version = "ipv6"]
  <2>1. p \in Rules /\ q \in Rules
    BY DEF Rules, Versions
  <2>2. /\ p.body = r.body /\ p.version = "ipv4"
        /\ q.body = r.body /\ q.version = "ipv6" /\ v \in {"ipv4", "ipv6"}
    BY DEF Rules, Versions
  <2>3. Halves(r) = <<p, q>>
    BY <1>2 DEF Halves
  <2>. HIDE DEF p, q
  <2>4. <<p, q>> = Append(<<p>>, q)
    OBVIOUS
  <2>5. ProjectRules(Append(<<p>>, q), v) = Kept(p, v) \o Kept(q, v)
    <3>1. <<p>> \in Seq(Rules)
      BY <2>1
    <3>2. ProjectRules(Append(<<p>>, q), v) = ProjectRules(<<p>>, v) \o Kept(q, v)
      BY <2>1, <3>1, ProjectAppend
    <3>. QED  BY <1>0, <2>1, <3>2
  <2>6. Kept(r, v) = <<r.body>>
    BY <1>2 DEF Kept, AppliesTo
  <2>7. \/ Kept(p, v) = <<r.body>> /\ Kept(q, v) = <<>>
        \/ Kept(p, v) = <<>> /\ Kept(q, v) = <<r.body>>
    BY <2>2 DEF Kept, AppliesTo
  <2>8. Kept(p, v) \o Kept(q, v) = <<r.body>>
    <3>1. <<r.body>> \in Seq(Bodies)
      BY DEF Rules
    <3>2. <<r.body>> \o <<>> = <<r.body>> /\ <<>> \o <<r.body>> = <<r.body>>
      BY ONLY <3>1, ConcatEmptySeq
    <3>. QED  BY ONLY <2>7, <3>2
  <2>. QED  BY <2>3, <2>4, <2>5, <2>6, <2>8
<1>. QED  BY <1>1, <1>2

LEMMA ExpandKeeps ==
  ASSUME NEW v \in Versions
  PROVE  \A s \in Seq(Rules) : ProjectRules(Expand(s), v) = ProjectRules(s, v)
<1>. DEFINE S == {s \in Seq(Rules) : ProjectRules(Expand(s), v) = ProjectRules(s, v)}
<1>1. <<>> \in S
  BY ExpandEmpty, EmptySeq
<1>2. ASSUME NEW s \in Seq(Rules), NEW r \in Rules, s \in S PROVE Append(s, r) \in S
  <2>1. ProjectRules(Expand(s) \o Halves(r), v) = ProjectRules(Expand(s), v) \o Kept(r, v)
    <3>1. Expand(s) \in Seq(Rules) /\ Halves(r) \in Seq(Rules)
      BY ExpandTyped, HalvesTyped
    <3>2. ProjectRules(Expand(s) \o Halves(r), v)
            = ProjectRules(Expand(s), v) \o ProjectRules(Halves(r), v)
      BY <3>1, ProjectConcat
    <3>. QED  BY <3>2, HalvesKeep
  <2>2. ProjectRules(Expand(Append(s, r)), v) = ProjectRules(Append(s, r), v)
    BY <1>2, <2>1, ExpandAppend, ProjectAppend
  <2>. QED  BY <2>2
<1>. QED
  <2>. HIDE DEF S
  <2>1. Seq(Rules) \subseteq S
    BY <1>1, <1>2, SequenceInduction
  <2>. QED  BY <2>1 DEF S

LEMMA NormalizeTyped ==
  ASSUME NEW expands \in BOOLEAN, NEW s \in Seq(Rules)
  PROVE  Normalize(s, expands) \in Seq(Rules)
BY ExpandTyped DEF Normalize

LEMMA NormalizeConcat ==
  ASSUME NEW expands \in BOOLEAN, NEW s \in Seq(Rules), NEW t \in Seq(Rules)
  PROVE  Normalize(s \o t, expands) = Normalize(s, expands) \o Normalize(t, expands)
BY ExpandConcat DEF Normalize

(* What the API stores is equivalent to what was posted.                   *)
THEOREM NormalizeKeeps ==
  ASSUME NEW s \in Seq(Rules), NEW expands \in BOOLEAN
  PROVE  RulesEquivalent(s, Normalize(s, expands))
BY ExpandKeeps DEF Normalize, RulesEquivalent

-----------------------------------------------------------------------------
(***************************************************************************)
(* Counting the indices of a ruleset that grows at its end.                *)
(***************************************************************************)
LEMMA IndicesCount ==
  ASSUME NEW n \in Nat, NEW I, I \subseteq 1..n
  PROVE  /\ IsFiniteSet(I) /\ Cardinality(I) \in Nat
         /\ Cardinality(I \cup {n + 1}) = Cardinality(I) + 1
<1>1. IsFiniteSet(1..n)
  BY FS_Interval
<1>2. IsFiniteSet(I)
  BY <1>1, FS_Subset
<1>. QED  BY <1>2, FS_CardinalityType, FS_AddElement

Holding(s, X) == {i \in DOMAIN s : s[i] \in X}

Tally(s, X) == Cardinality(Holding(s, X))

LEMMA TallyTyped ==
  ASSUME NEW T, NEW s \in Seq(T), NEW X
  PROVE  Holding(s, X) \subseteq 1..Len(s) /\ Len(s) \in Nat /\ Tally(s, X) \in Nat
<1>1. Holding(s, X) \subseteq 1..Len(s) /\ Len(s) \in Nat
  BY LenProperties DEF Holding
<1>. QED  BY ONLY <1>1, IndicesCount DEF Tally

LEMMA TallyAppend ==
  ASSUME NEW T, NEW s \in Seq(T), NEW e \in T, NEW X
  PROVE  /\ e \in X => Tally(Append(s, e), X) = Tally(s, X) + 1
         /\ e \notin X => Tally(Append(s, e), X) = Tally(s, X)
<1>. DEFINE n == Len(s)
<1>1. /\ n \in Nat /\ DOMAIN s = 1..n /\ DOMAIN Append(s, e) = 1..(n + 1)
      /\ Append(s, e)[n + 1] = e /\ \A i \in 1..n : Append(s, e)[i] = s[i]
  BY LenProperties
<1>2. 1..(n + 1) = 1..n \cup {n + 1} /\ n + 1 \notin 1..n
  BY ONLY <1>1
<1>3. /\ e \in X => Holding(Append(s, e), X) = Holding(s, X) \cup {n + 1}
      /\ e \notin X => Holding(Append(s, e), X) = Holding(s, X)
  BY ONLY <1>1, <1>2 DEF Holding
<1>4. Holding(s, X) \subseteq 1..n
  BY <1>1 DEF Holding
<1>. HIDE DEF n
<1>5. Cardinality(Holding(s, X) \cup {n + 1}) = Cardinality(Holding(s, X)) + 1
  BY ONLY <1>1, <1>4, IndicesCount
<1>. QED  BY ONLY <1>3, <1>5 DEF Tally

LEMMA TallyEmpty == \A X : Tally(<<>>, X) = 0
BY FS_EmptySet DEF Tally, Holding

LEMMA TallyOne ==
  ASSUME NEW e, NEW X
  PROVE  Tally(<<e>>, X) = IF e \in X THEN 1 ELSE 0
<1>1. <<e>> = Append(<<>>, e) /\ <<>> \in Seq({e}) /\ e \in {e}
  BY EmptySeq
<1>2. /\ e \in X => Tally(Append(<<>>, e), X) = Tally(<<>>, X) + 1
      /\ e \notin X => Tally(Append(<<>>, e), X) = Tally(<<>>, X)
  BY ONLY <1>1, TallyAppend
<1>. QED  BY ONLY <1>1, <1>2, TallyEmpty

LEMMA TallyConcat ==
  ASSUME NEW T, NEW s \in Seq(T), NEW X
  PROVE  \A t \in Seq(T) : Tally(s \o t, X) = Tally(s, X) + Tally(t, X)
<1>. DEFINE S == {t \in Seq(T) : Tally(s \o t, X) = Tally(s, X) + Tally(t, X)}
<1>1. <<>> \in S
  <2>1. s \o <<>> = s /\ Tally(s, X) \in Nat
    BY TallyTyped, ConcatEmptySeq
  <2>2. Tally(s \o <<>>, X) = Tally(s, X) + Tally(<<>>, X)
    BY ONLY <2>1, TallyEmpty
  <2>. QED  BY <2>2, EmptySeq
<1>2. ASSUME NEW t \in Seq(T), NEW e \in T, t \in S PROVE Append(t, e) \in S
  <2>1. s \o Append(t, e) = Append(s \o t, e) /\ s \o t \in Seq(T)
    OBVIOUS
  <2>2. /\ e \in X => Tally(Append(s \o t, e), X) = Tally(s \o t, X) + 1
        /\ e \notin X => Tally(Append(s \o t, e), X) = Tally(s \o t, X)
    BY <2>1, TallyAppend
  <2>3. /\ e \in X => Tally(Append(t, e), X) = Tally(t, X) + 1
        /\ e \notin X => Tally(Append(t, e), X) = Tally(t, X)
    BY TallyAppend
  <2>4. Tally(s, X) \in Nat /\ Tally(t, X) \in Nat
    BY TallyTyped
  <2>5. Tally(s \o t, X) = Tally(s, X) + Tally(t, X)
    BY <1>2
  <2>6. Tally(s \o Append(t, e), X) = Tally(s, X) + Tally(Append(t, e), X)
    BY ONLY <2>1, <2>2, <2>3, <2>4, <2>5
  <2>. QED  BY <2>6
<1>. QED
  <2>. HIDE DEF S
  <2>1. Seq(T) \subseteq S
    BY <1>1, <1>2, SequenceInduction
  <2>. QED  BY <2>1 DEF S

(* What is there is counted, and what is counted is there.                 *)
LEMMA TallyFinds ==
  ASSUME NEW T, NEW s \in Seq(T), NEW X
  PROVE  Tally(s, X) = 0 <=> \A i \in DOMAIN s : s[i] \notin X
<1>1. Holding(s, X) \subseteq 1..Len(s) /\ Len(s) \in Nat
  BY TallyTyped
<1>2. IsFiniteSet(Holding(s, X))
  BY ONLY <1>1, IndicesCount
<1>3. Cardinality(Holding(s, X)) = 0 <=> Holding(s, X) = {}
  BY ONLY <1>2, FS_EmptySet
<1>. QED  BY ONLY <1>3 DEF Tally, Holding

-----------------------------------------------------------------------------
(* The rules that say b in the version v.                                  *)
Saying(b, v) == {r \in Rules : AppliesTo(r, v) /\ r.body = b}

LEMMA AvailableTallies ==
  ASSUME NEW s \in Seq(Rules), NEW b, NEW v
  PROVE  Available(s, b, v) = Tally(s, Saying(b, v))
<1>1. \A i \in DOMAIN s : s[i] \in Rules
  BY ElementOfSeq, LenProperties
<1>2. {i \in DOMAIN s : AppliesTo(s[i], v) /\ s[i].body = b} = Holding(s, Saying(b, v))
  BY <1>1 DEF Holding, Saying
<1>. QED  BY <1>2 DEF Available, Tally

LEMMA CountTallies == \A s, x : Count(s, x) = Tally(s, {x})
<1>. SUFFICES ASSUME NEW s, NEW x PROVE Count(s, x) = Tally(s, {x})
  OBVIOUS
<1>1. {i \in DOMAIN s : s[i] = x} = Holding(s, {x})
  BY DEF Holding
<1>. QED  BY <1>1 DEF Count, Tally

(* Splitting a rule splits who it speaks for, and never what it says.      *)
LEMMA HalvesTally ==
  ASSUME NEW r \in Rules, NEW b, NEW v \in Versions
  PROVE  Tally(Halves(r), Saying(b, v)) = IF r \in Saying(b, v) THEN 1 ELSE 0
<1>1. CASE r.version # "any"
  BY <1>1, TallyOne DEF Halves
<1>2. CASE r.version = "any"
  <2>. DEFINE p == [r EXCEPT !.version = "ipv4"]
  <2>. DEFINE q == [r EXCEPT !.version = "ipv6"]
  <2>1. p \in Rules /\ q \in Rules
    BY DEF Rules, Versions
  <2>2. /\ p.body = r.body /\ p.version = "ipv4"
        /\ q.body = r.body /\ q.version = "ipv6" /\ v \in {"ipv4", "ipv6"}
    BY DEF Rules, Versions
  <2>3. Halves(r) = <<p, q>>
    BY <1>2 DEF Halves
  <2>4. /\ p \in Saying(b, v) <=> r.body = b /\ v = "ipv4"
        /\ q \in Saying(b, v) <=> r.body = b /\ v = "ipv6"
        /\ r \in Saying(b, v) <=> r.body = b
    <3>. HIDE DEF p, q
    <3>. QED  BY <1>2, <2>1, <2>2 DEF Saying, AppliesTo
  <2>. HIDE DEF p, q
  <2>5. <<p, q>> = Append(<<p>>, q) /\ <<p>> \in Seq(Rules)
    <3>1. <<p>> \in Seq(Rules)
      BY <2>1
    <3>2. <<p, q>> = Append(<<p>>, q)
      OBVIOUS
    <3>. QED  BY <3>1, <3>2
  <2>6. /\ q \in Saying(b, v)
             => Tally(Append(<<p>>, q), Saying(b, v)) = Tally(<<p>>, Saying(b, v)) + 1
        /\ q \notin Saying(b, v)
             => Tally(Append(<<p>>, q), Saying(b, v)) = Tally(<<p>>, Saying(b, v))
    BY ONLY <2>1, <2>5, TallyAppend
  <2>7. Tally(<<p>>, Saying(b, v)) = IF p \in Saying(b, v) THEN 1 ELSE 0
    BY ONLY TallyOne
  <2>8. Tally(Halves(r), Saying(b, v)) = Tally(Append(<<p>>, q), Saying(b, v))
    BY ONLY <2>3, <2>5
  <2>9. \/ p \in Saying(b, v) /\ q \notin Saying(b, v) /\ r \in Saying(b, v)
        \/ p \notin Saying(b, v) /\ q \in Saying(b, v) /\ r \in Saying(b, v)
        \/ p \notin Saying(b, v) /\ q \notin Saying(b, v) /\ r \notin Saying(b, v)
    <3>1. (v = "ipv4" /\ v # "ipv6") \/ (v # "ipv4" /\ v = "ipv6")
      BY DEF Versions
    <3>. QED  BY ONLY <2>4, <3>1
  <2>. QED  BY ONLY <2>6, <2>7, <2>8, <2>9
<1>. QED  BY <1>1, <1>2

LEMMA ExpandTallies ==
  ASSUME NEW b, NEW v \in Versions
  PROVE  \A s \in Seq(Rules) : Tally(Expand(s), Saying(b, v)) = Tally(s, Saying(b, v))
<1>. DEFINE X == Saying(b, v)
<1>. DEFINE S == {s \in Seq(Rules) : Tally(Expand(s), X) = Tally(s, X)}
<1>1. <<>> \in S
  BY ExpandEmpty, EmptySeq
<1>2. ASSUME NEW s \in Seq(Rules), NEW r \in Rules, s \in S PROVE Append(s, r) \in S
  <2>1. Tally(Halves(r), X) = IF r \in X THEN 1 ELSE 0
    BY HalvesTally
  <2>. HIDE DEF X
  <2>2. Expand(s) \in Seq(Rules) /\ Halves(r) \in Seq(Rules)
    BY ExpandTyped, HalvesTyped
  <2>3. Tally(Expand(s) \o Halves(r), X) = Tally(Expand(s), X) + Tally(Halves(r), X)
    BY ONLY <2>2, TallyConcat
  <2>4. /\ r \in X => Tally(Append(s, r), X) = Tally(s, X) + 1
        /\ r \notin X => Tally(Append(s, r), X) = Tally(s, X)
    BY TallyAppend
  <2>5. Expand(Append(s, r)) = Expand(s) \o Halves(r)
    BY ExpandAppend
  <2>6. Tally(s, X) \in Nat /\ Tally(Expand(s), X) = Tally(s, X)
    BY <1>2, TallyTyped
  <2>7. Tally(Expand(Append(s, r)), X) = Tally(Append(s, r), X)
    BY ONLY <2>1, <2>3, <2>4, <2>5, <2>6
  <2>. QED  BY <2>7
<1>. QED
  <2>. HIDE DEF S
  <2>1. Seq(Rules) \subseteq S
    BY <1>1, <1>2, SequenceInduction
  <2>. QED  BY <2>1 DEF S

LEMMA NormalizeTallies ==
  ASSUME NEW b, NEW v \in Versions, NEW expands \in BOOLEAN, NEW s \in Seq(Rules)
  PROVE  Tally(Normalize(s, expands), Saying(b, v)) = Tally(s, Saying(b, v))
BY ExpandTallies DEF Normalize

-----------------------------------------------------------------------------
(***************************************************************************)
(* The subsequence at some indices, of a sequence that grows at its end.   *)
(***************************************************************************)
Chosen(s, i, I) == IF i \in I THEN <<s[i]>> ELSE <<>>

LEMMA AtAppend ==
  ASSUME NEW T, NEW s \in Seq(T), NEW e \in T, NEW I
  PROVE  /\ Len(s) + 1 \in I => At(Append(s, e), I) = At(s, I) \o <<e>>
         /\ Len(s) + 1 \notin I => At(Append(s, e), I) = At(s, I) \o <<>>
<1>. DEFINE n == Len(s)
<1>. DEFINE parts == [i \in DOMAIN s |-> Chosen(s, i, I)]
<1>. DEFINE last == Chosen(Append(s, e), n + 1, I)
<1>1. /\ n \in Nat /\ DOMAIN s = 1..n /\ DOMAIN Append(s, e) = 1..(n + 1)
      /\ Append(s, e)[n + 1] = e /\ \A i \in 1..n : Append(s, e)[i] = s[i] /\ s[i] \in T
  BY LenProperties, ElementOfSeq
<1>2. parts \in Seq(Seq(T)) /\ Len(parts) = n
  <2>1. \A x \in T : <<x>> \in Seq(T)
    OBVIOUS
  <2>2. \A i \in 1..n : Chosen(s, i, I) \in Seq(T)
    BY ONLY <1>1, <2>1, EmptySeq DEF Chosen
  <2>3. parts \in [1..n -> Seq(T)]
    BY ONLY <1>1, <2>2
  <2>. HIDE DEF parts, n
  <2>. QED  BY ONLY <1>1, <2>3, LenProperties
<1>3. last \in Seq(T) /\ last = IF n + 1 \in I THEN <<e>> ELSE <<>>
  <2>1. last = IF n + 1 \in I THEN <<e>> ELSE <<>>
    BY ONLY <1>1 DEF Chosen
  <2>2. <<e>> \in Seq(T) /\ <<>> \in Seq(T)
    BY EmptySeq
  <2>. HIDE DEF last
  <2>. QED  BY ONLY <2>1, <2>2
<1>4. [i \in DOMAIN Append(s, e) |-> Chosen(Append(s, e), i, I)] = Append(parts, last)
  <2>1. /\ DOMAIN Append(parts, last) = 1..(n + 1)
        /\ Append(parts, last)[n + 1] = last
        /\ \A i \in 1..n : Append(parts, last)[i] = parts[i]
    <3>. HIDE DEF parts, last
    <3>. QED  BY ONLY <1>1, <1>2, <1>3, LenProperties
  <2>2. \A i \in 1..n : parts[i] = Chosen(Append(s, e), i, I)
    BY ONLY <1>1 DEF Chosen
  <2>3. \A i \in 1..(n + 1) : i \in 1..n \/ i = n + 1
    BY ONLY <1>1
  <2>4. Append(parts, last) = [i \in 1..(n + 1) |-> Append(parts, last)[i]]
    <3>. HIDE DEF parts, last
    <3>. QED  BY ONLY <1>2, <1>3, <2>1
  <2>5. \A i \in 1..(n + 1) : Append(parts, last)[i] = Chosen(Append(s, e), i, I)
    BY ONLY <2>1, <2>2, <2>3
  <2>. HIDE DEF parts, last
  <2>. QED  BY ONLY <1>1, <2>4, <2>5
<1>5. At(Append(s, e), I) = FlattenSeq(Append(parts, last))
  BY ONLY <1>4 DEF At, Chosen
<1>6. At(s, I) = FlattenSeq(parts)
  BY DEF At, Chosen
<1>. HIDE DEF parts, last
<1>7. FlattenSeq(Append(parts, last)) = FlattenSeq(parts) \o last
  BY ONLY <1>2, <1>3, FlattenAppend
<1>. QED  BY ONLY <1>3, <1>5, <1>6, <1>7

LEMMA AtEmpty == \A I : At(<<>>, I) = <<>>
BY FlattenEmpty DEF At

LEMMA AtTyped ==
  ASSUME NEW T, NEW I
  PROVE  \A s \in Seq(T) : At(s, I) \in Seq(T)
<1>. DEFINE S == {s \in Seq(T) : At(s, I) \in Seq(T)}
<1>1. <<>> \in S
  BY AtEmpty, EmptySeq
<1>2. ASSUME NEW s \in Seq(T), NEW e \in T, s \in S PROVE Append(s, e) \in S
  <2>1. <<e>> \in Seq(T) /\ <<>> \in Seq(T) /\ At(s, I) \in Seq(T)
    BY <1>2, EmptySeq
  <2>2. At(Append(s, e), I) \in {At(s, I) \o <<e>>, At(s, I) \o <<>>}
    BY AtAppend
  <2>3. At(Append(s, e), I) \in Seq(T)
    BY ONLY <2>1, <2>2, ConcatProperties
  <2>. QED  BY <2>3
<1>. QED
  <2>. HIDE DEF S
  <2>1. Seq(T) \subseteq S
    BY <1>1, <1>2, SequenceInduction
  <2>. QED  BY <2>1 DEF S

(* One step of the recursion.                                              *)
LEMMA AtGrows ==
  ASSUME NEW T, NEW s \in Seq(T), NEW e \in T, NEW I
  PROVE  /\ Len(s) + 1 \in I => At(Append(s, e), I) = Append(At(s, I), e)
         /\ Len(s) + 1 \notin I => At(Append(s, e), I) = At(s, I)
<1>1. At(s, I) \in Seq(T)
  BY AtTyped
<1>2. At(s, I) \o <<e>> = Append(At(s, I), e) /\ At(s, I) \o <<>> = At(s, I)
  BY <1>1, ConcatEmptySeq, AppendIsConcat
<1>. QED  BY <1>2, AtAppend

LEMMA AtSame ==
  ASSUME NEW s, NEW I, NEW J, \A i \in DOMAIN s : i \in I <=> i \in J
  PROVE  At(s, I) = At(s, J)
BY DEF At

(* The indices of the front choose the front, and the others the rest.     *)
Leading(s) == {i \in Nat : i <= Len(s)}

Trailing(s) == {i \in Nat : i > Len(s)}

LEMMA AtWhole ==
  ASSUME NEW T
  PROVE  \A s \in Seq(T) : At(s, Nat) = s
<1>. DEFINE S == {s \in Seq(T) : At(s, Nat) = s}
<1>1. <<>> \in S
  BY AtEmpty, EmptySeq
<1>2. ASSUME NEW s \in Seq(T), NEW e \in T, s \in S PROVE Append(s, e) \in S
  <2>1. Len(s) + 1 \in Nat
    BY LenProperties
  <2>2. At(Append(s, e), Nat) = Append(s, e)
    BY <1>2, <2>1, AtGrows
  <2>. QED  BY <2>2
<1>. QED
  <2>. HIDE DEF S
  <2>1. Seq(T) \subseteq S
    BY <1>1, <1>2, SequenceInduction
  <2>. QED  BY <2>1 DEF S

LEMMA AtNowhere ==
  ASSUME NEW T
  PROVE  \A s \in Seq(T) : At(s, {}) = <<>>
<1>. DEFINE S == {s \in Seq(T) : At(s, {}) = <<>>}
<1>1. <<>> \in S
  BY AtEmpty, EmptySeq
<1>2. ASSUME NEW s \in Seq(T), NEW e \in T, s \in S PROVE Append(s, e) \in S
  <2>1. At(Append(s, e), {}) = <<>>
    BY <1>2, AtGrows
  <2>. QED  BY <2>1
<1>. QED
  <2>. HIDE DEF S
  <2>1. Seq(T) \subseteq S
    BY <1>1, <1>2, SequenceInduction
  <2>. QED  BY <2>1 DEF S

LEMMA AtSplit ==
  ASSUME NEW T, NEW s \in Seq(T)
  PROVE  \A t \in Seq(T) : At(s \o t, Leading(s)) = s /\ At(s \o t, Trailing(s)) = t
<1>. DEFINE S == {t \in Seq(T) : At(s \o t, Leading(s)) = s /\ At(s \o t, Trailing(s)) = t}
<1>0. Len(s) \in Nat /\ DOMAIN s = 1..Len(s) /\ s \o <<>> = s
  BY LenProperties, ConcatEmptySeq
<1>1. <<>> \in S
  <2>1. \A i \in DOMAIN s : i \in Leading(s) /\ i \in Nat /\ i \notin Trailing(s)
    BY ONLY <1>0 DEF Leading, Trailing
  <2>2. At(s, Leading(s)) = At(s, Nat) /\ At(s, Trailing(s)) = At(s, {})
    BY ONLY <2>1, AtSame
  <2>3. At(s, Leading(s)) = s /\ At(s, Trailing(s)) = <<>>
    BY <2>2, AtWhole, AtNowhere
  <2>. QED  BY <1>0, <2>3, EmptySeq
<1>2. ASSUME NEW t \in Seq(T), NEW e \in T, t \in S PROVE Append(t, e) \in S
  <2>1. s \o Append(t, e) = Append(s \o t, e) /\ s \o t \in Seq(T)
    OBVIOUS
  <2>2. Len(s \o t) + 1 \notin Leading(s) /\ Len(s \o t) + 1 \in Trailing(s)
    <3>1. Len(s \o t) = Len(s) + Len(t) /\ Len(t) \in Nat
      BY ConcatProperties, LenProperties
    <3>. QED  BY ONLY <1>0, <3>1 DEF Leading, Trailing
  <2>3. /\ At(Append(s \o t, e), Leading(s)) = At(s \o t, Leading(s))
        /\ At(Append(s \o t, e), Trailing(s)) = Append(At(s \o t, Trailing(s)), e)
    BY <2>1, <2>2, AtGrows
  <2>4. /\ At(s \o Append(t, e), Leading(s)) = s
        /\ At(s \o Append(t, e), Trailing(s)) = Append(t, e)
    BY <1>2, <2>1, <2>3
  <2>. QED  BY <2>4
<1>. QED
  <2>. HIDE DEF S
  <2>1. Seq(T) \subseteq S
    BY <1>1, <1>2, SequenceInduction
  <2>. QED  BY <2>1 DEF S

-----------------------------------------------------------------------------
(***************************************************************************)
(* Without, which takes rules out from the front.                          *)
(***************************************************************************)
UpTo(s, i) == {j \in 1..i : s[j] = s[i]}

Spared(s, gone) == {i \in DOMAIN s : Cardinality(UpTo(s, i)) > Count(gone, s[i])}

LEMMA CountTyped ==
  ASSUME NEW T, NEW s \in Seq(T), NEW x
  PROVE  Count(s, x) \in Nat
BY TallyTyped, CountTallies

(* When what is to go is as often there as in the front of a ruleset,      *)
(* the front goes and the rest stays.                                      *)
LEMMA RemovesFront ==
  ASSUME NEW T, NEW s \in Seq(T), NEW t \in Seq(T), NEW gone,
         \A x \in T : Count(gone, x) = Count(s, x)
  PROVE  RemoveRules(s \o t, gone) = t
<1>. DEFINE n == Len(s)
<1>. DEFINE r == s \o t
<1>0. /\ n \in Nat /\ Len(r) \in Nat /\ n <= Len(r) /\ DOMAIN r = 1..Len(r)
      /\ \A i \in 1..n : r[i] = s[i]
      /\ \A i \in 1..Len(r) : r[i] \in T
  <2>1. Len(s) \in Nat /\ Len(t) \in Nat
    BY LenProperties
  <2>2. r \in Seq(T) /\ Len(r) = Len(s) + Len(t)
    BY ConcatProperties
  <2>3. \A i \in 1..n : r[i] = s[i]
    BY ConcatProperties
  <2>. HIDE DEF r
  <2>. QED  BY <2>1, <2>2, <2>3, LenProperties, ElementOfSeq
<1>1. \A i \in DOMAIN r : Count(gone, r[i]) = Count(s, r[i])
  BY <1>0
<1>2. \A x : Holding(s, {x}) = {j \in 1..n : r[j] = x} /\ Count(s, x) = Cardinality(Holding(s, {x}))
  <2>1. DOMAIN s = 1..n
    BY LenProperties
  <2>. HIDE DEF r
  <2>. QED  BY ONLY <1>0, <2>1, CountTallies DEF Holding, Tally
<1>. HIDE DEF r, n
<1>3. ASSUME NEW i \in DOMAIN r
      PROVE  Cardinality(UpTo(r, i)) > Count(s, r[i]) <=> i > n
  <2>. DEFINE H == Holding(s, {r[i]})
  <2>1. i \in 1..Len(r) /\ i \in Nat
    BY <1>0
  <2>2. H = {j \in 1..n : r[j] = r[i]} /\ Count(s, r[i]) = Cardinality(H)
    BY <1>2
  <2>. HIDE DEF H
  <2>3. /\ IsFiniteSet(H) /\ Cardinality(H) \in Nat
        /\ IsFiniteSet(UpTo(r, i)) /\ Cardinality(UpTo(r, i)) \in Nat
    <3>1. H \subseteq 1..n /\ UpTo(r, i) \subseteq 1..i
      BY ONLY <2>2 DEF UpTo
    <3>. QED  BY ONLY <1>0, <2>1, <3>1, IndicesCount
  <2>4. CASE i <= n
    <3>1. UpTo(r, i) \subseteq H
      BY ONLY <1>0, <2>1, <2>2, <2>4 DEF UpTo
    <3>2. Cardinality(UpTo(r, i)) <= Cardinality(H)
      BY ONLY <2>3, <3>1, FS_Subset
    <3>. QED  BY ONLY <1>0, <2>1, <2>2, <2>3, <2>4, <3>2
  <2>5. CASE i > n
    <3>1. H \cup {i} \subseteq UpTo(r, i) /\ i \notin H
      BY ONLY <1>0, <2>1, <2>2, <2>5 DEF UpTo
    <3>2. Cardinality(H \cup {i}) = Cardinality(H) + 1
      BY ONLY <2>3, <3>1, FS_AddElement
    <3>3. Cardinality(H \cup {i}) <= Cardinality(UpTo(r, i))
      BY ONLY <2>3, <3>1, FS_Subset
    <3>. QED  BY ONLY <1>0, <2>1, <2>2, <2>3, <2>5, <3>2, <3>3
  <2>. QED  BY ONLY <1>0, <2>1, <2>4, <2>5
<1>4. RemoveRules(r, gone) = At(r, Spared(r, gone))
  BY DEF RemoveRules, Spared, UpTo
<1>5. \A i \in DOMAIN r : i \in Spared(r, gone) <=> i \in Trailing(s)
  <2>1. \A i \in DOMAIN r : i \in Nat
    BY ONLY <1>0
  <2>. QED  BY ONLY <1>1, <1>3, <2>1 DEF Spared, Trailing, n
<1>6. At(r, Spared(r, gone)) = At(r, Trailing(s))
  BY ONLY <1>5, AtSame
<1>. QED  BY <1>4, <1>6, AtSplit DEF r

(* One step of the recursion.                                              *)
LEMMA RemoveGrows ==
  ASSUME NEW T, NEW s \in Seq(T), NEW e \in T, NEW gone
  PROVE  /\ Count(Append(s, e), e) > Count(gone, e)
              => RemoveRules(Append(s, e), gone) = Append(RemoveRules(s, gone), e)
         /\ ~(Count(Append(s, e), e) > Count(gone, e))
              => RemoveRules(Append(s, e), gone) = RemoveRules(s, gone)
<1>. DEFINE n == Len(s)
<1>. DEFINE r == Append(s, e)
<1>1. /\ n \in Nat /\ DOMAIN s = 1..n /\ DOMAIN r = 1..(n + 1)
      /\ r[n + 1] = e /\ \A i \in 1..n : r[i] = s[i]
  BY LenProperties
<1>. HIDE DEF r
<1>2. \A i \in DOMAIN s : i \in Spared(r, gone) <=> i \in Spared(s, gone)
  <2>. SUFFICES ASSUME NEW i \in DOMAIN s
                PROVE  i \in Spared(r, gone) <=> i \in Spared(s, gone)
    OBVIOUS
  <2>1. i \in DOMAIN r /\ r[i] = s[i] /\ \A j \in 1..i : r[j] = s[j]
    BY ONLY <1>1, i \in DOMAIN s
  <2>2. UpTo(r, i) = UpTo(s, i)
    BY ONLY <2>1 DEF UpTo
  <2>. QED  BY ONLY <2>1, <2>2, i \in DOMAIN s DEF Spared
<1>3. n + 1 \in Spared(r, gone) <=> Count(r, e) > Count(gone, e)
  <2>1. UpTo(r, n + 1) = {j \in DOMAIN r : r[j] = e} /\ n + 1 \in DOMAIN r
    BY ONLY <1>1 DEF UpTo
  <2>2. Count(r, e) = Cardinality(UpTo(r, n + 1))
    BY ONLY <2>1 DEF Count
  <2>. QED  BY ONLY <1>1, <2>1, <2>2 DEF Spared
<1>4. At(s, Spared(r, gone)) = At(s, Spared(s, gone))
  BY ONLY <1>2, AtSame
<1>5. /\ RemoveRules(s, gone) = At(s, Spared(s, gone))
      /\ RemoveRules(r, gone) = At(r, Spared(r, gone))
  BY DEF RemoveRules, Spared, UpTo
<1>6. /\ n + 1 \in Spared(r, gone)
           => At(r, Spared(r, gone)) = Append(At(s, Spared(r, gone)), e)
      /\ n + 1 \notin Spared(r, gone)
           => At(r, Spared(r, gone)) = At(s, Spared(r, gone))
  BY AtGrows DEF r
<1>. QED  BY ONLY <1>3, <1>4, <1>5, <1>6 DEF r

(* Each entry takes out one rule, and no more than there are.              *)
LEMMA RemoveCounts ==
  ASSUME NEW T, NEW gone \in Seq(T), NEW x \in T
  PROVE  \A s \in Seq(T) :
           /\ RemoveRules(s, gone) \in Seq(T)
           /\ Count(s, x) <= Count(gone, x) => Count(RemoveRules(s, gone), x) = 0
           /\ Count(s, x) >= Count(gone, x)
                => Count(RemoveRules(s, gone), x) = Count(s, x) - Count(gone, x)
<1>. DEFINE Good(s) == /\ RemoveRules(s, gone) \in Seq(T)
                       /\ Count(s, x) <= Count(gone, x) => Count(RemoveRules(s, gone), x) = 0
                       /\ Count(s, x) >= Count(gone, x)
                            => Count(RemoveRules(s, gone), x) = Count(s, x) - Count(gone, x)
<1>. DEFINE S == {s \in Seq(T) : Good(s)}
<1>0. Count(gone, x) \in Nat
  BY CountTyped
<1>1. <<>> \in S
  <2>1. RemoveRules(<<>>, gone) = <<>>
    BY AtEmpty DEF RemoveRules
  <2>2. Count(<<>>, x) = 0
    BY TallyEmpty, CountTallies
  <2>3. <<>> \in Seq(T)
    BY EmptySeq
  <2>4. RemoveRules(<<>>, gone) \in Seq(T) /\ Count(RemoveRules(<<>>, gone), x) = 0
    BY ONLY <2>1, <2>2, <2>3
  <2>5. Good(<<>>)
    BY ONLY <1>0, <2>2, <2>4
  <2>. QED  BY ONLY <2>3, <2>5
<1>2. ASSUME NEW s \in Seq(T), NEW e \in T, s \in S PROVE Append(s, e) \in S
  <2>. DEFINE kept == RemoveRules(s, gone)
  <2>. DEFINE next == RemoveRules(Append(s, e), gone)
  <2>0. Good(s)
    BY <1>2
  <2>. HIDE DEF S
  <2>1. kept \in Seq(T) /\ Count(kept, x) \in Nat /\ Count(s, x) \in Nat
    <3>1. kept \in Seq(T)
      BY ONLY <2>0
    <3>. QED  BY <3>1, CountTyped
  <2>2. /\ Count(Append(s, e), e) > Count(gone, e) => next = Append(kept, e)
        /\ ~(Count(Append(s, e), e) > Count(gone, e)) => next = kept
    BY RemoveGrows
  <2>. HIDE DEF kept, next
  <2>3. \A u \in Seq(T) : /\ e = x => Count(Append(u, e), x) = Count(u, x) + 1
                          /\ e # x => Count(Append(u, e), x) = Count(u, x)
    <3>. SUFFICES ASSUME NEW u \in Seq(T)
                  PROVE  /\ e = x => Count(Append(u, e), x) = Count(u, x) + 1
                         /\ e # x => Count(Append(u, e), x) = Count(u, x)
      OBVIOUS
    <3>1. /\ e \in {x} => Tally(Append(u, e), {x}) = Tally(u, {x}) + 1
          /\ e \notin {x} => Tally(Append(u, e), {x}) = Tally(u, {x})
      BY TallyAppend
    <3>. QED  BY ONLY <3>1, CountTallies
  <2>4. next \in Seq(T)
    <3>1. Append(kept, e) \in Seq(T)
      BY <2>1
    <3>. QED  BY ONLY <2>1, <2>2, <3>1
  <2>5. /\ e = x => /\ Count(Append(s, e), x) = Count(s, x) + 1
                    /\ Count(Append(kept, e), x) = Count(kept, x) + 1
        /\ e # x => /\ Count(Append(s, e), x) = Count(s, x)
                    /\ Count(Append(kept, e), x) = Count(kept, x)
    BY <2>1, <2>3
  <2>6. /\ Count(s, x) <= Count(gone, x) => Count(kept, x) = 0
        /\ Count(s, x) >= Count(gone, x) => Count(kept, x) = Count(s, x) - Count(gone, x)
    BY ONLY <2>0 DEF kept
  <2>7. /\ Count(Append(s, e), x) <= Count(gone, x) => Count(next, x) = 0
        /\ Count(Append(s, e), x) >= Count(gone, x)
             => Count(next, x) = Count(Append(s, e), x) - Count(gone, x)
    <3>1. CASE e # x
      <4>1. Count(next, x) = Count(kept, x)
        BY ONLY <2>2, <2>5, <3>1
      <4>. QED  BY ONLY <2>5, <2>6, <3>1, <4>1
    <3>2. CASE e = x
      <4>1. /\ Count(s, x) + 1 > Count(gone, x) => Count(next, x) = Count(kept, x) + 1
            /\ ~(Count(s, x) + 1 > Count(gone, x)) => Count(next, x) = Count(kept, x)
        BY ONLY <2>2, <2>5, <3>2
      <4>. QED  BY ONLY <1>0, <2>1, <2>5, <2>6, <3>2, <4>1
    <3>. QED  BY ONLY <3>1, <3>2
  <2>8. Good(Append(s, e))
    BY ONLY <2>4, <2>7 DEF next
  <2>9. Append(s, e) \in Seq(T)
    OBVIOUS
  <2>. QED  BY ONLY <2>8, <2>9 DEF S
<1>3. Seq(T) \subseteq S
  <2>. HIDE DEF S
  <2>. QED  BY <1>1, <1>2, SequenceInduction
<1>. QED  BY <1>3

-----------------------------------------------------------------------------
(***************************************************************************)
(* ServerInjectedRules, over what the API returns.                         *)
(***************************************************************************)
AppearsIn(s, b) == \E i \in DOMAIN s : s[i].body = b

LEMMA SilentIsZero ==
  ASSUME NEW s \in Seq(Rules), NEW b, ~AppearsIn(s, b)
  PROVE  \A v : Tally(s, Saying(b, v)) = 0
BY TallyFinds DEF AppearsIn, Saying

(* A normalized ruleset has the bodies of the ruleset that was normalized. *)
LEMMA NormalizeAppears ==
  ASSUME NEW s \in Seq(Rules), NEW expands \in BOOLEAN,
         NEW i \in DOMAIN Normalize(s, expands)
  PROVE  AppearsIn(s, Normalize(s, expands)[i].body)
<1>. DEFINE t == Normalize(s, expands)
<1>. DEFINE b == t[i].body
<1>1. t \in Seq(Rules) /\ i \in DOMAIN t
  BY NormalizeTyped
<1>2. t[i] \in Rules
  <2>. HIDE DEF t
  <2>. QED  BY ONLY <1>1, LenProperties, ElementOfSeq
<1>3. PICK v \in Versions : AppliesTo(t[i], v)
  BY ONLY <1>2 DEF Rules, Versions, AppliesTo
<1>4. t[i] \in Saying(b, v)
  BY ONLY <1>2, <1>3 DEF Saying
<1>5. Tally(t, Saying(b, v)) = Tally(s, Saying(b, v))
  BY NormalizeTallies
<1>6. Tally(t, Saying(b, v)) # 0
  <2>. HIDE DEF t, b
  <2>. QED  BY ONLY <1>1, <1>4, TallyFinds
<1>. HIDE DEF t, b
<1>7. Tally(s, Saying(b, v)) # 0
  BY ONLY <1>5, <1>6
<1>8. AppearsIn(s, b)
  BY <1>7, SilentIsZero
<1>. QED  BY <1>8 DEF b, t

(* Authored and injected rules with no body in common are told apart.      *)
LEMMA DiffFindsInjected ==
  ASSUME NEW posted \in Seq(Rules), NEW injected \in Seq(Rules), NEW expands \in BOOLEAN,
         \A b : ~(AppearsIn(posted, b) /\ AppearsIn(injected, b))
  PROVE  InjectedRules(posted, Normalize(injected \o posted, expands))
           = Normalize(injected, expands)
<1>. DEFINE front == Normalize(injected, expands)
<1>. DEFINE rest == Normalize(posted, expands)
<1>. DEFINE r == front \o rest
<1>. DEFINE Unaccounted(i) == \A v \in AppliedVersions(r[i]) : ~Accounted(posted, r, i, v)
<1>. DEFINE I == {i \in DOMAIN r : Unaccounted(i)}
<1>1. front \in Seq(Rules) /\ rest \in Seq(Rules)
  BY NormalizeTyped
<1>2. Normalize(injected \o posted, expands) = r
  BY NormalizeConcat
<1>3. \A i \in DOMAIN front : AppearsIn(injected, front[i].body)
  BY NormalizeAppears
<1>4. \A i \in DOMAIN rest : AppearsIn(posted, rest[i].body)
  BY NormalizeAppears
<1>5. \A b : \A v \in Versions : /\ Tally(front, Saying(b, v)) = Tally(injected, Saying(b, v))
                                 /\ Tally(rest, Saying(b, v)) = Tally(posted, Saying(b, v))
  BY NormalizeTallies
<1>. HIDE DEF front, rest
<1>6. /\ r \in Seq(Rules) /\ DOMAIN r = 1..Len(r) /\ Len(r) \in Nat
      /\ Len(front) \in Nat /\ DOMAIN front = 1..Len(front)
      /\ \A i \in DOMAIN r : r[i] \in Rules
      /\ \A i \in DOMAIN r : i <= Len(front) => i \in DOMAIN front /\ r[i] = front[i]
      /\ \A i \in DOMAIN r : i > Len(front)
                               => i - Len(front) \in DOMAIN rest /\ r[i] = rest[i - Len(front)]
  <2>1. /\ Len(front) \in Nat /\ DOMAIN front = 1..Len(front)
        /\ Len(rest) \in Nat /\ DOMAIN rest = 1..Len(rest)
    BY <1>1, LenProperties
  <2>2. /\ r \in Seq(Rules) /\ Len(r) = Len(front) + Len(rest)
        /\ \A i \in 1..Len(front) : r[i] = front[i]
        /\ \A i \in (Len(front) + 1)..(Len(front) + Len(rest)) : r[i] = rest[i - Len(front)]
    BY <1>1, ConcatProperties
  <2>. HIDE DEF r
  <2>3. DOMAIN r = 1..Len(r) /\ \A i \in 1..Len(r) : r[i] \in Rules
    BY <2>2, LenProperties, ElementOfSeq
  <2>. QED  BY ONLY <2>1, <2>2, <2>3
<1>7. \A b : \A v \in Versions :
        Tally(r, Saying(b, v)) = Tally(front, Saying(b, v)) + Tally(rest, Saying(b, v))
  BY ONLY <1>1, TallyConcat
<1>. HIDE DEF r
<1>8. ASSUME NEW i \in DOMAIN r, NEW v \in Versions, AppliesTo(r[i], v)
      PROVE  /\ i \in Competing(r, i, v) /\ Competing(r, i, v) \subseteq 1..i
             /\ Competing(r, i, v) \subseteq Holding(r, Saying(r[i].body, v))
             /\ IsFiniteSet(Competing(r, i, v)) /\ Cardinality(Competing(r, i, v)) \in Nat
  <2>1. /\ i \in Competing(r, i, v) /\ Competing(r, i, v) \subseteq 1..i
        /\ Competing(r, i, v) \subseteq Holding(r, Saying(r[i].body, v))
    BY ONLY <1>6, <1>8 DEF Competing, Holding, Saying
  <2>2. i \in Nat
    BY ONLY <1>6, i \in DOMAIN r
  <2>. QED  BY ONLY <2>1, <2>2, IndicesCount
<1>9. ASSUME NEW i \in DOMAIN r, i <= Len(front) PROVE Unaccounted(i)
  <2>. SUFFICES ASSUME NEW v \in AppliedVersions(r[i]) PROVE ~Accounted(posted, r, i, v)
    OBVIOUS
  <2>0. v \in Versions /\ AppliesTo(r[i], v)
    BY DEF AppliedVersions
  <2>1. ~AppearsIn(posted, r[i].body)
    BY ONLY <1>3, <1>6, <1>9, \A b : ~(AppearsIn(posted, b) /\ AppearsIn(injected, b))
  <2>2. Available(posted, r[i].body, v) = 0
    BY <2>1, SilentIsZero, AvailableTallies
  <2>3. Cardinality(Competing(r, i, v)) # 0
    BY ONLY <1>8, <2>0, i \in DOMAIN r, FS_EmptySet
  <2>4. Cardinality(Competing(r, i, v)) \in Nat
    BY ONLY <1>8, <2>0, i \in DOMAIN r
  <2>. QED  BY ONLY <2>2, <2>3, <2>4 DEF Accounted
<1>10. ASSUME NEW i \in DOMAIN r, i > Len(front) PROVE ~Unaccounted(i)
  <2>1. PICK v \in Versions : AppliesTo(r[i], v)
    <3>1. r[i] \in Rules
      BY ONLY <1>6, i \in DOMAIN r
    <3>. QED  BY ONLY <3>1 DEF Rules, Versions, AppliesTo
  <2>. DEFINE X == Saying(r[i].body, v)
  <2>2. ~AppearsIn(injected, r[i].body)
    BY ONLY <1>4, <1>6, <1>10, \A b : ~(AppearsIn(posted, b) /\ AppearsIn(injected, b))
  <2>3. Tally(injected, X) = 0
    BY <2>2, SilentIsZero
  <2>4. /\ Tally(r, X) = Tally(front, X) + Tally(rest, X)
        /\ Tally(front, X) = Tally(injected, X) /\ Tally(rest, X) = Tally(posted, X)
    BY ONLY <1>5, <1>7, v \in Versions
  <2>5. Available(posted, r[i].body, v) = Tally(posted, X) /\ Tally(posted, X) \in Nat
    BY AvailableTallies, TallyTyped
  <2>6. Competing(r, i, v) \subseteq Holding(r, X)
    BY ONLY <1>8, <2>1, i \in DOMAIN r
  <2>. HIDE DEF X
  <2>7. Cardinality(Competing(r, i, v)) <= Tally(r, X)
    <3>1. IsFiniteSet(Holding(r, X))
      BY <1>6, TallyTyped, IndicesCount
    <3>. QED  BY ONLY <2>6, <3>1, FS_Subset DEF Tally
  <2>8. Cardinality(Competing(r, i, v)) <= Available(posted, r[i].body, v)
    BY ONLY <2>3, <2>4, <2>5, <2>7
  <2>. QED  BY ONLY <2>1, <2>8 DEF Accounted, AppliedVersions
<1>11. \A i \in DOMAIN r : i \in I <=> i \in Leading(front)
  <2>1. \A i \in DOMAIN r : i \in Nat
    BY ONLY <1>6
  <2>2. \A i \in DOMAIN r : Unaccounted(i) <=> i <= Len(front)
    <3>. SUFFICES ASSUME NEW i \in DOMAIN r PROVE Unaccounted(i) <=> i <= Len(front)
      OBVIOUS
    <3>1. i <= Len(front) \/ i > Len(front)
      BY ONLY <1>6, <2>1, i \in DOMAIN r
    <3>2. ~(i <= Len(front) /\ i > Len(front))
      BY ONLY <1>6, <2>1, i \in DOMAIN r
    <3>. QED  BY ONLY <1>9, <1>10, <3>1, <3>2, i \in DOMAIN r
  <2>. HIDE DEF Unaccounted
  <2>. QED  BY ONLY <2>1, <2>2 DEF Leading
<1>12. InjectedRules(posted, r) = At(r, I)
  BY ONLY DEF InjectedRules
<1>. HIDE DEF I
<1>13. At(r, I) = At(r, Leading(front))
  BY ONLY <1>11, AtSame
<1>14. At(r, Leading(front)) = front
  BY ONLY <1>1, AtSplit DEF r
<1>. QED  BY ONLY <1>2, <1>12, <1>13, <1>14 DEF front

(* Taking out what was found takes out what was injected, if each rule was *)
(* found as often as it was injected.                                      *)
LEMMA FoundIsRemoved ==
  ASSUME NEW posted \in Seq(Rules), NEW injected \in Seq(Rules), NEW expands \in BOOLEAN,
         NEW found, \A x \in Rules : Count(found, x) = Count(Normalize(injected, expands), x)
  PROVE  RulesEquivalent(RemoveRules(Normalize(injected \o posted, expands), found), posted)
<1>. DEFINE front == Normalize(injected, expands)
<1>. DEFINE rest == Normalize(posted, expands)
<1>1. front \in Seq(Rules) /\ rest \in Seq(Rules)
  BY NormalizeTyped
<1>2. Normalize(injected \o posted, expands) = front \o rest
  BY NormalizeConcat
<1>3. RulesEquivalent(posted, rest)
  BY NormalizeKeeps
<1>. HIDE DEF front, rest
<1>4. RemoveRules(front \o rest, found) = rest
  BY <1>1, RemovesFront DEF front
<1>5. RulesEquivalent(rest, posted)
  BY ONLY <1>3 DEF RulesEquivalent
<1>. QED  BY ONLY <1>2, <1>4, <1>5

(* Once expanded, every rule is of one version.                            *)
LEMMA HalvesApart ==
  ASSUME NEW r \in Rules
  PROVE  Tally(Halves(r), {x \in Rules : x.version = "any"}) = 0
<1>. DEFINE A == {x \in Rules : x.version = "any"}
<1>1. CASE r.version # "any"
  <2>1. r \notin A
    BY <1>1
  <2>2. Halves(r) = <<r>>
    BY <1>1 DEF Halves
  <2>. HIDE DEF A
  <2>3. Tally(<<r>>, A) = 0
    BY ONLY <2>1, TallyOne
  <2>. QED  BY ONLY <2>2, <2>3 DEF A
<1>2. CASE r.version = "any"
  <2>. DEFINE p == [r EXCEPT !.version = "ipv4"]
  <2>. DEFINE q == [r EXCEPT !.version = "ipv6"]
  <2>1. p \in Rules /\ q \in Rules /\ p \notin A /\ q \notin A
    BY DEF Rules, Versions
  <2>2. Halves(r) = <<p, q>>
    BY <1>2 DEF Halves
  <2>. HIDE DEF p, q, A
  <2>3. <<p, q>> = Append(<<p>>, q) /\ <<p>> \in Seq(Rules)
    <3>1. <<p>> \in Seq(Rules)
      BY <2>1
    <3>2. <<p, q>> = Append(<<p>>, q)
      OBVIOUS
    <3>. QED  BY <3>1, <3>2
  <2>4. Tally(Append(<<p>>, q), A) = Tally(<<p>>, A)
    BY ONLY <2>1, <2>3, TallyAppend
  <2>5. Tally(<<p>>, A) = 0
    BY ONLY <2>1, TallyOne
  <2>. QED  BY ONLY <2>2, <2>3, <2>4, <2>5 DEF A
<1>. QED  BY <1>1, <1>2

LEMMA ExpandedApart ==
  \A s \in Seq(Rules) : \A i \in DOMAIN Expand(s) :
     Expand(s)[i] \in Rules /\ Expand(s)[i].version \in Versions
<1>. DEFINE A == {x \in Rules : x.version = "any"}
<1>. DEFINE S == {s \in Seq(Rules) : Tally(Expand(s), A) = 0}
<1>1. <<>> \in S
  BY ExpandEmpty, EmptySeq, TallyEmpty
<1>2. ASSUME NEW s \in Seq(Rules), NEW r \in Rules, s \in S PROVE Append(s, r) \in S
  <2>1. Tally(Halves(r), A) = 0
    BY HalvesApart
  <2>. HIDE DEF A
  <2>2. Expand(s) \in Seq(Rules) /\ Halves(r) \in Seq(Rules)
    BY ExpandTyped, HalvesTyped
  <2>3. Tally(Expand(s) \o Halves(r), A) = Tally(Expand(s), A) + Tally(Halves(r), A)
    BY ONLY <2>2, TallyConcat
  <2>4. Tally(Expand(s), A) = 0 /\ Expand(Append(s, r)) = Expand(s) \o Halves(r)
    BY <1>2, ExpandAppend
  <2>5. Tally(Expand(Append(s, r)), A) = 0
    BY ONLY <2>1, <2>3, <2>4
  <2>. QED  BY <2>5
<1>3. Seq(Rules) \subseteq S
  <2>. HIDE DEF S
  <2>. QED  BY <1>1, <1>2, SequenceInduction
<1>. SUFFICES ASSUME NEW s \in Seq(Rules), NEW i \in DOMAIN Expand(s)
              PROVE  Expand(s)[i] \in Rules /\ Expand(s)[i].version \in Versions
  OBVIOUS
<1>4. Tally(Expand(s), A) = 0
  BY <1>3
<1>5. Expand(s) \in Seq(Rules)
  BY ExpandTyped
<1>6. Expand(s)[i] \in Rules
  BY <1>5, LenProperties, ElementOfSeq
<1>7. Expand(s)[i] \notin A
  <2>. HIDE DEF A, S
  <2>. QED  BY <1>4, <1>5, TallyFinds
<1>. QED  BY <1>6, <1>7 DEF Rules

(* A rule of one version competes with its equals only, and for as many as *)
(* its equals among what was posted, once that is expanded.                *)
LEMMA ExpandedDiffRemoves ==
  ASSUME NEW posted \in Seq(Rules), NEW injected \in Seq(Rules)
  PROVE  InjectedRules(posted, Expand(injected \o posted))
           = RemoveRules(Expand(injected \o posted), Expand(posted))
<1>. DEFINE r == Expand(injected \o posted)
<1>. DEFINE p == Expand(posted)
<1>. DEFINE Unaccounted(i) == \A v \in AppliedVersions(r[i]) : ~Accounted(posted, r, i, v)
<1>. DEFINE I == {i \in DOMAIN r : Unaccounted(i)}
<1>0. injected \o posted \in Seq(Rules)
  OBVIOUS
<1>1. r \in Seq(Rules) /\ p \in Seq(Rules)
  BY <1>0, ExpandTyped
<1>2. \A i \in DOMAIN r : r[i] \in Rules /\ r[i].version \in Versions
  BY <1>0, ExpandedApart
<1>3. \A i \in DOMAIN p : p[i] \in Rules /\ p[i].version \in Versions
  BY ExpandedApart
<1>4. \A b : \A v \in Versions : Tally(p, Saying(b, v)) = Available(posted, b, v)
  BY ExpandTallies, AvailableTallies
<1>. HIDE DEF r, p
<1>5. \A i \in DOMAIN r : i \in 1..Len(r) /\ DOMAIN r = 1..Len(r) /\ Len(r) \in Nat
  BY <1>1, LenProperties
<1>6. ASSUME NEW i \in DOMAIN r
      PROVE  Unaccounted(i) <=> Cardinality(UpTo(r, i)) > Count(p, r[i])
  <2>. DEFINE x == r[i]
  <2>. DEFINE v == x.version
  <2>1. x \in Rules /\ v \in Versions /\ v # "any" /\ x = [body |-> x.body, version |-> v]
    BY <1>2 DEF Rules, Versions
  <2>2. AppliedVersions(x) = {v}
    BY ONLY <2>1 DEF AppliedVersions, AppliesTo, Versions
  <2>3. \A y \in Rules : y.version \in Versions
                           => (AppliesTo(y, v) /\ y.body = x.body <=> y = x)
    <3>. SUFFICES ASSUME NEW y \in Rules, y.version \in Versions
                  PROVE  AppliesTo(y, v) /\ y.body = x.body <=> y = x
      OBVIOUS
    <3>1. y = [body |-> y.body, version |-> y.version] /\ y.version # "any"
      BY DEF Rules, Versions
    <3>2. AppliesTo(y, v) <=> y.version = v
      BY ONLY <3>1 DEF AppliesTo
    <3>. QED  BY ONLY <2>1, <3>1, <3>2
  <2>. HIDE DEF x
  <2>4. Competing(r, i, v) = UpTo(r, i)
    <3>1. \A j \in 1..i : r[j] \in Rules /\ r[j].version \in Versions
      BY ONLY <1>2, <1>5, i \in DOMAIN r
    <3>2. \A j \in 1..i : AppliesTo(r[j], v) /\ r[j].body = x.body <=> r[j] = x
      BY ONLY <2>3, <3>1
    <3>. QED  BY ONLY <3>2 DEF Competing, UpTo, x
  <2>5. Available(posted, x.body, v) = Count(p, x)
    <3>1. \A j \in DOMAIN p : p[j] \in Saying(x.body, v) <=> p[j] \in {x}
      BY ONLY <1>3, <2>3 DEF Saying
    <3>2. Holding(p, Saying(x.body, v)) = Holding(p, {x})
      BY ONLY <3>1 DEF Holding
    <3>3. Tally(p, Saying(x.body, v)) = Tally(p, {x})
      BY ONLY <3>2 DEF Tally
    <3>. QED  BY ONLY <1>4, <2>1, <3>3, CountTallies
  <2>6. Unaccounted(i) <=> ~Accounted(posted, r, i, v)
    BY ONLY <2>2 DEF x
  <2>7. Accounted(posted, r, i, v) <=> Cardinality(UpTo(r, i)) <= Count(p, x)
    BY ONLY <2>4, <2>5 DEF Accounted, x
  <2>8. Cardinality(UpTo(r, i)) \in Nat /\ Count(p, x) \in Nat
    <3>1. UpTo(r, i) \subseteq 1..i /\ i \in Nat
      BY ONLY <1>5, i \in DOMAIN r DEF UpTo
    <3>2. Cardinality(UpTo(r, i)) \in Nat
      BY ONLY <3>1, IndicesCount
    <3>. QED  BY ONLY <1>1, <2>1, <3>2, CountTyped
  <2>. HIDE DEF Unaccounted
  <2>9. Unaccounted(i) <=> Cardinality(UpTo(r, i)) > Count(p, x)
    BY ONLY <2>6, <2>7, <2>8
  <2>. QED  BY ONLY <2>9 DEF x
<1>7. \A i \in DOMAIN r : i \in I <=> i \in Spared(r, p)
  <2>1. \A i \in DOMAIN r : Unaccounted(i) <=> Cardinality(UpTo(r, i)) > Count(p, r[i])
    BY ONLY <1>6
  <2>. HIDE DEF Unaccounted
  <2>. QED  BY ONLY <2>1 DEF Spared
<1>8. InjectedRules(posted, r) = At(r, I)
  BY ONLY DEF InjectedRules
<1>9. RemoveRules(r, p) = At(r, Spared(r, p))
  BY ONLY DEF RemoveRules, Spared, UpTo
<1>. HIDE DEF I
<1>10. At(r, I) = At(r, Spared(r, p))
  BY ONLY <1>7, AtSame
<1>. QED  BY ONLY <1>8, <1>9, <1>10 DEF r, p

LEMMA ExpandedDiffCounts ==
  ASSUME NEW posted \in Seq(Rules), NEW injected \in Seq(Rules), NEW x \in Rules
  PROVE  Count(InjectedRules(posted, Expand(injected \o posted)), x) = Count(Expand(injected), x)
<1>. DEFINE a == Expand(injected)
<1>. DEFINE p == Expand(posted)
<1>1. a \in Seq(Rules) /\ p \in Seq(Rules)
  BY ExpandTyped
<1>2. Expand(injected \o posted) = a \o p
  BY ExpandConcat
<1>3. InjectedRules(posted, Expand(injected \o posted)) = RemoveRules(Expand(injected \o posted), p)
  BY ExpandedDiffRemoves
<1>. HIDE DEF a, p
<1>4. Count(a \o p, x) = Count(a, x) + Count(p, x)
  <2>1. Tally(a \o p, {x}) = Tally(a, {x}) + Tally(p, {x})
    BY ONLY <1>1, TallyConcat
  <2>. QED  BY ONLY <2>1, CountTallies
<1>5. Count(a, x) \in Nat /\ Count(p, x) \in Nat
  BY ONLY <1>1, x \in Rules, CountTyped
<1>6. Count(a \o p, x) >= Count(p, x)
        => Count(RemoveRules(a \o p, p), x) = Count(a \o p, x) - Count(p, x)
  <2>1. a \o p \in Seq(Rules)
    BY <1>1
  <2>. QED  BY ONLY <1>1, <2>1, x \in Rules, RemoveCounts
<1>7. Count(RemoveRules(a \o p, p), x) = Count(a, x)
  BY ONLY <1>4, <1>5, <1>6
<1>. QED  BY ONLY <1>2, <1>3, <1>7 DEF a
=============================================================================
