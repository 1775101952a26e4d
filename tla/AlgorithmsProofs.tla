-------------------------- MODULE AlgorithmsProofs --------------------------
(***************************************************************************)
(* The pure parts of the client, for every width of the integers and every *)
(* setting of the limits, over all the inputs that MCAlgorithms gives.     *)
(***************************************************************************)
EXTENDS MCAlgorithms, ConversionProofs, FirewallRulesProofs

LEMMA SettingsKeepTheirType ==
  ASSUME NEW current \in 1..MaxInt, NEW n \in Int64
  PROVE  /\ WithMaxRetryAfter(current, n) \in 1..MaxInt
         /\ WithMaxResponseBytes(current, n) \in 1..MaxInt
BY LimitsAssumption DEF Int64, WithMaxRetryAfter, WithMaxResponseBytes

LEMMA AppendKeepsType ==
  ASSUME NEW S, NEW s \in Seq(S), NEW e \in S
  PROVE  Append(s, e) \in Seq(S)
OBVIOUS

LEMMA TypeInitially == Init => TypeOK
<1>. SUFFICES ASSUME Init PROVE TypeOK
  OBVIOUS
<1>1. header \in [form : HeaderForms, n : Int64]
  BY LimitsAssumption DEF Init, HeaderForms, Int64
<1>2. size \in 0..MaxInt
  BY LimitsAssumption DEF Init
<1>3. failure \in Failures /\ httpStatus \in HttpStatuses
  BY DEF Init, Failures, HttpStatuses
<1>. QED  BY <1>1, <1>2, <1>3, AlgorithmsAssumption DEF Init, TypeOK

LEMMA TypePreserved == TypeOK /\ [Next]_vars => TypeOK'
<1>. SUFFICES ASSUME TypeOK, [Next]_vars PROVE TypeOK'
  OBVIOUS
<1>. USE DEF TypeOK
<1>1. CASE UNCHANGED vars
  BY <1>1 DEF vars, limitsVars, rulesVars, errorsVars, Wire
<1>2. CASE LimitsStep
  <2>0. UNCHANGED <<subject, rulesVars, resources, errorsVars, given>>
    BY <1>2 DEF LimitsStep
  <2>1. CASE SetMaxRetryAfter
    BY <2>0, <2>1, SettingsKeepTheirType DEF SetMaxRetryAfter, rulesVars, errorsVars, Wire
  <2>2. CASE SetMaxResponseBytes
    BY <2>0, <2>2, SettingsKeepTheirType DEF SetMaxResponseBytes, rulesVars, errorsVars, Wire
  <2>3. CASE AskToWait
    <3>1. header' \in [form : HeaderForms, n : Int64]
      BY <2>3, LimitsAssumption DEF AskToWait, Int64
    <3>2. size' \in 0..MaxInt
      BY <2>3, LimitsAssumption DEF AskToWait
    <3>. QED  BY <2>0, <2>3, <3>1, <3>2 DEF AskToWait, rulesVars, errorsVars, Wire
  <2>4. CASE SendBody
    <3>1. header' \in [form : HeaderForms, n : Int64]
      BY <2>4, LimitsAssumption DEF SendBody, Int64, HeaderForms
    <3>. QED  BY <2>0, <2>4, <3>1 DEF SendBody, rulesVars, errorsVars, Wire
  <2>. QED  BY <1>2, <2>1, <2>2, <2>3, <2>4 DEF LimitsStep
<1>3. CASE RulesStep
  <2>1. posted' \in Seq(Rules) /\ injected' \in Seq(Rules) /\ expands' = expands
    <3>1. CASE StartOver
      BY <3>1 DEF StartOver
    <3>2. ASSUME NEW r \in Rules, Author(r) \/ Inject(r)
          PROVE  posted' \in Seq(Rules) /\ injected' \in Seq(Rules) /\ expands' = expands
      BY <3>2, AppendKeepsType DEF Author, Inject
    <3>. QED  BY <1>3, <3>1, <3>2 DEF RulesStep
  <2>. QED  BY <1>3, <2>1 DEF RulesStep, limitsVars, errorsVars, Wire
<1>4. CASE EnvelopeStep
  <2>1. resources' \in Seq(Resources)
    <3>1. ASSUME NEW r \in Resources, resources' = Append(resources, r)
          PROVE  resources' \in Seq(Resources)
      BY <3>1, AppendKeepsType
    <3>2. <<>> \in Seq(Resources)
      OBVIOUS
    <3>. QED  BY <1>4, <3>1, <3>2 DEF EnvelopeStep
  <2>. QED  BY <1>4, <2>1 DEF EnvelopeStep, limitsVars, rulesVars, errorsVars, Wire
<1>5. CASE ErrorsStep
  BY <1>5 DEF ErrorsStep, limitsVars, rulesVars, Wire
<1>6. CASE ConversionStep
  <2>1. given' = <<>> \/ Wire' \in Wires(subject')
    BY <1>6 DEF ConversionStep, Wire
  <2>. QED  BY <1>6, <2>1 DEF ConversionStep, limitsVars, rulesVars, errorsVars
<1>. QED  BY <1>1, <1>2, <1>3, <1>4, <1>5, <1>6 DEF Next

(* Every variable keeps its type.                                          *)
THEOREM TypeCorrect == Spec => []TypeOK
BY TypeInitially, TypePreserved, PTL DEF Spec

-----------------------------------------------------------------------------
(* The wait is the one the header asks for, clamped to the ceiling, for    *)
(* every width of the duration: nothing wraps.                             *)
THEOREM WaitIsExact == Spec => []WaitIsTheClampedRequest
<1>1. ASSUME TypeOK PROVE WaitIsTheClampedRequest
  <2>0. /\ header.form \in HeaderForms /\ header.n \in Int
        /\ header = [form |-> header.form, n |-> header.n]
        /\ maxRetryAfter \in 1..MaxInt
    BY <1>1, LimitsAssumption DEF TypeOK, Int64
  <2>1. CASE header.form = "seconds" /\ header.n >= 0
    <3>1. RetryAfter(header, maxRetryAfter) = Smaller(header.n * Second, maxRetryAfter)
      BY <2>0, <2>1, SecondsAreClamped
    <3>2. header.n * Second \in Nat
      BY <2>0, <2>1, LimitsAssumption
    <3>. QED  BY <2>0, <2>1, <3>1, <3>2
              DEF WaitIsTheClampedRequest, ExactRequest, Smaller
  <2>2. CASE header.form = "seconds" /\ header.n < 0
    <3>1. header.n * Second <= 0
      BY <2>0, <2>2, LimitsAssumption
    <3>. QED  BY <2>0, <2>2, <3>1
              DEF WaitIsTheClampedRequest, ExactRequest, RetryAfter, Capped, Requested
  <2>3. CASE header.form = "above"
    <3>1. (MaxInt + 1) * Second > MaxInt
      BY LimitsAssumption
    <3>2. RetryAfter(header, maxRetryAfter) = maxRetryAfter
      BY <2>3 DEF RetryAfter, Capped
    <3>3. ExactRequest(header) = (MaxInt + 1) * Second
      BY <2>3 DEF ExactRequest
    <3>4. (MaxInt + 1) * Second \in Int
      BY LimitsAssumption
    <3>. QED  BY <2>0, <3>1, <3>2, <3>3, <3>4, LimitsAssumption
              DEF WaitIsTheClampedRequest, Smaller
  <2>4. CASE header.form \notin {"seconds", "above"}
    BY <2>0, <2>4
       DEF WaitIsTheClampedRequest, ExactRequest, RetryAfter, Capped, Requested, Smaller
  <2>. QED  BY <2>0, <2>1, <2>2, <2>3, <2>4
<1>. QED  BY <1>1, TypeCorrect, PTL

(* A body is read whole or refused, under every limit the options leave.   *)
THEOREM BodyIsWhole == Spec => []BodyIsReadWholeOrRefused
<1>1. ASSUME TypeOK PROVE BodyIsReadWholeOrRefused
  BY <1>1, BodyIsNeverTruncated DEF TypeOK, BodyIsReadWholeOrRefused
<1>. QED  BY <1>1, TypeCorrect, PTL

(* Every decoded error keeps the code and has a status, and a rejection of *)
(* the client and one of the API get the same verdict.                     *)
THEOREM ErrorsKeepTheirCode == Spec => []ErrorsAreActionable
<1>1. ASSUME TypeOK PROVE ErrorsAreActionable
  <2>1. \/ Failed = Panic
        \/ /\ Failed.status = IF failure.status # 0 THEN failure.status ELSE httpStatus
           /\ failure.code \notin {Absent, NullCode, OtherType} => Failed.code = failure.code
    BY <1>1
       DEF TypeOK, Failed, Failures, ErrorFromResponse, Panic, Error, ErrorKept, DecodeCode,
           HttpStatuses, Codes, NullCode, OtherType, Absent, Unknown, NoCode
  <2>. QED  BY <2>1 DEF ErrorsAreActionable, IsUnauthorizedError, CredentialsError,
                        IsFirewallRuleLimitExceededError, RuleLimitError
<1>. QED  BY <1>1, TypeCorrect, PTL

-----------------------------------------------------------------------------
(***************************************************************************)
(* The rule that decides about a packet and the first body of the          *)
(* projection that matches it are the same, by induction over the ruleset: *)
(* the projection keeps the rules of the version, all of them, in order.   *)
(***************************************************************************)
LEMMA FirstStays ==
  ASSUME NEW T, NEW s \in Seq(T), NEW e \in T, NEW M, NEW i, IsFirst(s, M, i)
  PROVE  IsFirst(Append(s, e), M, i) /\ Append(s, e)[i] = s[i]
BY DEF IsFirst

LEMMA FirstComes ==
  ASSUME NEW T, NEW s \in Seq(T), NEW e \in T, NEW M,
         ~ \E j \in DOMAIN s : s[j] \in M
  PROVE  /\ e \in M => IsFirst(Append(s, e), M, Len(s) + 1) /\ Append(s, e)[Len(s) + 1] = e
         /\ e \notin M => ~ \E j \in DOMAIN Append(s, e) : Append(s, e)[j] \in M
BY DEF IsFirst

LEMMA FirstIsUnique ==
  ASSUME NEW T, NEW s \in Seq(T), NEW M, NEW i, NEW j, IsFirst(s, M, i), IsFirst(s, M, j)
  PROVE  i = j
BY DEF IsFirst

AgreeOn(rules, bodies, M, B) ==
  \/ /\ ~ \E i \in DOMAIN rules : rules[i] \in M
     /\ ~ \E k \in DOMAIN bodies : bodies[k] \in B
  \/ \E i \in DOMAIN rules, k \in DOMAIN bodies :
       IsFirst(rules, M, i) /\ IsFirst(bodies, B, k) /\ rules[i].body = bodies[k]

LEMMA RulesAgree ==
  ASSUME NEW v \in Versions, NEW kind
  PROVE  \A s \in Seq(Rules) :
           AgreeOn(s, ProjectRules(s, v), Matching(v, kind), {kind, "all"})
<1>. DEFINE M == Matching(v, kind)
            B == {kind, "all"}
            S == {s \in Seq(Rules) : AgreeOn(s, ProjectRules(s, v), M, B)}
<1>1. <<>> \in S
  BY ProjectEmpty, EmptySeq DEF AgreeOn
<1>2. ASSUME NEW s \in Seq(Rules), NEW r \in Rules, s \in S PROVE Append(s, r) \in S
  <2>. DEFINE p == ProjectRules(s, v)
  <2>1. p \in Seq(Bodies) /\ r.body \in Bodies /\ Append(s, r) \in Seq(Rules)
    <3>1. r.body \in Bodies
      BY DEF Rules
    <3>. QED  BY <3>1, ProjectTyped, AppendKeepsType
  <2>2. ProjectRules(Append(s, r), v) = p \o Kept(r, v)
    BY ProjectAppend
  <2>3. r \in M <=> AppliesTo(r, v) /\ r.body \in B
    <3>1. r = [body |-> r.body, version |-> r.version]
      BY DEF Rules
    <3>2. [body |-> r.body, version |-> r.version] \in M
            <=> r.body \in B /\ r.version \in {v, "any"}
      BY DEF Matching
    <3>. QED  BY <3>1, <3>2 DEF AppliesTo
  <2>4. AgreeOn(s, p, M, B)
    BY <1>2
  <2>5. CASE ~AppliesTo(r, v)
    <3>1. ProjectRules(Append(s, r), v) = p
      BY <2>1, <2>2, <2>5, ConcatEmptySeq DEF Kept
    <3>. HIDE DEF M, B, p
    <3>2. AgreeOn(Append(s, r), p, M, B)
      <4>1. CASE \E i \in DOMAIN s, k \in DOMAIN p :
                   IsFirst(s, M, i) /\ IsFirst(p, B, k) /\ s[i].body = p[k]
        BY <4>1, FirstStays DEF AgreeOn, IsFirst
      <4>2. CASE /\ ~ \E i \in DOMAIN s : s[i] \in M
                 /\ ~ \E k \in DOMAIN p : p[k] \in B
        BY <2>3, <2>5, <4>2, FirstComes DEF AgreeOn
      <4>. QED  BY <2>4, <4>1, <4>2 DEF AgreeOn
    <3>. QED  BY <2>1, <3>1, <3>2 DEF M, B
  <2>6. CASE AppliesTo(r, v)
    <3>1. ProjectRules(Append(s, r), v) = Append(p, r.body)
      <4>1. p \o <<r.body>> = Append(p, r.body)
        <5>. HIDE DEF p
        <5>. QED  BY <2>1
      <4>. QED  BY <2>2, <2>6, <4>1 DEF Kept
    <3>. HIDE DEF M, B, p
    <3>2. AgreeOn(Append(s, r), Append(p, r.body), M, B)
      <4>1. CASE \E i \in DOMAIN s, k \in DOMAIN p :
                   IsFirst(s, M, i) /\ IsFirst(p, B, k) /\ s[i].body = p[k]
        BY <2>1, <4>1, FirstStays DEF AgreeOn, IsFirst
      <4>2. CASE /\ ~ \E i \in DOMAIN s : s[i] \in M
                 /\ ~ \E k \in DOMAIN p : p[k] \in B
        <5>1. CASE r.body \in B
          <6>1. /\ IsFirst(Append(s, r), M, Len(s) + 1)
                /\ Append(s, r)[Len(s) + 1] = r
            BY <2>3, <2>6, <4>2, <5>1, FirstComes
          <6>2. /\ IsFirst(Append(p, r.body), B, Len(p) + 1)
                /\ Append(p, r.body)[Len(p) + 1] = r.body
            BY <2>1, <4>2, <5>1, FirstComes
          <6>. QED  BY <6>1, <6>2 DEF AgreeOn, IsFirst
        <5>2. CASE r.body \notin B
          BY <2>1, <2>3, <4>2, <5>2, FirstComes DEF AgreeOn
        <5>. QED  BY <5>1, <5>2
      <4>. QED  BY <2>4, <4>1, <4>2 DEF AgreeOn
    <3>. QED  BY <2>1, <3>1, <3>2 DEF M, B
  <2>. QED  BY <2>5, <2>6
<1>. QED
  <2>. HIDE DEF S
  <2>1. Seq(Rules) \subseteq S
    BY <1>1, <1>2, SequenceInduction
  <2>. QED  BY <2>1 DEF S

LEMMA DecisionIsOfTheFirst ==
  ASSUME NEW s \in Seq(Rules), NEW v, NEW kind, NEW i, IsFirst(s, Matching(v, kind), i)
  PROVE  Decision(s, v, kind) = s[i].body
<1>. DEFINE first == CHOOSE j \in DOMAIN s : IsFirst(s, Matching(v, kind), j)
<1>1. i \in DOMAIN s /\ s[i] \in Matching(v, kind)
  BY DEF IsFirst
<1>2. IsFirst(s, Matching(v, kind), first)
  BY <1>1
<1>3. first = i
  BY <1>2, FirstIsUnique
<1>. QED  BY <1>1, <1>3 DEF Decision

(* Rulesets that Equivalent takes for the same treat every packet alike,   *)
(* whatever their lengths: their first matching rules, which are at other  *)
(* places and of other versions, say the same.                             *)
THEOREM EquivalenceIsSound == Spec => []EquivalentFiltersAlike
<1>1. TypeOK => EquivalentFiltersAlike
  <2>. SUFFICES ASSUME TypeOK, RulesEquivalent(posted, injected),
                       NEW v \in Versions, NEW kind \in Bodies
                PROVE  Decision(posted, v, kind) = Decision(injected, v, kind)
    BY DEF EquivalentFiltersAlike
  <2>. DEFINE M == Matching(v, kind)
              B == {kind, "all"}
              p == ProjectRules(posted, v)
  <2>1. posted \in Seq(Rules) /\ injected \in Seq(Rules)
    BY DEF TypeOK
  <2>2. p = ProjectRules(injected, v) /\ p \in Seq(Bodies)
    BY <2>1, ProjectTyped DEF RulesEquivalent
  <2>3. AgreeOn(posted, p, M, B) /\ AgreeOn(injected, p, M, B)
    BY <2>1, <2>2, RulesAgree
  <2>4. CASE ~ \E k \in DOMAIN p : p[k] \in B
    <3>1. /\ ~ \E i \in DOMAIN posted : posted[i] \in M
          /\ ~ \E i \in DOMAIN injected : injected[i] \in M
      <4>. HIDE DEF M, B, p
      <4>. QED  BY <2>3, <2>4 DEF AgreeOn, IsFirst
    <3>. QED  BY <3>1 DEF Decision
  <2>5. CASE \E k \in DOMAIN p : p[k] \in B
    <3>. HIDE DEF M, B, p
    <3>1. PICK i \in DOMAIN posted, k \in DOMAIN p :
             IsFirst(posted, M, i) /\ IsFirst(p, B, k) /\ posted[i].body = p[k]
      BY <2>3, <2>5 DEF AgreeOn
    <3>2. PICK j \in DOMAIN injected, l \in DOMAIN p :
             IsFirst(injected, M, j) /\ IsFirst(p, B, l) /\ injected[j].body = p[l]
      BY <2>3, <2>5 DEF AgreeOn
    <3>3. k = l
      BY <2>2, <3>1, <3>2, FirstIsUnique
    <3>4. /\ Decision(posted, v, kind) = posted[i].body
          /\ Decision(injected, v, kind) = injected[j].body
      BY <2>1, <3>1, <3>2, DecisionIsOfTheFirst DEF M
    <3>. QED  BY <3>1, <3>2, <3>3, <3>4
  <2>. QED  BY <2>4, <2>5
<1>. QED  BY <1>1, TypeCorrect, PTL

(* What the API stores, expanded or not, filters as what was posted.       *)
THEOREM Normalization == Spec => []NormalizationIsEquivalent
<1>1. TypeOK => NormalizationIsEquivalent
  BY NormalizeKeeps DEF TypeOK, NormalizationIsEquivalent
<1>. QED  BY <1>1, TypeCorrect, PTL

LEMMA BodiesApart ==
  ASSUME BodiesOf(posted) \cap BodiesOf(injected) = {}
  PROVE  \A b : ~(AppearsIn(posted, b) /\ AppearsIn(injected, b))
BY DEF BodiesOf, AppearsIn

(* With no body in common, ServerInjectedRules returns the injected rules  *)
(* and nothing else, in order, for rulesets of any length.                 *)
THEOREM DiffFinds == Spec => []DiffIsExact
<1>1. TypeOK => DiffIsExact
  <2>. SUFFICES ASSUME TypeOK, BodiesOf(posted) \cap BodiesOf(injected) = {}
                PROVE  Found = Normalize(injected, expands)
    BY DEF DiffIsExact
  <2>1. posted \in Seq(Rules) /\ injected \in Seq(Rules) /\ expands \in BOOLEAN
    BY DEF TypeOK
  <2>2. \A b : ~(AppearsIn(posted, b) /\ AppearsIn(injected, b))
    BY BodiesApart
  <2>. QED  BY ONLY <2>1, <2>2, DiffFindsInjected DEF Found, Returned
<1>. QED  BY <1>1, TypeCorrect, PTL

(* A reconcile loop converges: without what ServerInjectedRules found,     *)
(* what Get returns is equivalent to what was posted.  It does whenever    *)
(* each rule is found as often as it was injected, which holds of every    *)
(* pair of rulesets once they are expanded, and otherwise of those with no *)
(* body in common.                                                         *)
THEOREM Convergence == Spec => []ReconcileConvergesIfSeparable
<1>1. TypeOK => ReconcileConvergesIfSeparable
  <2>. SUFFICES ASSUME TypeOK, expands \/ BodiesOf(posted) \cap BodiesOf(injected) = {}
                PROVE  RulesEquivalent(RemoveRules(Returned, Found), posted)
    BY DEF ReconcileConvergesIfSeparable, ReconcileConverges
  <2>1. posted \in Seq(Rules) /\ injected \in Seq(Rules) /\ expands \in BOOLEAN
    BY DEF TypeOK
  <2>2. \A x \in Rules : Count(Found, x) = Count(Normalize(injected, expands), x)
    <3>1. CASE expands
      <4>1. \A x \in Rules : Count(InjectedRules(posted, Expand(injected \o posted)), x)
                               = Count(Expand(injected), x)
        BY ONLY <2>1, ExpandedDiffCounts
      <4>. QED  BY ONLY <3>1, <4>1 DEF Found, Returned, Normalize
    <3>2. CASE BodiesOf(posted) \cap BodiesOf(injected) = {}
      <4>1. \A b : ~(AppearsIn(posted, b) /\ AppearsIn(injected, b))
        BY <3>2, BodiesApart
      <4>. QED  BY ONLY <2>1, <4>1, DiffFindsInjected DEF Found, Returned
    <3>. QED  BY <3>1, <3>2
  <2>. QED  BY ONLY <2>1, <2>2, FoundIsRemoved DEF Returned
<1>. QED  BY <1>1, TypeCorrect, PTL

-----------------------------------------------------------------------------
(* The nanoseconds of a delay below the threshold fit.                     *)
LEMMA DelaysFit ==
  ASSUME NEW n \in 0..Threshold, n < Threshold
  PROVE  Wrap(n * Second) = n * Second
<1>1. n * Second <= Threshold * Second /\ n * Second \in Nat
  BY LimitsAssumption, DecodersAssumption
<1>. QED  BY <1>1, WrapInRange, LimitsAssumption, DecodersAssumption

LEMMA MomentsAgree ==
  ASSUME NEW now \in Nat, now >= Threshold, NEW n \in 0..Threshold, n < Threshold
  PROVE  RateLimitReset(n, now) = RateLimitReset(now + n, now)
<1>1. RateLimitReset(n, now) = now * Second + n * Second
  BY DelaysFit DEF RateLimitReset
<1>2. RateLimitReset(now + n, now) = (now + n) * Second
  BY DecodersAssumption DEF RateLimitReset
<1>. QED  BY <1>1, <1>2, LimitsAssumption

(* A delay and a time name the same moment, for every delay below the      *)
(* threshold (updateRateLimit).                                            *)
THEOREM ResetsAgree == Spec => []ResetMeansTheSame
<1>1. ASSUME TypeOK PROVE ResetMeansTheSame
  <2>. SUFFICES ASSUME Is("resets"), Wire < Threshold, NEW now \in Threshold..Now
                PROVE  RateLimitReset(Wire, now) = RateLimitReset(now + Wire, now)
    BY DEF ResetMeansTheSame
  <2>1. Wire \in 0..MaxInt
    BY <1>1 DEF TypeOK, Is, Wires
  <2>. QED  BY <2>1, MomentsAgree, LimitsAssumption, DecodersAssumption
<1>. QED  BY <1>1, TypeCorrect, PTL

-----------------------------------------------------------------------------
(* What a scalar of JSON is.                                               *)
LEMMA TextsAreTyped ==
  ASSUME NEW t \in Texts
  PROVE  t.n \in Int /\ t = Text(t.form, t.n, t.unit)
<1>1. CASE t \in [form : {"number"}, n : -2..20 \cup {2 * MaxUint, 2 * MaxUint + 2}, unit : {0}]
  BY <1>1, DecodersAssumption DEF Text
<1>2. CASE t \in [form : {"size"}, n : SmallNumbers \cup NearMax, unit : 0..4]
  BY <1>2, DecodersAssumption DEF Text, SmallNumbers, NearMax
<1>3. CASE t \in [form : {"unlimited", "word", "empty"}, n : {0}, unit : {0}]
  BY <1>3 DEF Text
<1>. QED  BY <1>1, <1>2, <1>3 DEF Texts

LEMMA ScalarsAreTyped ==
  ASSUME NEW w \in Scalars
  PROVE  /\ w.text.n \in Int
         /\ w.text = Text(w.text.form, w.text.n, w.text.unit)
<1>1. w.text \in Texts \/ w.text = Empty
  BY DEF Scalars
<1>. QED  BY <1>1, TextsAreTyped DEF Empty, Text

(* Traffic that is encoded as a number of bytes is decoded to it.          *)
LEMMA BytesAreStable ==
  ASSUME NEW bytes \in 0..MaxUint
  PROVE  UnmarshalTrafficSize(NoTraffic, MarshalTrafficSize(Traffic(bytes)))
           = Decoded(Traffic(bytes))
<1>1. MarshalTrafficSize(Traffic(bytes)) = Number(bytes)
  BY DEF MarshalTrafficSize, Traffic
<1>2. /\ Number(bytes).type = "number" /\ Number(bytes).text.n = 2 * bytes
      /\ Number(bytes).text.form = "number"
  BY DEF Number, NumberText, Text
<1>3. IsWhole(Number(bytes).text) /\ (2 * bytes) \div 2 = bytes /\ 2 * bytes <= 2 * MaxUint
  BY <1>2, DecodersAssumption DEF IsWhole
<1>4. UnmarshalTrafficSize(NoTraffic, Number(bytes))
        = Decoded(Traffic(Number(bytes).text.n \div 2))
  BY <1>2, <1>3 DEF UnmarshalTrafficSize
<1>. QED  BY <1>1, <1>2, <1>3, <1>4

LEMMA TrafficIsStable ==
  ASSUME NEW w \in Scalars, UnmarshalTrafficSize(NoTraffic, w).ok
  PROVE  UnmarshalTrafficSize(NoTraffic,
           MarshalTrafficSize(UnmarshalTrafficSize(NoTraffic, w).value))
             = UnmarshalTrafficSize(NoTraffic, w)
<1>. DEFINE v == UnmarshalTrafficSize(NoTraffic, w)
<1>0. /\ NoTraffic = Traffic(0) /\ 0 \in 0..MaxUint
      /\ \A x : Decoded(x).value = x
  BY DecodersAssumption DEF NoTraffic, Decoded
<1>n. ASSUME v = Decoded(NoTraffic)
      PROVE  UnmarshalTrafficSize(NoTraffic, MarshalTrafficSize(v.value)) = v
  <2>1. v.value = NoTraffic
    BY <1>0, <1>n
  <2>2. UnmarshalTrafficSize(NoTraffic, MarshalTrafficSize(NoTraffic)) = Decoded(NoTraffic)
    BY <1>0, BytesAreStable
  <2>. QED  BY <1>n, <2>1, <2>2
<1>1. CASE w.type = "null"
  <2>1. v = Decoded(NoTraffic)
    BY <1>1 DEF UnmarshalTrafficSize
  <2>. QED  BY <1>n, <2>1
<1>. DEFINE s == [unlimited |-> w.text.form = "unlimited", bytes |-> TrafficBytes(w.text),
                  raw |-> w.text]
<1>s. ASSUME w.type = "string" PROVE v = Decoded(s) /\ v.value = s
  BY <1>0, <1>s DEF UnmarshalTrafficSize
<1>2. CASE w.type = "string" /\ w.text # Empty
  <2>1. MarshalTrafficSize(s) = String(w.text)
    BY <1>2 DEF MarshalTrafficSize
  <2>2. String(w.text).type = "string" /\ String(w.text).text = w.text
    BY DEF String
  <2>3. UnmarshalTrafficSize(NoTraffic, String(w.text)) = Decoded(s)
    BY <2>2 DEF UnmarshalTrafficSize
  <2>. QED  BY <1>2, <1>s, <2>1, <2>3
<1>3. CASE w.type = "string" /\ w.text = Empty
  <2>1. w.text.form = "empty"
    BY <1>3 DEF Empty, Text
  <2>2. TrafficBytes(w.text) = 0 /\ (w.text.form = "unlimited") = FALSE
    BY <2>1 DEF TrafficBytes, IsWhole
  <2>3. s = NoTraffic
    BY <1>3, <2>2 DEF NoTraffic, Traffic
  <2>. QED  BY <1>n, <1>s, <1>3, <2>3
<1>4. CASE w.type = "number" /\ IsWhole(w.text) /\ w.text.n <= 2 * MaxUint
  <2>. DEFINE b == w.text.n \div 2
  <2>1. b \in 0..MaxUint
    BY <1>4, ScalarsAreTyped, DecodersAssumption DEF IsWhole
  <2>2. v = Decoded(Traffic(b))
    BY <1>4 DEF UnmarshalTrafficSize
  <2>3. UnmarshalTrafficSize(NoTraffic, MarshalTrafficSize(Traffic(b))) = Decoded(Traffic(b))
    BY <2>1, BytesAreStable
  <2>4. v.value = Traffic(b)
    BY <1>0, <2>2
  <2>. QED  BY <2>2, <2>3, <2>4
<1>5. CASE /\ w.type # "null" /\ w.type # "string"
           /\ ~(w.type = "number" /\ IsWhole(w.text) /\ w.text.n <= 2 * MaxUint)
  <2>1. v = Undecoded(NoTraffic)
    BY <1>5 DEF UnmarshalTrafficSize
  <2>. QED  BY <2>1 DEF Undecoded
<1>. QED  BY <1>1, <1>2, <1>3, <1>4, <1>5

LEMMA PriceIsStable ==
  ASSUME NEW n \in Int, n % 2 = 0, NEW json \in MarshalStringFloat(n)
  PROVE  UnmarshalStringFloat(0, json) = Decoded(n)
<1>1. PICK m \in n-1..n+1 : m % 2 = 0 /\ json = String(Text("number", m, 0))
  BY DEF MarshalStringFloat
<1>2. m = n
  BY <1>1
<1>3. json.type = "string" /\ json.text.form = "number" /\ json.text.n = n
  BY <1>1, <1>2 DEF String, Text
<1>4. json # String(Empty)
  BY <1>3 DEF String, Empty, Text
<1>. QED  BY <1>3, <1>4 DEF UnmarshalStringFloat

(* Traffic and prices survive being written and read again.                *)
THEOREM Reencoding == Spec => []ReencodingIsStable
<1>1. ASSUME TypeOK PROVE ReencodingIsStable
  <2>. SUFFICES ASSUME Is("scalars") PROVE ReencodingIsStable
    BY DEF ReencodingIsStable
  <2>1. Wire \in Scalars
    BY <1>1 DEF TypeOK, Is, Wires
  <2>. DEFINE price == UnmarshalStringFloat(0, Wire)
  <2>2. ASSUME price.ok, price.value % 2 = 0, NEW json \in MarshalStringFloat(price.value)
        PROVE  UnmarshalStringFloat(0, json) = price
    <3>1. price \in {Decoded(Wire.text.n), Decoded(0), Undecoded(0)}
      BY DEF UnmarshalStringFloat
    <3>2. \A x : Decoded(x).value = x /\ ~Undecoded(x).ok
      BY DEF Decoded, Undecoded
    <3>3. PICK n \in Int : price = Decoded(n)
      BY <2>1, <2>2, <3>1, <3>2, ScalarsAreTyped
    <3>4. price.value = n
      BY <3>2, <3>3
    <3>. QED  BY <2>2, <3>3, <3>4, PriceIsStable
  <2>. QED  BY <2>1, <2>2, TrafficIsStable DEF ReencodingIsStable
<1>. QED  BY <1>1, TypeCorrect, PTL

-----------------------------------------------------------------------------
(***************************************************************************)
(* Envelopes.                                                              *)
(***************************************************************************)
LEMMA ResourcesAreComposite ==
  ASSUME NEW r \in Resources
  PROVE  /\ Composite(r)
         /\ r.type = "object" => DOMAIN r.fields \subseteq Keys
BY DEF Resources, Objects, Object, Array, Composite

LEMMA EnvelopeOpens ==
  ASSUME NEW r \in Resources, NEW k
  PROVE  /\ IsWrapper(Enveloped(k, r)) /\ Inner(Enveloped(k, r)) = r
         /\ OnlyKey(Enveloped(k, r)) = k /\ DOMAIN Enveloped(k, r).fields = {k}
         /\ Enveloped(k, r).type = "object"
<1>. DEFINE e == Enveloped(k, r)
<1>1. e.type = "object" /\ e.fields = [x \in {k} |-> r]
  BY DEF Enveloped, Object
<1>2. DOMAIN e.fields = {k} /\ e.fields[k] = r
  BY <1>1
<1>. HIDE DEF e
<1>3. OnlyKey(e) = k
  BY ONLY <1>2 DEF OnlyKey
<1>4. Inner(e) = r
  BY ONLY <1>2, <1>3 DEF Inner
<1>5. Cardinality(DOMAIN e.fields) = 1
  BY ONLY <1>2, FS_Singleton
<1>6. IsWrapper(e)
  BY <1>1, <1>4, <1>5, ResourcesAreComposite DEF IsWrapper, HasOneField
<1>. QED  BY <1>1, <1>2, <1>3, <1>4, <1>6 DEF e

LEMMA ResourceIsTaken ==
  ASSUME NEW r \in Resources, NEW k, k # "id"
  PROVE  Unwrap(Enveloped(k, r)) = r
<1>1. /\ IsWrapper(Enveloped(k, r)) /\ Inner(Enveloped(k, r)) = r
      /\ DOMAIN Enveloped(k, r).fields = {k} /\ Enveloped(k, r).type = "object"
  BY EnvelopeOpens
<1>2. Unwrap(Enveloped(k, r)) = UnwrapObject(Enveloped(k, r))
  BY <1>1 DEF Unwrap
<1>. QED  BY <1>1, <1>2 DEF UnwrapObject

LEMMA ListIsTaken ==
  ASSUME NEW s \in Seq(Resources), NEW k
  PROVE  Unwrap(AllEnveloped(k, s)) = Array(s)
<1>. DEFINE items == [i \in DOMAIN s |-> Enveloped(k, s[i])]
<1>1. DOMAIN s = 1..Len(s) /\ Len(s) \in Nat /\ \A i \in DOMAIN s : s[i] \in Resources
  BY LenProperties, ElementOfSeq
<1>2. s = [i \in DOMAIN s |-> s[i]]
  OBVIOUS
<1>3. \A i \in DOMAIN s : /\ IsWrapper(Enveloped(k, s[i])) /\ Inner(Enveloped(k, s[i])) = s[i]
                          /\ OnlyKey(Enveloped(k, s[i])) = k
  BY <1>1, EnvelopeOpens
<1>4. DOMAIN items = DOMAIN s /\ \A i \in DOMAIN s : items[i] = Enveloped(k, s[i])
  OBVIOUS
<1>5. AllEnveloped(k, s) = Array(items)
  BY DEF AllEnveloped
<1>6. Array(items).type = "array" /\ Array(items).items = items
  BY DEF Array
<1>. HIDE DEF items
<1>7. WrappedList(items)
  BY ONLY <1>3, <1>4 DEF WrappedList
<1>8. [i \in DOMAIN items |-> Inner(items[i])] = s
  BY ONLY <1>2, <1>3, <1>4
<1>9. CASE items # <<>>
  BY ONLY <1>5, <1>6, <1>7, <1>8, <1>9 DEF Unwrap, UnwrapArray
<1>10. CASE items = <<>>
  <2>1. Len(s) = 0
    <3>1. DOMAIN items = {}
      BY ONLY <1>10
    <3>. QED  BY ONLY <1>1, <1>4, <3>1
  <2>2. s = <<>>
    BY <2>1, EmptySeq
  <2>3. Unwrap(Array(items)) = Array(items)
    BY ONLY <1>6, <1>10 DEF Unwrap, UnwrapArray
  <2>. QED  BY ONLY <1>5, <1>10, <2>2, <2>3
<1>. QED  BY ONLY <1>9, <1>10

(* One envelope is taken off and nothing else is, of a resource and of     *)
(* lists of any length.                                                    *)
THEOREM EnvelopesAlone == Spec => []EnvelopeAloneIsTaken
<1>1. ASSUME TypeOK PROVE EnvelopeAloneIsTaken
  <2>0. resources \in Seq(Resources) /\ \A i \in DOMAIN resources : resources[i] \in Resources
    <3>1. resources \in Seq(Resources)
      BY <1>1 DEF TypeOK
    <3>. QED  BY <3>1, LenProperties, ElementOfSeq
  <2>1. ASSUME NEW k \in Keys \ {"id"}
        PROVE  /\ \A i \in DOMAIN resources : Unwrap(Enveloped(k, resources[i])) = resources[i]
               /\ Unwrap(AllEnveloped(k, resources)) = Array(resources)
    BY <2>0, <2>1, ResourceIsTaken, ListIsTaken
  <2>2. ASSUME NEW i \in DOMAIN resources, resources[i].type = "object",
               \/ "id" \in DOMAIN resources[i].fields
               \/ Cardinality(DOMAIN resources[i].fields) # 1
        PROVE  Unwrap(resources[i]) = resources[i]
    BY ONLY <2>2 DEF Unwrap, UnwrapObject, IsWrapper, HasOneField
  <2>3. ASSUME NEW i \in DOMAIN resources, NEW j \in DOMAIN resources,
               resources[i].type = "object", resources[j].type = "object",
               DOMAIN resources[i].fields # DOMAIN resources[j].fields
        PROVE  Unwrap(Array(resources)) = Array(resources)
    <3>1. ASSUME WrappedList(resources) PROVE FALSE
      <4>1. /\ IsWrapper(resources[i]) /\ IsWrapper(resources[j])
            /\ OnlyKey(resources[i]) = OnlyKey(resources[j])
        BY ONLY <3>1, i \in DOMAIN resources, j \in DOMAIN resources DEF WrappedList
      <4>2. \A r \in Resources : r.type = "object" /\ IsWrapper(r) => DOMAIN r.fields = {OnlyKey(r)}
        <5>. SUFFICES ASSUME NEW r \in Resources, r.type = "object", IsWrapper(r)
                      PROVE  DOMAIN r.fields = {OnlyKey(r)}
          OBVIOUS
        <5>1. Cardinality(DOMAIN r.fields) = 1
          BY DEF IsWrapper, HasOneField
        <5>2. IsFiniteSet(DOMAIN r.fields)
          <6>1. IsFiniteSet(Keys)
            <7>1. Keys = ({"id"} \cup {"ip"}) \cup {"rules"}
              BY DEF Keys
            <7>2. IsFiniteSet({"id"}) /\ IsFiniteSet({"id"} \cup {"ip"})
              BY ONLY FS_Singleton, FS_AddElement
            <7>. QED  BY ONLY <7>1, <7>2, FS_AddElement
          <6>. QED  BY <6>1, ResourcesAreComposite, FS_Subset
        <5>3. PICK x : DOMAIN r.fields = {x}
          BY ONLY <5>1, <5>2, FS_Singleton
        <5>. QED  BY ONLY <5>3 DEF OnlyKey
      <4>. QED  BY ONLY <2>0, <2>3, <4>1, <4>2
    <3>2. Array(resources).type = "array" /\ Array(resources).items = resources
      BY DEF Array
    <3>. QED  BY ONLY <3>1, <3>2 DEF Unwrap, UnwrapArray
  <2>. QED  BY ONLY <2>1, <2>2, <2>3 DEF EnvelopeAloneIsTaken
<1>. QED  BY <1>1, TypeCorrect, PTL

-----------------------------------------------------------------------------
(* The decoders give the same for the same meaning, whatever was in the    *)
(* receiver and whichever of the encodings the API chose.                  *)
LEMMA TypesOfScalars ==
  ASSUME NEW w \in Scalars, w.type = "number"
  PROVE  w.text.form = "number"
BY DEF Scalars, String, Null, Empty, Text

LEMMA NumbersQuoted ==
  ASSUME NEW w \in Scalars, w.type = "number"
  PROVE  /\ UnmarshalTrafficSize(NoTraffic, w).ok =>
              UnmarshalTrafficSize(NoTraffic, w).value.bytes
                = UnmarshalTrafficSize(NoTraffic, String(w.text)).value.bytes
         /\ UnmarshalStringFloat(0, w) = UnmarshalStringFloat(0, String(w.text))
         /\ UnmarshalFlexibleID(Empty, w) = UnmarshalFlexibleID(Empty, String(w.text))
<1>0. w.text.form = "number"
  BY TypesOfScalars
<1>1. String(w.text).type = "string" /\ String(w.text).text = w.text
  BY DEF String
<1>2. UnmarshalStringFloat(0, w) = UnmarshalStringFloat(0, String(w.text))
  <2>1. String(Empty).type = "string" /\ String(Empty).text.form = "empty"
    BY DEF String, Empty, Text
  <2>2. w # String(Empty) /\ String(w.text) # String(Empty)
    BY ONLY w.type = "number", <1>0, <1>1, <2>1
  <2>3. UnmarshalStringFloat(0, w) = Decoded(w.text.n)
    BY ONLY w.type = "number", <1>0, <2>2 DEF UnmarshalStringFloat
  <2>4. UnmarshalStringFloat(0, String(w.text)) = Decoded(w.text.n)
    BY ONLY <1>0, <1>1, <2>2 DEF UnmarshalStringFloat
  <2>. QED  BY ONLY <2>3, <2>4
<1>3. UnmarshalFlexibleID(Empty, w) = UnmarshalFlexibleID(Empty, String(w.text))
  BY ONLY w.type = "number", <1>1 DEF UnmarshalFlexibleID
<1>4. ASSUME UnmarshalTrafficSize(NoTraffic, w).ok
      PROVE  UnmarshalTrafficSize(NoTraffic, w).value.bytes
               = UnmarshalTrafficSize(NoTraffic, String(w.text)).value.bytes
  <2>1. IsWhole(w.text) /\ w.text.n <= 2 * MaxUint
    BY ONLY w.type = "number", <1>4 DEF UnmarshalTrafficSize, Undecoded
  <2>2. UnmarshalTrafficSize(NoTraffic, w).value.bytes = w.text.n \div 2
    BY ONLY w.type = "number", <2>1 DEF UnmarshalTrafficSize, Decoded, Traffic
  <2>3. TrafficBytes(w.text) = w.text.n \div 2
    BY ONLY <1>0, <2>1 DEF TrafficBytes
  <2>4. UnmarshalTrafficSize(NoTraffic, String(w.text)).value.bytes = TrafficBytes(w.text)
    BY ONLY <1>1 DEF UnmarshalTrafficSize, Decoded
  <2>. QED  BY ONLY <2>2, <2>3, <2>4
<1>. QED  BY ONLY <1>2, <1>3, <1>4

LEMMA WordsListed ==
  ASSUME NEW w, w.type = "string"
  PROVE  UnmarshalReset(<<>>, w) = UnmarshalReset(<<>>, List(<<w>>))
<1>. DEFINE l == List(<<w>>)
<1>1. l.type = "array" /\ l.items = <<w>>
  BY DEF List
<1>. HIDE DEF l
<1>2. /\ \A i \in DOMAIN l.items : l.items[i].type \in {"string", "null"}
      /\ [i \in DOMAIN l.items |-> l.items[i].text] = <<w.text>>
  BY ONLY <1>1, w.type = "string"
<1>3. UnmarshalReset(<<>>, l) = Decoded(<<w.text>>)
  BY ONLY <1>1, <1>2 DEF UnmarshalReset
<1>4. UnmarshalReset(<<>>, w) = Decoded(<<w.text>>)
  BY ONLY w.type = "string" DEF UnmarshalReset
<1>. QED  BY ONLY <1>3, <1>4 DEF l

(* What is decoded is decided by what the answer means: the receiver and   *)
(* the choice of encoding leave no trace.                                  *)
THEOREM MeaningDecides == Spec => []DecodingDependsOnTheMeaning
<1>1. ASSUME TypeOK PROVE DecodingDependsOnTheMeaning
  <2>1. Is("scalars") => Wire \in Scalars
    BY <1>1 DEF TypeOK, Is, Wires
  <2>2. /\ \A p, q \in Priors : UnmarshalTrafficSize(p, Wire) = UnmarshalTrafficSize(q, Wire)
        /\ UnmarshalStringFloat(1, Wire) = UnmarshalStringFloat(0, Wire)
        /\ UnmarshalFlexibleID(Empty, Wire) = UnmarshalFlexibleID(NumberText(1), Wire)
    BY DEF UnmarshalTrafficSize, UnmarshalStringFloat, UnmarshalFlexibleID
  <2>3. UnmarshalReset(<<>>, Wire).ok => UnmarshalReset(<<>>, Wire) = UnmarshalReset(<<Empty>>, Wire)
    BY DEF UnmarshalReset, Undecoded
  <2>4. Is("scalars") /\ Wire.type = "number" =>
          LET quoted == String(Wire.text) IN
            /\ UnmarshalTrafficSize(NoTraffic, Wire).ok =>
                 UnmarshalTrafficSize(NoTraffic, Wire).value.bytes
                   = UnmarshalTrafficSize(NoTraffic, quoted).value.bytes
            /\ UnmarshalStringFloat(0, Wire) = UnmarshalStringFloat(0, quoted)
            /\ UnmarshalFlexibleID(Empty, Wire) = UnmarshalFlexibleID(Empty, quoted)
    BY ONLY <2>1, NumbersQuoted
  <2>5. Wire.type = "string" => UnmarshalReset(<<>>, Wire) = UnmarshalReset(<<>>, List(<<Wire>>))
    BY WordsListed
  <2>. QED  BY ONLY <2>2, <2>3, <2>4, <2>5 DEF DecodingDependsOnTheMeaning
<1>. QED  BY <1>1, TypeCorrect, PTL

-----------------------------------------------------------------------------
(* An instant that the wall shows once is decoded from what was encoded,   *)
(* whatever the rules by which Berlin sets its clocks one hour on or back. *)
THEOREM InstantsSurvive ==
  ASSUME \A t \in Int : Offset(t) \in {1, 2}
  PROVE  Spec => []InstantSurvives
<1>1. ASSUME TypeOK PROVE InstantSurvives
  <2>. DEFINE encoded(t) == String(Text("local", t + Offset(t), 0))
  <2>1. ASSUME NEW t \in Int, Cardinality(Instants(t + Offset(t))) = 1,
               NEW again \in UnmarshalBerlinTime(NoTime, encoded(t))
        PROVE  again.value.instant = t
    <3>. DEFINE wall == t + Offset(t)
    <3>. DEFINE exact == {u \in {wall - 1, wall - 2} : u + Offset(u) = wall}
    <3>1. wall \in Int /\ t \in {wall - 1, wall - 2}
      BY ONLY t \in Int, \A u \in Int : Offset(u) \in {1, 2}
    <3>2. t \in exact
      BY ONLY <3>1
    <3>3. Instants(wall) = exact
      BY ONLY <3>2 DEF Instants
    <3>4. IsFiniteSet(exact)
      <4>1. {wall - 1, wall - 2} = {wall - 1} \cup {wall - 2}
        OBVIOUS
      <4>2. IsFiniteSet({wall - 1} \cup {wall - 2})
        BY ONLY FS_Singleton, FS_AddElement
      <4>3. IsFiniteSet({wall - 1, wall - 2}) /\ exact \subseteq {wall - 1, wall - 2}
        BY ONLY <4>1, <4>2
      <4>. HIDE DEF exact
      <4>. QED  BY ONLY <4>3, FS_Subset
    <3>5. Cardinality(exact) = 1
      BY ONLY <2>1, <3>3
    <3>6. encoded(t).type = "string" /\ encoded(t).text.form = "local" /\ encoded(t).text.n = wall
      BY DEF String, Text
    <3>7. UnmarshalBerlinTime(NoTime, encoded(t))
            = {Decoded([instant |-> u, ahead |-> Offset(u)]) : u \in Instants(wall)}
      <4>. HIDE DEF encoded, wall
      <4>. QED  BY ONLY <3>6 DEF UnmarshalBerlinTime
    <3>. HIDE DEF exact, wall, encoded
    <3>8. exact = {t}
      BY ONLY <3>2, <3>4, <3>5, FS_Singleton
    <3>9. again = Decoded([instant |-> t, ahead |-> Offset(t)])
      BY ONLY <2>1, <3>3, <3>7, <3>8
    <3>. QED  BY ONLY <3>9 DEF Decoded
  <2>2. ASSUME Is("times"), NEW first \in UnmarshalBerlinTime(NoTime, Wire)
        PROVE  first.value.instant \in Int
    <3>1. Wire \in Times
      BY <1>1, <2>2 DEF TypeOK, Is, Wires
    <3>2. Wire.type = "string" /\ Wire.text.form \in {"local", "zoned"}
          /\ Wire.text.n \in Int /\ Wire.text.unit \in Int
      BY ONLY <3>1 DEF Times
    <3>3. CASE Wire.text.form = "local"
      <4>1. PICK t \in Instants(Wire.text.n) : first = Decoded([instant |-> t, ahead |-> Offset(t)])
        BY ONLY <2>2, <3>2, <3>3 DEF UnmarshalBerlinTime
      <4>2. t \in Int
        BY ONLY <3>2, <4>1 DEF Instants
      <4>. QED  BY ONLY <4>1, <4>2 DEF Decoded
    <3>4. CASE Wire.text.form = "zoned"
      <4>1. first = Decoded([instant |-> Wire.text.n - Wire.text.unit, ahead |-> Wire.text.unit])
        BY ONLY <2>2, <3>2, <3>4 DEF UnmarshalBerlinTime
      <4>. QED  BY ONLY <3>2, <4>1 DEF Decoded
    <3>. QED  BY ONLY <3>2, <3>3, <3>4
  <2>3. \A v : MarshalBerlinTime(v) = encoded(v.instant)
    BY DEF MarshalBerlinTime
  <2>4. \A t : encoded(t).text.n = t + Offset(t)
    BY DEF String, Text
  <2>. HIDE DEF encoded
  <2>. QED  BY ONLY <2>1, <2>2, <2>3, <2>4 DEF InstantSurvives
<1>. QED  BY <1>1, TypeCorrect, PTL

-----------------------------------------------------------------------------
(* The multiplier of a unit is KiB to its power (Scale).                   *)
LEMMA Scales ==
  /\ Scale[0] = 1
  /\ \A unit \in 1..4 : Scale[unit] = KiB * Scale[unit - 1]
<1>. DEFINE f == [unit \in 0..4 |-> IF unit = 0 THEN 1 ELSE IF unit = 1 THEN KiB
                   ELSE IF unit = 2 THEN KiB * KiB ELSE IF unit = 3 THEN KiB * (KiB * KiB)
                   ELSE KiB * (KiB * (KiB * KiB))]
<1>1. KiB \in Nat
  BY DecodersAssumption DEF PowersOfTwo
<1>2. f = [unit \in 0..4 |-> IF unit = 0 THEN 1 ELSE KiB * f[unit - 1]]
  <2>1. ASSUME NEW unit \in 0..4
        PROVE  f[unit] = IF unit = 0 THEN 1 ELSE KiB * f[unit - 1]
    BY <1>1
  <2>. QED  BY <2>1
<1>3. Scale = [unit \in 0..4 |-> IF unit = 0 THEN 1 ELSE KiB * Scale[unit - 1]]
  <2>. HIDE DEF f
  <2>. QED  BY ONLY <1>2 DEF Scale
<1>. QED  BY ONLY <1>3

(* The unit of a quota scales every step of a float.                       *)
LEMMA ScalesScale == \A unit \in 0..4 : Scale[unit] \in Scaling
<1>1. 1 \in Scaling
  <2>1. ASSUME NEW u \in PowersOfTwo PROVE Nested(u, 1)
    <3>1. u # 1 => u = (2 * (u \div 2)) * 1 /\ u \div 2 \in Nat \ {0}
      BY PowersAreNat
    <3>. QED  BY <3>1 DEF Nested
  <2>. QED  BY <2>1 DEF Scaling
<1>2. ASSUME NEW unit \in 1..4, Scale[unit - 1] \in Scaling PROVE Scale[unit] \in Scaling
  BY <1>2, Scales, ScalingMultiplies, DecodersAssumption
<1>3. Scale[0] \in Scaling
  BY <1>1, Scales
<1>4. Scale[1] \in Scaling
  <2>1. 1 \in 1..4 /\ 1 - 1 = 0
    OBVIOUS
  <2>. QED  BY ONLY <1>2, <1>3, <2>1
<1>5. Scale[2] \in Scaling
  <2>1. 2 \in 1..4 /\ 2 - 1 = 1
    OBVIOUS
  <2>. QED  BY ONLY <1>2, <1>4, <2>1
<1>6. Scale[3] \in Scaling
  <2>1. 3 \in 1..4 /\ 3 - 1 = 2
    OBVIOUS
  <2>. QED  BY ONLY <1>2, <1>5, <2>1
<1>7. Scale[4] \in Scaling
  <2>1. 4 \in 1..4 /\ 4 - 1 = 3
    OBVIOUS
  <2>. QED  BY ONLY <1>2, <1>6, <2>1
<1>8. \A unit \in 0..4 : unit \in {0, 1, 2, 3, 4}
  OBVIOUS
<1>. QED  BY ONLY <1>3, <1>4, <1>5, <1>6, <1>7, <1>8

(* A unit is the product of the units on the way to it.                    *)
LEMMA ScalesMultiply ==
  ASSUME NEW low \in 0..4
  PROVE  \A d \in Nat : low + d \in 0..4 => Scale[low + d] = Scale[d] * Scale[low]
<1>. DEFINE S == {d \in Nat : low + d \in 0..4 => Scale[low + d] = Scale[d] * Scale[low]}
<1>1. KiB \in Nat /\ \A unit \in 0..4 : Scale[unit] \in Nat
  BY ScalesScale, DecodersAssumption DEF Scaling, PowersOfTwo
<1>2. 0 \in S
  BY <1>1, Scales
<1>3. ASSUME NEW d \in Nat, d \in S PROVE d + 1 \in S
  <2>1. SUFFICES ASSUME low + (d + 1) \in 0..4
                 PROVE  Scale[low + (d + 1)] = Scale[d + 1] * Scale[low]
    OBVIOUS
  <2>2. Scale[low + d] = Scale[d] * Scale[low]
    BY <1>3, <2>1
  <2>3. /\ Scale[low + (d + 1)] = KiB * Scale[low + d]
        /\ Scale[d + 1] = KiB * Scale[d]
    <3>1. low + (d + 1) \in 1..4 /\ d + 1 \in 1..4
      BY <2>1
    <3>2. (low + (d + 1)) - 1 = low + d /\ (d + 1) - 1 = d
      OBVIOUS
    <3>. QED  BY ONLY <3>1, <3>2, Scales
  <2>4. Scale[d] \in Nat /\ Scale[low] \in Nat
    BY <1>1, <2>1
  <2>. QED  BY ONLY <1>1, <2>2, <2>3, <2>4
<1>. QED  BY <1>2, <1>3, SetInduction

(* The table of multipliers in the code agrees with the reference.         *)
LEMMA MultiplierIsScale == \A unit \in 0..4 : Multiplier(unit) = Scale[unit]
<1>1. KiB \in Nat
  BY DecodersAssumption DEF PowersOfTwo
<1>2. /\ Scale[0] = 1 /\ Scale[1] = KiB /\ Scale[2] = KiB * KiB
      /\ Scale[3] = KiB * KiB * KiB /\ Scale[4] = KiB * KiB * KiB * KiB
  <2>1. Scale[0] = 1 /\ Scale[1] = KiB * Scale[0] /\ Scale[2] = KiB * Scale[1]
        /\ Scale[3] = KiB * Scale[2] /\ Scale[4] = KiB * Scale[3]
    BY Scales
  <2>. QED  BY ONLY <1>1, <2>1
<1>3. ASSUME NEW unit \in 0..4 PROVE unit \in {0, 1, 2, 3, 4}
  OBVIOUS
<1>4. Multiplier(0) = 1 /\ Multiplier(1) = KiB /\ Multiplier(2) = KiB * KiB
      /\ Multiplier(3) = KiB * KiB * KiB /\ Multiplier(4) = KiB * KiB * KiB * KiB
  BY DEF Multiplier
<1>. QED  BY ONLY <1>2, <1>3, <1>4

(* Two floats in their units compare as what they were rounded from.       *)
LEMMA QuotasKeepOrder ==
  ASSUME NEW x \in Nat, x < FloatMax * 8192, NEW y \in Nat, y < FloatMax * 8192,
         NEW a \in 0..4, NEW b \in 0..4, x * Scale[a] <= y * Scale[b]
  PROVE  RoundToFloat(x) * Scale[a] <= RoundToFloat(y) * Scale[b]
<1>1. \A unit \in 0..4 : Scale[unit] \in Scaling /\ Scale[unit] \in Nat \ {0}
  BY ScalesScale DEF Scaling
<1>2. /\ Ulp(x) \in PowersOfTwo /\ Ulp(y) \in PowersOfTwo
      /\ RoundToFloat(x) \in Nat /\ RoundToFloat(y) \in Nat
  BY <1>1, UlpFits, FloatsRounded
<1>3. \A u \in PowersOfTwo : u * 1 = u
  BY DEF PowersOfTwo
<1>4. /\ RoundToFloat(x) * 1 = Rounded(x * 1, Ulp(x) * 1) /\ IsStep(x * 1, Ulp(x) * 1)
      /\ RoundToFloat(y) * 1 = Rounded(y * 1, Ulp(y) * 1) /\ IsStep(y * 1, Ulp(y) * 1)
  <2>1. 1 \in Scaling
    BY <1>1, Scales
  <2>. QED  BY <2>1, FloatsRounded
<1>5. /\ RoundToFloat(x) = Rounded(x, Ulp(x)) /\ IsStep(x, Ulp(x))
      /\ RoundToFloat(y) = Rounded(y, Ulp(y)) /\ IsStep(y, Ulp(y))
  <2>1. x * 1 = x /\ y * 1 = y /\ RoundToFloat(x) * 1 = RoundToFloat(x)
        /\ RoundToFloat(y) * 1 = RoundToFloat(y)
    BY ONLY <1>2, x \in Nat, y \in Nat
  <2>2. Ulp(x) * 1 = Ulp(x) /\ Ulp(y) * 1 = Ulp(y)
    BY <1>2, <1>3
  <2>. QED  BY ONLY <1>4, <2>1, <2>2
<1>6. \A u, w : Nested(u, w) => Nested(w, u)
  BY DEF Nested
<1>7. CASE a <= b
  <2>. DEFINE p == Scale[b - a]
  <2>1. p \in Scaling /\ p \in Nat \ {0} /\ Scale[a] \in Nat \ {0} /\ Scale[b] = p * Scale[a]
    <3>1. b - a \in 0..4 /\ b - a \in Nat /\ a + (b - a) = b
      BY <1>7
    <3>2. Scale[a + (b - a)] = Scale[b - a] * Scale[a]
      BY <3>1, ScalesMultiply
    <3>. QED  BY <1>1, <3>1, <3>2
  <2>. HIDE DEF p
  <2>2. x <= y * p
    <3>1. x * Scale[a] <= (y * p) * Scale[a]
      BY <2>1
    <3>2. y * p \in Nat
      BY <2>1
    <3>3. \A i, j \in Nat, k \in Nat \ {0} : i * k <= j * k => i <= j
      OBVIOUS
    <3>. QED  BY ONLY <3>1, <3>2, <3>3, <2>1, x \in Nat
  <2>3. /\ RoundToFloat(y) * p = Rounded(y * p, Ulp(y) * p) /\ IsStep(y * p, Ulp(y) * p)
        /\ Nested(Ulp(x), Ulp(y) * p) /\ y * p \in Nat
    BY <1>2, <2>1, FloatsRounded, ScalingMultiplies DEF Scaling
  <2>4. RoundToFloat(x) <= RoundToFloat(y) * p
    BY <1>5, <2>2, <2>3, RoundingKeepsOrder
  <2>5. RoundToFloat(x) * Scale[a] <= (RoundToFloat(y) * p) * Scale[a]
    BY <1>2, <2>1, <2>4, ProductsKeepOrder
  <2>6. (RoundToFloat(y) * p) * Scale[a] = RoundToFloat(y) * Scale[b]
    BY ONLY <1>2, <2>1
  <2>. QED  BY ONLY <2>5, <2>6
<1>8. CASE b <= a
  <2>. DEFINE p == Scale[a - b]
  <2>1. p \in Scaling /\ p \in Nat \ {0} /\ Scale[b] \in Nat \ {0} /\ Scale[a] = p * Scale[b]
    <3>1. a - b \in 0..4 /\ a - b \in Nat /\ b + (a - b) = a
      BY <1>8
    <3>2. Scale[b + (a - b)] = Scale[a - b] * Scale[b]
      BY <3>1, ScalesMultiply
    <3>. QED  BY <1>1, <3>1, <3>2
  <2>. HIDE DEF p
  <2>2. x * p <= y
    <3>1. (x * p) * Scale[b] <= y * Scale[b]
      BY <2>1
    <3>2. x * p \in Nat
      BY <2>1
    <3>3. \A i, j \in Nat, k \in Nat \ {0} : i * k <= j * k => i <= j
      OBVIOUS
    <3>. QED  BY ONLY <3>1, <3>2, <3>3, <2>1, y \in Nat
  <2>3. /\ RoundToFloat(x) * p = Rounded(x * p, Ulp(x) * p) /\ IsStep(x * p, Ulp(x) * p)
        /\ Nested(Ulp(x) * p, Ulp(y)) /\ x * p \in Nat
    BY <1>2, <1>6, <2>1, FloatsRounded, ScalingMultiplies DEF Scaling
  <2>4. RoundToFloat(x) * p <= RoundToFloat(y)
    BY <1>5, <2>2, <2>3, RoundingKeepsOrder
  <2>5. (RoundToFloat(x) * p) * Scale[b] <= RoundToFloat(y) * Scale[b]
    BY <1>2, <2>1, <2>4, ProductsKeepOrder
  <2>6. (RoundToFloat(x) * p) * Scale[b] = RoundToFloat(x) * Scale[a]
    BY ONLY <1>2, <2>1
  <2>. QED  BY ONLY <2>5, <2>6
<1>. QED  BY <1>7, <1>8

(* A larger quota is not taken for fewer bytes, whatever their units, and  *)
(* none wraps at the bound (TrafficSize.UnmarshalJSON).                    *)
THEOREM QuotasCompare == Spec => []LargerQuotaIsNotLess
<1>1. ASSUME TypeOK PROVE LargerQuotaIsNotLess
  <2>. DEFINE Quotas == {t \in Texts : t.form = "size"}
  <2>1. ASSUME NEW t \in Quotas
        PROVE  t.n \in Nat /\ t.n < FloatMax * 8192 /\ t.unit \in 0..4
    <3>1. t \in [form : {"size"}, n : SmallNumbers \cup NearMax, unit : 0..4]
      BY <2>1 DEF Texts
    <3>2. FloatMax \in Nat /\ FloatMax >= 2 /\ 2 * MaxUint < FloatMax * 4096 /\ MaxUint \in Nat
      BY BoundIsRoundedUp, DecodersAssumption
    <3>3. \A n \in SmallNumbers \cup NearMax : n \in Nat /\ n < FloatMax * 8192
      BY ONLY <3>2 DEF SmallNumbers, NearMax
    <3>. QED  BY ONLY <3>1, <3>3
  <2>2. ASSUME NEW t \in Quotas
        PROVE  /\ TrafficBytes(t) = ToUint(RoundToFloat(t.n) * Scale[t.unit])
               /\ RoundToFloat(t.n) * Scale[t.unit] \in Nat
    <3>1. TrafficBytes(t) = ToUint(RoundToFloat(t.n) * Multiplier(t.unit))
      BY <2>2 DEF TrafficBytes
    <3>2. Multiplier(t.unit) = Scale[t.unit] /\ Scale[t.unit] \in Scaling /\ Scale[t.unit] \in Nat
      BY <2>1, <2>2, MultiplierIsScale, ScalesScale DEF Scaling
    <3>3. RoundToFloat(t.n) \in Nat
      BY <2>1, <2>2, <3>2, FloatsRounded
    <3>. QED  BY <3>1, <3>2, <3>3
  <2>. SUFFICES ASSUME Is("scalars"), Wire.text.form = "size", NEW other \in Quotas,
                       Wire.text.n * Scale[Wire.text.unit] <= other.n * Scale[other.unit]
                PROVE  TrafficBytes(Wire.text) <= TrafficBytes(other)
    BY DEF LargerQuotaIsNotLess
  <2>3. Wire.text \in Quotas
    <3>1. Wire \in Scalars
      BY <1>1 DEF TypeOK, Is, Wires
    <3>. QED  BY <3>1 DEF Scalars, Empty, Text
  <2>. HIDE DEF Quotas
  <2>4. RoundToFloat(Wire.text.n) * Scale[Wire.text.unit]
          <= RoundToFloat(other.n) * Scale[other.unit]
    BY <2>1, <2>3, QuotasKeepOrder
  <2>. QED  BY <2>2, <2>3, <2>4, ConversionKeepsOrder
<1>. QED  BY <1>1, TypeCorrect, PTL

-----------------------------------------------------------------------------
(***************************************************************************)
(* Port specifications and boot configurations.                            *)
(***************************************************************************)
(* A list of choices of one type is offered item by item.                  *)
ListOffered(T, type, list) ==
  /\ list.type = "array" /\ list.items \in Seq(T)
  /\ \A i \in DOMAIN list.items : list.items[i].type = type
  => Options(type, list) = [i \in DOMAIN list.items |-> Truncated(list.items[i].text)]

LEMMA ListIsOffered == \A T, type, list : ListOffered(T, type, list)
<1>. SUFFICES ASSUME NEW T, NEW type, NEW list, list.type = "array", list.items \in Seq(T),
                     \A i \in DOMAIN list.items : list.items[i].type = type
              PROVE  Options(type, list) = [i \in DOMAIN list.items |-> Truncated(list.items[i].text)]
  BY DEF ListOffered
<1>. DEFINE texts == [i \in DOMAIN list.items |-> Truncated(list.items[i].text)]
<1>1. texts \in Seq({Truncated(x.text) : x \in T}) /\ DOMAIN texts = DOMAIN list.items
  OBVIOUS
<1>2. Options(type, list)
        = FlattenSeq([i \in DOMAIN list.items |->
                        IF list.items[i].type = type THEN <<Truncated(list.items[i].text)>> ELSE <<>>])
  BY DEF Options
<1>3. [i \in DOMAIN list.items |->
         IF list.items[i].type = type THEN <<Truncated(list.items[i].text)>> ELSE <<>>]
        = [i \in DOMAIN texts |-> <<texts[i]>>]
  OBVIOUS
<1>. HIDE DEF texts
<1>4. FlattenSeq([i \in DOMAIN texts |-> <<texts[i]>>]) = texts
  BY ONLY <1>1, FlattenSingles
<1>. QED  BY ONLY <1>2, <1>3, <1>4 DEF texts

(* What loses its fraction is the integer next to it, and a word is kept.  *)
LEMMA NumbersTruncated ==
  \A item \in BootItems : IsIntegerOf(Truncated(item.text), item.text)
<1>1. ASSUME NEW n \in -3..3
      PROVE  IsIntegerOf(Truncated(Text("number", n, 0)), Text("number", n, 0))
  <2>1. /\ Text("number", n, 0).form = "number" /\ Text("number", n, 0).n = n
        /\ Truncated(Text("number", n, 0)).form = "number"
        /\ Truncated(Text("number", n, 0)).n = IF n >= 0 THEN n - (n % 2) ELSE n + (n % 2)
    BY DEF Text, Truncated
  <2>2. n \in {-3, -2, -1, 0, 1, 2, 3}
    OBVIOUS
  <2>. QED  BY <2>1, <2>2 DEF IsIntegerOf
<1>2. \A t : t.form # "number" => IsIntegerOf(Truncated(t), t)
  BY DEF IsIntegerOf, Truncated
<1>. QED  BY <1>1, <1>2 DEF BootItems, BootNumbers, Word, String, Null, Text, Empty

(* A boot field offers the choices it lists, or has chosen, and not both;  *)
(* a number is offered and chosen as the same integer.                     *)
THEOREM ActiveApart == Spec => []ActiveOrAvailable
<1>1. ASSUME TypeOK PROVE ActiveOrAvailable
  <2>. SUFFICES ASSUME Is("boot"), NEW type \in {"string", "number"}
                PROVE  /\ ActiveScalar(type, Empty, Wire) = Empty \/ Options(type, Wire) = <<>>
                       /\ Wire.type = "array" /\ (\A i \in DOMAIN Wire.items : Wire.items[i].type = type)
                            => /\ DOMAIN Options(type, Wire) = DOMAIN Wire.items
                               /\ \A i \in DOMAIN Wire.items :
                                    IsIntegerOf(Options(type, Wire)[i], Wire.items[i].text)
                       /\ Wire.type = type
                            => Options(type, List(<<Wire>>)) = <<ActiveScalar(type, Empty, Wire)>>
    BY DEF ActiveOrAvailable
  <2>1. Wire \in BootFields
    BY <1>1 DEF TypeOK, Is, Wires
  <2>2. ActiveScalar(type, Empty, Wire) = Empty \/ Options(type, Wire) = <<>>
    <3>1. type # "array"
      OBVIOUS
    <3>. QED  BY ONLY <3>1 DEF ActiveScalar, Options
  <2>3. ASSUME Wire.type = "array", \A i \in DOMAIN Wire.items : Wire.items[i].type = type
        PROVE  /\ DOMAIN Options(type, Wire) = DOMAIN Wire.items
               /\ \A i \in DOMAIN Wire.items :
                    IsIntegerOf(Options(type, Wire)[i], Wire.items[i].text)
    <3>1. PICK n \in 0..2 : Wire.items \in [1..n -> BootItems]
      <4>1. \A item \in BootItems : item.type # "array"
        BY ONLY DEF BootItems, BootNumbers, Word, String, Null
      <4>2. PICK s \in UNION {[1..n -> BootItems] : n \in 0..2} : Wire = List(s)
        BY ONLY <2>1, <2>3, <4>1 DEF BootFields
      <4>3. Wire.items = s
        BY ONLY <4>2 DEF List
      <4>. QED  BY ONLY <4>2, <4>3
    <3>2. DOMAIN Wire.items = 1..n /\ n \in Nat
      BY ONLY <3>1
    <3>3. Options(type, Wire) = [i \in DOMAIN Wire.items |-> Truncated(Wire.items[i].text)]
      <4>1. Wire.items \in Seq(BootItems)
        BY ONLY <3>1, <3>2
      <4>2. ListOffered(BootItems, type, Wire)
        BY ONLY ListIsOffered
      <4>. QED  BY ONLY <2>3, <4>1, <4>2 DEF ListOffered
    <3>4. \A i \in DOMAIN Wire.items : IsIntegerOf(Truncated(Wire.items[i].text), Wire.items[i].text)
      BY ONLY <3>1, <3>2, NumbersTruncated
    <3>. QED  BY ONLY <3>3, <3>4
  <2>4. ASSUME Wire.type = type
        PROVE  Options(type, List(<<Wire>>)) = <<ActiveScalar(type, Empty, Wire)>>
    <3>. DEFINE list == List(<<Wire>>)
    <3>1. list.type = "array" /\ list.items = <<Wire>> /\ DOMAIN <<Wire>> = {1}
          /\ <<Wire>> \in Seq({Wire})
      BY ONLY DEF List
    <3>. HIDE DEF list
    <3>2. Options(type, list) = [i \in DOMAIN <<Wire>> |-> Truncated(<<Wire>>[i].text)]
      <4>1. ListOffered({Wire}, type, list)
        BY ONLY ListIsOffered
      <4>2. \A i \in DOMAIN <<Wire>> : <<Wire>>[i].type = type
        BY ONLY <2>4
      <4>. QED  BY ONLY <3>1, <4>1, <4>2 DEF ListOffered
    <3>3. ActiveScalar(type, Empty, Wire) = Truncated(Wire.text)
      BY ONLY <2>4 DEF ActiveScalar
    <3>. QED  BY ONLY <3>1, <3>2, <3>3 DEF list
  <2>. QED  BY ONLY <2>2, <2>3, <2>4
<1>. QED  BY <1>1, TypeCorrect, PTL

-----------------------------------------------------------------------------
LEMMA RangeIsReread ==
  ASSUME NEW start \in 0..MaxPort, NEW end \in 0..MaxPort, start <= end
  PROVE  /\ ParsePart(FormatPortRange(PortRange(start, end))) = Decoded(<<PortRange(start, end)>>)
         /\ FormatPortRange(PortRange(start, end)).spaced = FALSE
<1>. DEFINE r == PortRange(start, end)
<1>1. r.start = start /\ r.end = end
  BY DEF PortRange
<1>. HIDE DEF r
<1>2. CASE start = end
  <2>. DEFINE p == Part("port", start, 0, FALSE)
  <2>1. FormatPortRange(r) = p
    BY ONLY <1>1, <1>2 DEF FormatPortRange
  <2>2. p.form = "port" /\ p.start = start /\ p.spaced = FALSE
    BY DEF Part
  <2>. HIDE DEF p
  <2>3. ParsePart(p) = Decoded(<<PortRange(start, start)>>)
    BY ONLY <2>2, start \in 0..MaxPort, DecodersAssumption DEF ParsePart
  <2>. QED  BY ONLY <1>2, <2>1, <2>2, <2>3 DEF r
<1>3. CASE start # end
  <2>. DEFINE p == Part("range", start, end, FALSE)
  <2>1. FormatPortRange(r) = p
    BY ONLY <1>1, <1>3 DEF FormatPortRange
  <2>2. p.form = "range" /\ p.start = start /\ p.end = end /\ p.spaced = FALSE
    BY DEF Part
  <2>. HIDE DEF p
  <2>3. ParsePart(p) = Decoded(<<PortRange(start, end)>>)
    BY ONLY <2>2, start <= end, end \in 0..MaxPort, DecodersAssumption DEF ParsePart
  <2>. QED  BY ONLY <2>1, <2>2, <2>3 DEF r
<1>. QED  BY ONLY <1>2, <1>3 DEF r

(* What a part of a port specification gives is never inverted or above    *)
(* the largest port, and a range is written as a part that gives it again. *)
THEOREM PartsAreRanges ==
  ASSUME NEW part, ParsePart(part).ok, part.form # "empty",
         part.start \in Nat, part.end \in Nat
  PROVE  \E start, end \in 0..MaxPort :
           /\ start <= end
           /\ ParsePart(part) = Decoded(<<PortRange(start, end)>>)
           /\ ParsePart(FormatPortRange(PortRange(start, end))) = ParsePart(part)
<1>2. CASE part.form = "port" /\ part.start <= MaxPort
  <2>1. ParsePart(part) = Decoded(<<PortRange(part.start, part.start)>>)
    BY <1>2 DEF ParsePart
  <2>2. part.start \in 0..MaxPort /\ part.start <= part.start
    BY <1>2, DecodersAssumption
  <2>. QED  BY RangeIsReread, <2>1, <2>2
<1>3. CASE part.form = "range" /\ part.end <= MaxPort /\ part.start <= part.end
  <2>1. ParsePart(part) = Decoded(<<PortRange(part.start, part.end)>>)
    BY <1>3 DEF ParsePart
  <2>2. part.start \in 0..MaxPort /\ part.end \in 0..MaxPort /\ part.start <= part.end
    BY <1>3, DecodersAssumption
  <2>. QED  BY RangeIsReread, <2>1, <2>2
<1>4. CASE /\ ~(part.form = "port" /\ part.start <= MaxPort)
           /\ ~(part.form = "range" /\ part.end <= MaxPort /\ part.start <= part.end)
  <2>1. ParsePart(part) = Undecoded(<<>>)
    BY <1>4 DEF ParsePart
  <2>. QED  BY <2>1 DEF Undecoded
<1>. QED  BY <1>2, <1>3, <1>4

PortRanges == {PortRange(start, end) : start, end \in 0..MaxPort}

(* The ports that a part names, and those of a sequence of ranges.         *)
NamedBy(p) == CASE p.form = "port"  -> {p.start}
                [] p.form = "range" -> p.start..p.end
                [] OTHER            -> {}

PortsOf(ranges) == UNION {r.start..r.end : r \in Range(ranges)}

LEMMA PortsConcat ==
  ASSUME NEW s \in Seq(PortRanges), NEW t \in Seq(PortRanges)
  PROVE  /\ Range(s \o t) = Range(s) \cup Range(t)
         /\ PortsOf(s \o t) = PortsOf(s) \cup PortsOf(t)
<1>1. Range(s \o t) = Range(s) \cup Range(t)
  BY ConcatRange
<1>. QED  BY ONLY <1>1 DEF PortsOf

(* A part gives one range of ports that are not empty, or none.            *)
LEMMA PartGives ==
  ASSUME NEW p \in Parts, ParsePart(p).ok
  PROVE  /\ ParsePart(p).value \in Seq(PortRanges)
         /\ PortsOf(ParsePart(p).value) = NamedBy(p)
         /\ \A r \in Range(ParsePart(p).value) : r.start \in 0..r.end /\ r.end <= MaxPort
<1>. DEFINE v == ParsePart(p).value
<1>0. /\ p.form \in {"empty", "port", "range", "word"} /\ p.start \in Nat /\ p.end \in Nat
      /\ \A x : Decoded(x).value = x
  <2>1. CASE p \in [form : {"port", "range"}, start : Ports, end : Ports, spaced : {FALSE}]
    <3>1. p.form \in {"port", "range"} /\ p.start \in Ports /\ p.end \in Ports
      BY ONLY <2>1
    <3>. QED  BY ONLY <3>1, DecodersAssumption DEF Ports, Decoded
  <2>2. CASE p \in [form : {"empty", "port", "word"}, start : {1}, end : {1}, spaced : BOOLEAN]
    <3>1. p.form \in {"empty", "port", "word"} /\ p.start = 1 /\ p.end = 1
      BY ONLY <2>2
    <3>. QED  BY ONLY <3>1 DEF Decoded
  <2>. QED  BY ONLY <2>1, <2>2, p \in Parts DEF Parts
<1>1. CASE p.form = "empty"
  <2>1. v = <<>> /\ NamedBy(p) = {}
    BY ONLY <1>0, <1>1 DEF ParsePart, NamedBy
  <2>2. Range(<<>>) = {} /\ <<>> \in Seq(PortRanges)
    BY EmptySeq DEF Range
  <2>. HIDE DEF v
  <2>. QED  BY ONLY <2>1, <2>2 DEF PortsOf, v
<1>2. ASSUME NEW start \in 0..MaxPort, NEW end \in 0..MaxPort, start <= end,
             v = <<PortRange(start, end)>>, NamedBy(p) = start..end
      PROVE  /\ v \in Seq(PortRanges) /\ PortsOf(v) = NamedBy(p)
             /\ \A r \in Range(v) : r.start \in 0..r.end /\ r.end <= MaxPort
  <2>. DEFINE r == PortRange(start, end)
  <2>1. r.start = start /\ r.end = end /\ r \in PortRanges
    BY DEF PortRange, PortRanges
  <2>. HIDE DEF r
  <2>2. Range(<<r>>) = {r} /\ <<r>> \in Seq(PortRanges)
    BY ONLY <2>1 DEF Range
  <2>3. v = <<r>>
    BY ONLY <1>2 DEF r
  <2>. HIDE DEF v
  <2>4. PortsOf(v) = start..end
    BY ONLY <2>1, <2>2, <2>3 DEF PortsOf
  <2>5. start \in 0..end /\ end <= MaxPort
    BY ONLY <1>2, DecodersAssumption
  <2>. QED  BY ONLY <1>2, <2>1, <2>2, <2>3, <2>4, <2>5
<1>3. CASE p.form = "port" /\ p.start <= MaxPort
  <2>1. v = <<PortRange(p.start, p.start)>>
    BY ONLY <1>0, <1>3 DEF ParsePart
  <2>2. NamedBy(p) = p.start..p.start /\ p.start \in 0..MaxPort /\ p.start <= p.start
    BY ONLY <1>0, <1>3, DecodersAssumption DEF NamedBy
  <2>. HIDE DEF v
  <2>. QED  BY ONLY <1>2, <2>1, <2>2 DEF v
<1>4. CASE p.form = "range" /\ p.end <= MaxPort /\ p.start <= p.end
  <2>1. v = <<PortRange(p.start, p.end)>>
    BY ONLY <1>0, <1>4 DEF ParsePart
  <2>2. NamedBy(p) = p.start..p.end /\ p.start \in 0..MaxPort /\ p.end \in 0..MaxPort
    BY ONLY <1>0, <1>4, DecodersAssumption DEF NamedBy
  <2>. HIDE DEF v
  <2>. QED  BY ONLY <1>2, <1>4, <2>1, <2>2 DEF v
<1>5. CASE /\ p.form # "empty" /\ ~(p.form = "port" /\ p.start <= MaxPort)
           /\ ~(p.form = "range" /\ p.end <= MaxPort /\ p.start <= p.end)
  <2>1. ParsePart(p) = Undecoded(<<>>)
    BY ONLY <1>5 DEF ParsePart
  <2>. QED  BY ONLY <2>1, ParsePart(p).ok DEF Undecoded
<1>. QED  BY ONLY <1>1, <1>3, <1>4, <1>5

(* The ranges of a specification, if each of its parts gives some.         *)
PartValues(spec) == FlattenSeq([i \in DOMAIN spec |-> ParsePart(spec[i]).value])

AllParse(spec) == \A i \in DOMAIN spec : ParsePart(spec[i]).ok

PortsNamed(spec) == UNION {NamedBy(spec[i]) : i \in DOMAIN spec}

GivesItsPorts(spec) ==
  /\ PartValues(spec) \in Seq(PortRanges)
  /\ PortsOf(PartValues(spec)) = PortsNamed(spec)
  /\ \A r \in Range(PartValues(spec)) : r.start \in 0..r.end /\ r.end <= MaxPort

GoodParts == {p \in Parts : ParsePart(p).ok}

LEMMA PartsAppend ==
  ASSUME NEW s \in Seq(GoodParts), NEW p \in GoodParts
  PROVE  PartValues(Append(s, p)) = PartValues(s) \o ParsePart(p).value
<1>. DEFINE values == [i \in DOMAIN s |-> ParsePart(s[i]).value]
<1>. DEFINE n == Len(s)
<1>1. \A q \in GoodParts : ParsePart(q).value \in Seq(PortRanges)
  BY PartGives DEF GoodParts
<1>2. /\ n \in Nat /\ DOMAIN s = 1..n /\ DOMAIN Append(s, p) = 1..(n + 1)
      /\ Append(s, p)[n + 1] = p /\ \A i \in 1..n : Append(s, p)[i] = s[i] /\ s[i] \in GoodParts
  BY LenProperties, ElementOfSeq
<1>3. values \in Seq(Seq(PortRanges)) /\ Len(values) = n
  <2>1. values \in [1..n -> Seq(PortRanges)]
    BY ONLY <1>1, <1>2
  <2>. HIDE DEF values, n
  <2>. QED  BY ONLY <1>2, <2>1, LenProperties
<1>. DEFINE last == ParsePart(p).value
<1>4. last \in Seq(PortRanges)
  BY <1>1
<1>5. [i \in DOMAIN Append(s, p) |-> ParsePart(Append(s, p)[i]).value] = Append(values, last)
  <2>1. \A i \in 1..n : values[i] = ParsePart(s[i]).value
    BY ONLY <1>2
  <2>2. last = ParsePart(p).value
    OBVIOUS
  <2>. HIDE DEF values, last
  <2>3. /\ DOMAIN Append(values, last) = 1..(n + 1)
        /\ Append(values, last)[n + 1] = last
        /\ \A i \in 1..n : Append(values, last)[i] = values[i]
    BY ONLY <1>2, <1>3, <1>4, LenProperties
  <2>4. \A i \in 1..(n + 1) : i \in 1..n \/ i = n + 1
    BY ONLY <1>2
  <2>5. Append(values, last) = [i \in 1..(n + 1) |-> Append(values, last)[i]]
    BY ONLY <1>3, <1>4, AppendIsFunction
  <2>6. \A i \in 1..(n + 1) : Append(values, last)[i] = ParsePart(Append(s, p)[i]).value
    BY ONLY <1>2, <2>1, <2>2, <2>3, <2>4
  <2>. HIDE DEF n
  <2>. QED  BY ONLY <1>2, <2>5, <2>6
<1>. HIDE DEF values, last
<1>6. FlattenSeq(Append(values, last)) = FlattenSeq(values) \o last
  BY ONLY <1>3, <1>4, FlattenAppend
<1>. QED  BY ONLY <1>5, <1>6 DEF PartValues, values, last

LEMMA PartsGive == \A s \in Seq(GoodParts) : GivesItsPorts(s)
<1>. DEFINE S == {s \in Seq(GoodParts) : GivesItsPorts(s)}
<1>1. <<>> \in S
  <2>1. PartValues(<<>>) = <<>>
    BY FlattenEmpty DEF PartValues
  <2>2. Range(<<>>) = {} /\ <<>> \in Seq(PortRanges) /\ <<>> \in Seq(GoodParts)
    BY EmptySeq DEF Range
  <2>3. PortsOf(<<>>) = {} /\ PortsNamed(<<>>) = {}
    BY <2>2 DEF PortsOf, PortsNamed
  <2>. QED  BY ONLY <2>1, <2>2, <2>3 DEF GivesItsPorts
<1>2. ASSUME NEW s \in Seq(GoodParts), NEW p \in GoodParts, s \in S PROVE Append(s, p) \in S
  <2>. DEFINE a == PartValues(s)
  <2>. DEFINE b == ParsePart(p).value
  <2>1. PartValues(Append(s, p)) = a \o b
    BY PartsAppend
  <2>2. /\ a \in Seq(PortRanges) /\ PortsOf(a) = PortsNamed(s)
        /\ \A r \in Range(a) : r.start \in 0..r.end /\ r.end <= MaxPort
    BY <1>2 DEF GivesItsPorts
  <2>3. /\ b \in Seq(PortRanges) /\ PortsOf(b) = NamedBy(p)
        /\ \A r \in Range(b) : r.start \in 0..r.end /\ r.end <= MaxPort
    BY PartGives DEF GoodParts
  <2>. HIDE DEF a, b
  <2>4. Range(a \o b) = Range(a) \cup Range(b) /\ PortsOf(a \o b) = PortsOf(a) \cup PortsOf(b)
    BY ONLY <2>2, <2>3, PortsConcat
  <2>5. PortsNamed(Append(s, p)) = PortsNamed(s) \cup NamedBy(p)
    <3>1. /\ Len(s) \in Nat /\ DOMAIN s = 1..Len(s)
          /\ DOMAIN Append(s, p) = 1..(Len(s) + 1) /\ Append(s, p)[Len(s) + 1] = p
          /\ \A i \in 1..Len(s) : Append(s, p)[i] = s[i]
      BY LenProperties
    <3>2. 1..(Len(s) + 1) = 1..Len(s) \cup {Len(s) + 1}
      BY ONLY <3>1
    <3>. QED  BY ONLY <3>1, <3>2 DEF PortsNamed
  <2>6. a \o b \in Seq(PortRanges) /\ Append(s, p) \in Seq(GoodParts)
    BY <2>2, <2>3, ConcatProperties
  <2>. QED  BY ONLY <2>1, <2>2, <2>3, <2>4, <2>5, <2>6 DEF GivesItsPorts
<1>. QED
  <2>. HIDE DEF S
  <2>1. Seq(GoodParts) \subseteq S
    BY <1>1, <1>2, SequenceInduction
  <2>. QED  BY <2>1 DEF S

(* What the ranges are written as is parsed to the ranges.                 *)
LEMMA RangesReread ==
  ASSUME NEW ranges \in Seq(PortRanges),
         \A r \in Range(ranges) : r.start \in 0..r.end /\ r.end <= MaxPort
  PROVE  ParsePortRange([i \in DOMAIN ranges |-> FormatPortRange(ranges[i])]).value = ranges
<1>. DEFINE spec == [i \in DOMAIN ranges |-> FormatPortRange(ranges[i])]
<1>1. DOMAIN ranges = 1..Len(ranges) /\ \A i \in DOMAIN ranges : ranges[i] \in PortRanges
  BY LenProperties, ElementOfSeq
<1>2. ASSUME NEW r \in PortRanges, r.start \in 0..r.end, r.end <= MaxPort
      PROVE  ParsePart(FormatPortRange(r)) = Decoded(<<r>>) /\ FormatPortRange(r).spaced = FALSE
  <2>1. r = PortRange(r.start, r.end) /\ r.start \in 0..MaxPort /\ r.end \in 0..MaxPort
    BY ONLY r \in PortRanges DEF PortRanges, PortRange
  <2>2. r.start <= r.end
    BY ONLY <1>2, <2>1, DecodersAssumption
  <2>. QED  BY ONLY <2>1, <2>2, RangeIsReread
<1>3. \A i \in DOMAIN ranges : /\ ParsePart(FormatPortRange(ranges[i])) = Decoded(<<ranges[i]>>)
                               /\ FormatPortRange(ranges[i]).spaced = FALSE
  <2>1. \A i \in DOMAIN ranges : ranges[i] \in Range(ranges)
    BY DEF Range
  <2>. QED  BY <1>1, <1>2, <2>1
<1>4. /\ DOMAIN spec = DOMAIN ranges
      /\ \A i \in DOMAIN ranges : spec[i] = FormatPortRange(ranges[i])
      /\ Len(spec) = 1 => 1 \in DOMAIN spec
  <2>1. spec \in Seq({FormatPortRange(ranges[i]) : i \in DOMAIN ranges})
    BY <1>1
  <2>2. DOMAIN spec = 1..Len(spec)
    BY <2>1, LenProperties
  <2>. QED  BY <2>2
<1>. HIDE DEF spec
<1>5. [i \in DOMAIN spec |-> ParsePart(spec[i])] = [i \in DOMAIN ranges |-> Decoded(<<ranges[i]>>)]
  BY ONLY <1>3, <1>4
<1>. DEFINE parsed == [i \in DOMAIN ranges |-> Decoded(<<ranges[i]>>)]
<1>6. /\ \A i \in DOMAIN parsed : parsed[i].ok
      /\ [i \in DOMAIN parsed |-> parsed[i].value] = [i \in DOMAIN ranges |-> <<ranges[i]>>]
  BY DEF Decoded
<1>7. ~(Len(spec) = 1 /\ spec[1].spaced)
  BY ONLY <1>3, <1>4
<1>. HIDE DEF parsed
<1>8. ParsePortRange(spec) = Decoded(FlattenSeq([i \in DOMAIN parsed |-> parsed[i].value]))
  BY ONLY <1>5, <1>6, <1>7 DEF ParsePortRange, parsed
<1>9. FlattenSeq([i \in DOMAIN ranges |-> <<ranges[i]>>]) = ranges
  BY FlattenSingles
<1>10. ParsePortRange(spec) = Decoded(ranges)
  BY ONLY <1>6, <1>8, <1>9
<1>. QED  BY ONLY <1>10 DEF Decoded, spec

(* A specification that is accepted gives the ports its parts name, and    *)
(* its ranges are written so that they are read again.                     *)
THEOREM PortsAsWritten == Spec => []PortsAreThoseWritten
<1>1. ASSUME TypeOK PROVE PortsAreThoseWritten
  <2>. SUFFICES ASSUME Is("ports"), ParsePortRange(Wire).ok PROVE PortsAreThoseWritten
    BY DEF PortsAreThoseWritten
  <2>. DEFINE ranges == ParsePortRange(Wire).value
  <2>1. Wire \in PortSpecs
    BY <1>1 DEF TypeOK, Is, Wires
  <2>2. PICK n \in 1..2 : Wire \in [1..n -> Parts]
    BY ONLY <2>1 DEF PortSpecs
  <2>3. AllParse(Wire) /\ ranges = PartValues(Wire)
    <3>. DEFINE parsed == [i \in DOMAIN Wire |-> ParsePart(Wire[i])]
    <3>1. ParsePortRange(Wire) # Undecoded(<<>>)
      BY DEF Undecoded
    <3>2. /\ \A i \in DOMAIN parsed : parsed[i].ok
          /\ ParsePortRange(Wire) = Decoded(FlattenSeq([i \in DOMAIN parsed |-> parsed[i].value]))
      BY ONLY <3>1 DEF ParsePortRange
    <3>3. [i \in DOMAIN parsed |-> parsed[i].value] = [i \in DOMAIN Wire |-> ParsePart(Wire[i]).value]
      OBVIOUS
    <3>4. ParsePortRange(Wire) = Decoded(PartValues(Wire))
      BY ONLY <3>2, <3>3 DEF PartValues
    <3>5. AllParse(Wire)
      BY ONLY <3>2 DEF AllParse
    <3>. QED  BY ONLY <3>4, <3>5 DEF Decoded
  <2>4. Wire \in Seq(GoodParts)
    <3>1. n \in Nat /\ DOMAIN Wire = 1..n
      BY ONLY <2>2
    <3>2. Wire \in [1..n -> GoodParts]
      BY ONLY <2>2, <2>3, <3>1 DEF AllParse, GoodParts
    <3>. QED  BY ONLY <3>1, <3>2
  <2>5. GivesItsPorts(Wire)
    BY ONLY <2>4, PartsGive
  <2>. HIDE DEF ranges
  <2>6. /\ ranges \in Seq(PortRanges) /\ PortsOf(ranges) = PortsNamed(Wire)
        /\ \A r \in Range(ranges) : r.start \in 0..r.end /\ r.end <= MaxPort
    BY ONLY <2>3, <2>5 DEF GivesItsPorts
  <2>7. ParsePortRange([i \in DOMAIN ranges |-> FormatPortRange(ranges[i])]).value = ranges
    BY ONLY <2>6, RangesReread
  <2>8. PortsNamed(Wire) = UNION {NamedBy(p) : p \in Range(Wire)}
    BY DEF PortsNamed, Range
  <2>. QED  BY ONLY <2>6, <2>7, <2>8 DEF PortsAreThoseWritten, PortsOf, NamedBy, ranges
<1>. QED  BY <1>1, TypeCorrect, PTL
-----------------------------------------------------------------------------
(* The configurations are of the kind that RulesArrive is about.           *)
LEMMA RulesetsAreSent ==
  ASSUME NEW w \in Configurations
  PROVE  /\ DOMAIN w.rules = {"input", "output"}
         /\ \A d \in DOMAIN w.rules :
              w.rules[d] \in Rulesets({"action", "src_ip"}, {Unset, "plain", "a&b"})
         /\ w.extra \in [{"status", "filter_ipv6"} -> {NilField, "plain"}]
<1>. DEFINE V == {Unset, "plain", "a&b"}
<1>1. FormRules \subseteq [{"action", "src_ip"} -> V]
  BY DEF FormRules
<1>2. \A n \in 0..2 : [1..n -> FormRules] \subseteq Seq([{"action", "src_ip"} -> V])
  <2>. DEFINE U == [{"action", "src_ip"} -> V]
  <2>1. FormRules \subseteq U
    BY <1>1
  <2>. HIDE DEF U
  <2>2. \A n \in 0..2 : [1..n -> FormRules] \subseteq Seq(U)
    BY ONLY <2>1
  <2>. QED  BY <2>2 DEF U
<1>3. /\ w.rules \in [input : UNION {[1..n -> FormRules] : n \in 0..2},
                       output : UNION {[1..n -> FormRules] : n \in 0..1}]
      /\ w.extra \in [status : {NilField, "plain"}, filter_ipv6 : {NilField, "plain"}]
  BY DEF Configurations
<1>4. /\ DOMAIN w.rules = {"input", "output"}
      /\ w.rules["input"] \in UNION {[1..n -> FormRules] : n \in 0..2}
      /\ w.rules["output"] \in UNION {[1..n -> FormRules] : n \in 0..2}
  BY ONLY <1>3
<1>5. w.extra \in [{"status", "filter_ipv6"} -> {NilField, "plain"}]
  BY ONLY <1>3
<1>. QED  BY ONLY <1>2, <1>4, <1>5 DEF Rulesets, V

(* The API reads what the caller gave, in every configuration of a         *)
(* firewall and every traffic query (FormEncoding): no rule, field or      *)
(* address is lost, shifted or cut, and nothing is added.                  *)
THEOREM FormsAreRead == Spec => []FormsArrive
<1>1. ASSUME TypeOK, Is("rulesets"),
             NEW extras \in {UpdateExtras(Wire.extra), TemplateExtras(TemplateOf(Wire.rules))}
      PROVE  /\ \A d \in DOMAIN Wire.rules :
                  ReadRules(EncodeRules(Wire.rules, extras), d, {"action", "src_ip"}) = Wire.rules[d]
             /\ ReadExtras(EncodeRules(Wire.rules, extras)) = extras
  <2>1. Wire \in Configurations
    BY <1>1 DEF TypeOK, Is, Wires
  <2>2. {"action", "filter_ipv6", "input", "is_default", "name", "output", "src_ip", "status",
         "whitelist_hos"} \subseteq Range(Names)
    <3>1. DOMAIN Names = 1..19
      BY DEF Names
    <3>2. /\ Names[1] = "action" /\ Names[4] = "filter_ipv6" /\ Names[6] = "input"
          /\ Names[8] = "is_default" /\ Names[9] = "name" /\ Names[10] = "output"
          /\ Names[13] = "src_ip" /\ Names[15] = "status" /\ Names[19] = "whitelist_hos"
      BY DEF Names
    <3>. QED  BY ONLY <3>1, <3>2 DEF Range
  <2>3. /\ extras = [f \in DOMAIN extras |-> extras[f]]
        /\ DOMAIN extras \subseteq {"filter_ipv6", "is_default", "name", "status", "whitelist_hos"}
    <3>1. CASE extras = UpdateExtras(Wire.extra)
      <4>1. DOMAIN Wire.extra = {"status", "filter_ipv6"}
        BY <2>1, RulesetsAreSent
      <4>. QED  BY ONLY <3>1, <4>1 DEF UpdateExtras, Restrict
    <3>2. CASE extras = TemplateExtras(TemplateOf(Wire.rules))
      BY ONLY <3>2 DEF TemplateExtras, Restrict
    <3>. QED  BY <1>1, <3>1, <3>2
  <2>. DEFINE fields == {"action", "src_ip"}
  <2>. DEFINE V == {Unset, "plain", "a&b"}
  <2>. DEFINE rules == Wire.rules
  <2>4. /\ "action" \in fields /\ fields \subseteq Range(Names)
        /\ DOMAIN rules \subseteq Range(Names)
        /\ \A d \in DOMAIN rules : rules[d] \in Rulesets(fields, V)
        /\ DOMAIN extras \subseteq Range(Names)
    BY <2>1, <2>2, <2>3, RulesetsAreSent
  <2>. HIDE DEF fields, V, rules
  <2>5. /\ ReadExtras(EncodeRules(rules, extras)) = extras
        /\ \A d \in DOMAIN rules : ReadRules(EncodeRules(rules, extras), d, fields) = rules[d]
    BY ONLY <2>3, <2>4, RulesArrive
  <2>. QED  BY ONLY <2>5 DEF fields, rules
<1>2. ASSUME TypeOK, Is("queries")
      PROVE  /\ ReadList(TrafficForm(Wire), "ip")
                  = (IF Wire.ip = Unset THEN <<>> ELSE <<Wire.ip>>) \o Wire.ips
             /\ ReadList(TrafficForm(Wire), "subnet") = Wire.subnets
             /\ ReadList(ServersForm(Wire.ips), "server") = Wire.ips
             /\ ReadExtras(TrafficForm(Wire)) = AskedOf(Wire)
  <2>. DEFINE V == {Unset, "plain", "a&b"}
  <2>1. Wire \in Queries
    BY <1>2 DEF TypeOK, Is, Wires
  <2>2. Addresses(2) \subseteq Seq(V)
    <3>. DEFINE W == {"plain", "a&b"}
    <3>1. W \subseteq V
      OBVIOUS
    <3>. HIDE DEF V, W
    <3>2. \A n \in 0..2 : [1..n -> W] \subseteq Seq(V)
      BY ONLY <3>1
    <3>3. Addresses(2) = UNION {[1..k -> W] : k \in 0..2}
      BY DEF Addresses, W
    <3>. QED  BY ONLY <3>2, <3>3
  <2>3. Wire.ip \in V /\ Wire.ips \in Seq(V) /\ Wire.subnets \in Seq(V)
    BY <2>1, <2>2 DEF Queries
  <2>. HIDE DEF V
  <2>. QED  BY ONLY <2>3, QueriesArrive, ServersArrive
<1>3. ASSUME TypeOK PROVE FormsArrive
  BY <1>1, <1>2, <1>3 DEF FormsArrive, AskedOf
<1>. QED  BY <1>3, TypeCorrect, PTL
=============================================================================
