----------------------- MODULE FirewallServiceProofs -----------------------
(***************************************************************************)
(* Proofs about FirewallService: any set of users, operations, rules and   *)
(* first configurations.                                                   *)
(***************************************************************************)
EXTENDS FirewallService, Induction, FiniteSetTheorems

(***************************************************************************)
(* Type correctness is not inductive alone: what an actor is about to send *)
(* must be a request, and only a request on its way is sent.               *)
(***************************************************************************)
RequestInFlight(a) ==
  /\ pc[a] = "get" => op[a] \in Operations /\ op[a].kind # "direct"
  /\ pc[a] \in {"send", "wait"} => request[a] \in RequestType
  /\ sent[a] => pc[a] = "wait"

(* Nothing, or the one ruleset a request replaced.                         *)
Replaced == {{}} \cup {{s} : s \in Rulesets}

TypeInv ==
  /\ remote \in ConfigType
  /\ late \subseteq RequestType
  /\ pc \in [Actors -> {"idle", "get", "send", "wait", "done"}]
  /\ op \in [Actors -> Operations \cup {NoOp}]
  /\ request \in [Actors -> RequestType \cup {NoRequest}]
  /\ sent \in [Actors -> BOOLEAN]
  /\ result \in [Actors -> {"pending", "ok", "error", "rejected"}]
  /\ ops \in [Actors -> 0..MaxOps]
  /\ blind \in BOOLEAN
  /\ replaced \in [Actors -> Replaced]
  /\ \A a \in Actors : RequestInFlight(a)

LEMMA NoRulesTyped == NoRules \in Rulesets
BY EmptySeq DEF NoRules, Rulesets

LEMMA ConcatTyped ==
  ASSUME NEW s \in Rulesets, NEW t \in Rulesets
  PROVE  Concat(s, t) \in Rulesets
BY ConcatProperties DEF Concat, Rulesets

(* What StatusRequest copies, and from where.                              *)
LEMMA StatusRequestFields ==
  ASSUME NEW o \in Operations, o.kind # "direct",
         NEW c, c.hos \in Settings, c.v6 \in Settings, c.rules \in Rulesets
  PROVE  /\ StatusRequest(o, c) \in RequestType
         /\ StatusRequest(o, c).verb = "POST"
         /\ StatusRequest(o, c).hos = c.hos
         /\ StatusRequest(o, c).v6 = c.v6
         /\ o.kind = "keep" => StatusRequest(o, c).rules = c.rules
         /\ o.kind = "with" => StatusRequest(o, c).rules = o.rules
         /\ o.kind \in {"keep", "with"}
<1>1. o \in [kind : {"keep", "with"}, status : {"active", "disabled"}, rules : Rulesets]
  BY FirewallAssumption DEF OperationType
<1>2. QED BY <1>1 DEF StatusRequest, RequestType

LEMMA ZeroConfigFields ==
  /\ ZeroConfig.hos \in Settings /\ ZeroConfig.v6 \in Settings
  /\ ZeroConfig.rules \in Rulesets /\ ZeroConfig.rules = NoRules
BY NoRulesTyped DEF ZeroConfig, Settings

LEMMA DirectRequestType ==
  ASSUME NEW o \in Operations, o.kind = "direct"
  PROVE  o.request \in RequestType
BY FirewallAssumption DEF OperationType

(* The configuration the API has after a request.                          *)
LEMMA AfterFields ==
  ASSUME remote \in ConfigType, NEW r \in RequestType
  PROVE  /\ After(r) \in ConfigType
         /\ r.verb # "DELETE" => /\ After(r).rules = Concat(Internal, r.rules)
                                 /\ After(r).hos = Setting(r.hos)
                                 /\ After(r).v6 = Setting(r.v6)
         /\ r.verb = "DELETE" => After(r).rules = Internal
<1>1. r.rules \in Rulesets
  BY DEF RequestType
<1>2. Concat(Internal, r.rules) \in Rulesets
  BY <1>1, FirewallAssumption, ConcatTyped
<1>3. Setting(r.hos) \in Settings /\ Setting(r.v6) \in Settings
  BY DEF RequestType, Setting, Settings
<1>4. CASE r.verb = "DELETE"
  BY <1>4, FirewallAssumption DEF After, ConfigType, Settings
<1>5. CASE r.verb # "DELETE"
  BY <1>2, <1>3, <1>5 DEF After, ConfigType, RequestType
<1>6. QED BY <1>4, <1>5

-----------------------------------------------------------------------------
LEMMA InitTypeInv == Init => TypeInv
<1>. SUFFICES ASSUME Init PROVE TypeInv
  OBVIOUS
<1>1. remote \in ConfigType
  BY FirewallAssumption DEF Init
<1>2. ops \in [Actors -> 0..MaxOps]
  BY FirewallAssumption DEF Init
<1>3. replaced \in [Actors -> Replaced]
  BY DEF Init, Replaced
<1>4. QED BY <1>1, <1>2, <1>3 DEF Init, TypeInv, RequestInFlight

LEMMA BeginTypeInv ==
  ASSUME TypeInv, NEW a \in Actors, NEW o \in Operations, Begin(a, o)
  PROVE  TypeInv'
<1>1. ops' \in [Actors -> 0..MaxOps]
  BY FirewallAssumption DEF TypeInv, Begin
<1>2. replaced' \in [Actors -> Replaced]
  BY DEF TypeInv, Begin, Replaced
<1>3. op' \in [Actors -> Operations \cup {NoOp}]
  BY DEF TypeInv, Begin
<1>4. CASE o.kind = "direct"
  BY <1>1, <1>2, <1>3, <1>4, DirectRequestType DEF TypeInv, RequestInFlight, Begin, Goto
<1>5. CASE o.kind # "direct"
  BY <1>1, <1>2, <1>3, <1>5 DEF TypeInv, RequestInFlight, Begin, Goto
<1>6. QED BY <1>4, <1>5

LEMMA ReadsTypeInv ==
  ASSUME TypeInv, NEW a \in Actors, NEW c, Reads(a, c), blind' \in BOOLEAN,
         c.hos \in Settings, c.v6 \in Settings, c.rules \in Rulesets
  PROVE  TypeInv'
<1>1. StatusRequest(op[a], c) \in RequestType
  BY StatusRequestFields DEF TypeInv, RequestInFlight, Reads
<1>2. QED BY <1>1 DEF TypeInv, RequestInFlight, Reads, Goto

LEMMA AnswersTypeInv ==
  ASSUME TypeInv, NEW a \in Actors,
         GetFails(a) \/ Send(a) \/ ApiRefuses(a) \/ Answered(a) \/ CallFails(a)
  PROVE  TypeInv'
<1>1. CASE GetFails(a)
  BY <1>1 DEF TypeInv, RequestInFlight, GetFails, Return, Goto
<1>2. CASE Send(a)
  BY <1>2 DEF TypeInv, RequestInFlight, Send, Return, Goto
<1>3. CASE ApiRefuses(a)
  BY <1>3 DEF TypeInv, RequestInFlight, ApiRefuses, Return, Goto
<1>4. CASE Answered(a)
  BY <1>4 DEF TypeInv, RequestInFlight, Answered, Return, Goto
<1>5. CASE CallFails(a)
  BY <1>5 DEF TypeInv, RequestInFlight, CallFails, Return, Goto
<1>6. QED BY <1>1, <1>2, <1>3, <1>4, <1>5

LEMMA ApiTypeInv ==
  ASSUME TypeInv,
         \/ \E a \in Actors : ApiApplies(a)
         \/ Settle
         \/ \E r \in late : LateRequestApplies(r)
  PROVE  TypeInv'
<1>1. ASSUME NEW a \in Actors, ApiApplies(a) PROVE TypeInv'
  <2>1. request[a] \in RequestType
    BY <1>1 DEF TypeInv, RequestInFlight, ApiApplies
  <2>2. After(request[a]) \in ConfigType
    BY <2>1, AfterFields DEF TypeInv
  <2>3. replaced' \in [Actors -> Replaced]
    BY <1>1 DEF TypeInv, ConfigType, ApiApplies, Replaced
  <2>4. QED BY <1>1, <2>2, <2>3 DEF TypeInv, RequestInFlight, ApiApplies
<1>2. CASE Settle
  BY <1>2 DEF TypeInv, RequestInFlight, Settle, ConfigType
<1>3. ASSUME NEW r \in late, LateRequestApplies(r) PROVE TypeInv'
  <2>1. After(r) \in ConfigType
    BY AfterFields DEF TypeInv
  <2>2. QED BY <1>3, <2>1 DEF TypeInv, RequestInFlight, LateRequestApplies
<1>4. QED BY <1>1, <1>2, <1>3

LEMMA NextTypeInv == TypeInv /\ [Next]_vars => TypeInv'
<1>. SUFFICES ASSUME TypeInv, [Next]_vars PROVE TypeInv'
  OBVIOUS
<1>1. ASSUME NEW a \in Actors, NEW o \in Operations, Begin(a, o) PROVE TypeInv'
  BY <1>1, BeginTypeInv
<1>2. ASSUME NEW a \in Actors, GetReturns(a) PROVE TypeInv'
  BY <1>2, ReadsTypeInv DEF GetReturns, TypeInv, ConfigType
<1>3. ASSUME NEW a \in Actors, GetReturnsNothing(a) PROVE TypeInv'
  BY <1>3, ReadsTypeInv, ZeroConfigFields DEF GetReturnsNothing
<1>4. CASE UNCHANGED vars
  BY <1>4 DEF TypeInv, RequestInFlight, vars
<1>5. QED
  BY <1>1, <1>2, <1>3, <1>4, AnswersTypeInv, ApiTypeInv DEF Next, Finished

LEMMA TypeInvAlways == Spec => []TypeInv
BY InitTypeInv, NextTypeInv, PTL DEF Spec

LEMMA TypeInvImpliesTypeOK == TypeInv => TypeOK
<1>. SUFFICES ASSUME TypeInv, NEW a \in Actors
     PROVE  replaced[a] \subseteq Rulesets /\ Cardinality(replaced[a]) <= 1
  BY DEF TypeInv, TypeOK
<1>1. replaced[a] = {} \/ \E s \in Rulesets : replaced[a] = {s}
  BY DEF TypeInv, Replaced
<1>2. CASE replaced[a] = {}
  BY <1>2, FS_EmptySet
<1>3. ASSUME NEW s \in Rulesets, replaced[a] = {s}
      PROVE  replaced[a] \subseteq Rulesets /\ Cardinality(replaced[a]) <= 1
  <2>1. Cardinality({s}) = 1
    BY FS_Singleton
  <2>2. QED BY <1>3, <2>1
<1>4. QED BY <1>1, <1>2, <1>3

(* The state of users, requests and server is always what TypeOK says,     *)
(* whatever operations run.                                                *)
THEOREM TypeCorrect == Spec => []TypeOK
BY TypeInvAlways, TypeInvImpliesTypeOK, PTL

-----------------------------------------------------------------------------
(***************************************************************************)
(* What changes the server's ruleset: a request that is still to be        *)
(* applied, of a caller who waits or of one who has given up.              *)
(***************************************************************************)
Pending == late \cup {request[a] : a \in {b \in Actors : sent[b]}}

LEMMA PendingRequests ==
  ASSUME TypeInv, NEW r \in Pending
  PROVE  /\ r \in RequestType
         /\ r \in late \/ \E a \in Actors : sent[a] /\ pc[a] = "wait" /\ r = request[a]
BY DEF Pending, TypeInv, RequestInFlight

LEMMA WritesAreRequests ==
  ASSUME TypeInv, [Next]_vars
  PROVE  \/ remote'.rules = remote.rules
         \/ \E r \in Pending : remote' = After(r)
<1>1. ASSUME NEW a \in Actors, ApiApplies(a) PROVE \E r \in Pending : remote' = After(r)
  BY <1>1 DEF ApiApplies, Pending
<1>2. ASSUME NEW r \in late, LateRequestApplies(r)
      PROVE  \E q \in Pending : remote' = After(q)
  BY <1>2 DEF LateRequestApplies, Pending
<1>3. CASE Settle
  BY <1>3 DEF TypeInv, ConfigType, Settle
<1>4. CASE UNCHANGED vars
  BY <1>4 DEF vars
<1>5. QED
  BY <1>1, <1>2, <1>3, <1>4
     DEF Next, Finished, Begin, GetReturns, GetReturnsNothing, Reads, GetFails, Send,
         ApiRefuses, Answered, CallFails

-----------------------------------------------------------------------------
(***************************************************************************)
(* The ceiling of the input rules.  Bounding the server's ruleset alone is *)
(* not inductive: the bound comes from the count that Update makes before  *)
(* it sends, so every request that may still be applied has passed that    *)
(* count or names a template, the ones that their callers have given up    *)
(* included.                                                               *)
(***************************************************************************)
FirstWithinCeiling ==
  \A c \in Configs : Len(c.rules.input) <= MaxInputRules + Len(Internal.input)

OfTemplate(r) == r.verb = "TEMPLATE" => r.rules \in Templates

CountedInv ==
  /\ \A a \in Actors :
       /\ pc[a] = "wait" => ~TooManyRules(request[a])
       /\ pc[a] \in {"send", "wait"} => OfTemplate(request[a])
  /\ \A r \in late : ~TooManyRules(r) /\ OfTemplate(r)

LEMMA AfterWithinCeiling ==
  ASSUME remote \in ConfigType, NEW r \in RequestType, ~TooManyRules(r), OfTemplate(r)
  PROVE  \/ Len(After(r).rules.input) <= MaxInputRules + Len(Internal.input)
         \/ \E t \in Templates : After(r).rules = Concat(Internal, t)
<1>1. r.rules.input \in Seq(Rules) /\ Internal.input \in Seq(Rules) /\ MaxInputRules \in Nat
  BY FirewallAssumption DEF RequestType, Rulesets
<1>2. Len(r.rules.input) \in Nat /\ Len(Internal.input) \in Nat
  BY <1>1, LenProperties
<1>3. CASE r.verb = "POST"
  <2>1. Len(Internal.input \o r.rules.input) = Len(Internal.input) + Len(r.rules.input)
    BY <1>1, ConcatProperties
  <2>2. Len(After(r).rules.input) = Len(Internal.input) + Len(r.rules.input)
    <3>1. After(r).rules = Concat(Internal, r.rules)
      BY <1>3, AfterFields
    <3>2. Concat(Internal, r.rules).input = Internal.input \o r.rules.input
      BY DEF Concat
    <3>3. QED BY <2>1, <3>1, <3>2
  <2>3. Len(r.rules.input) <= MaxInputRules
    BY <1>1, <1>2, <1>3 DEF TooManyRules
  <2>4. Len(After(r).rules.input) <= MaxInputRules + Len(Internal.input)
    BY <1>1, <1>2, <2>2, <2>3
  <2>5. QED BY <2>4
<1>4. CASE r.verb = "DELETE"
  BY <1>1, <1>2, <1>4, AfterFields
<1>5. CASE r.verb = "TEMPLATE"
  BY <1>5, AfterFields DEF OfTemplate
<1>6. QED BY <1>3, <1>4, <1>5 DEF RequestType

(* What an actor begins with, and what setStatus sends, is no template's   *)
(* unless ApplyTemplate runs.                                              *)
LEMMA BegunOfTemplate ==
  ASSUME NEW o \in Operations, o.kind = "direct"
  PROVE  OfTemplate(o.request)
BY DEF OfTemplate, Templates

LEMMA StatusOfTemplate ==
  ASSUME NEW o, NEW c
  PROVE  OfTemplate(StatusRequest(o, c))
BY DEF OfTemplate, StatusRequest

LEMMA NextCountedInv == TypeInv /\ CountedInv /\ [Next]_vars => CountedInv'
<1>. SUFFICES ASSUME TypeInv, CountedInv, [Next]_vars PROVE CountedInv'
  OBVIOUS
<1>. USE DEF CountedInv
<1>1. ASSUME NEW a \in Actors, NEW o \in Operations, Begin(a, o) PROVE CountedInv'
  BY <1>1, BegunOfTemplate DEF TypeInv, Begin, Goto
<1>2. ASSUME NEW a \in Actors, NEW c, Reads(a, c) PROVE CountedInv'
  BY <1>2, StatusOfTemplate DEF TypeInv, Reads, Goto
<1>3. ASSUME NEW a \in Actors, GetFails(a) PROVE CountedInv'
  BY <1>3 DEF TypeInv, GetFails, Return, Goto
<1>4. ASSUME NEW a \in Actors, Send(a) PROVE CountedInv'
  BY <1>4 DEF TypeInv, Send, Return, Goto
<1>5. ASSUME NEW a \in Actors, ApiApplies(a) PROVE CountedInv'
  BY <1>5 DEF ApiApplies
<1>6. ASSUME NEW a \in Actors, ApiRefuses(a) PROVE CountedInv'
  BY <1>6 DEF TypeInv, ApiRefuses, Return, Goto
<1>7. ASSUME NEW a \in Actors, Answered(a) PROVE CountedInv'
  BY <1>7 DEF TypeInv, Answered, Return, Goto
<1>8. ASSUME NEW a \in Actors, CallFails(a) PROVE CountedInv'
  BY <1>8 DEF TypeInv, RequestInFlight, CallFails, Return, Goto
<1>9. CASE Settle
  BY <1>9 DEF Settle
<1>10. ASSUME NEW r \in late, LateRequestApplies(r) PROVE CountedInv'
  BY <1>10 DEF LateRequestApplies
<1>11. CASE UNCHANGED vars
  BY <1>11 DEF vars
<1>12. QED
  BY <1>1, <1>2, <1>3, <1>4, <1>5, <1>6, <1>7, <1>8, <1>9, <1>10, <1>11
     DEF Next, GetReturns, GetReturnsNothing, Finished

LEMMA NextWithinCeiling ==
  TypeInv /\ CountedInv /\ InputAccumulationIsBounded /\ [Next]_vars
    => InputAccumulationIsBounded'
<1>. SUFFICES ASSUME TypeInv, CountedInv, InputAccumulationIsBounded, [Next]_vars
     PROVE  InputAccumulationIsBounded'
  OBVIOUS
<1>1. CASE remote'.rules = remote.rules
  BY <1>1 DEF InputAccumulationIsBounded
<1>2. ASSUME NEW r \in Pending, remote' = After(r) PROVE InputAccumulationIsBounded'
  <2>1. r \in RequestType /\ ~TooManyRules(r) /\ OfTemplate(r) /\ remote \in ConfigType
    BY PendingRequests DEF TypeInv, CountedInv
  <2>2. QED BY <1>2, <2>1, AfterWithinCeiling DEF InputAccumulationIsBounded
<1>3. QED BY <1>1, <1>2, WritesAreRequests

(* However Activate is repeated, by however many users and with requests   *)
(* that arrive late, the input rules of the server exceed the ceiling of   *)
(* ValidateRules by no more than one set of internal ones, or are those of *)
(* a template behind one set.                                              *)
THEOREM InputAccumulationBounded ==
  ASSUME FirstWithinCeiling
  PROVE  Spec => []InputAccumulationIsBounded
<1>1. Init => CountedInv /\ InputAccumulationIsBounded
  BY DEF FirstWithinCeiling, Init, CountedInv, InputAccumulationIsBounded
<1>2. QED
  BY <1>1, NextCountedInv, NextWithinCeiling, TypeInvAlways, PTL DEF Spec

-----------------------------------------------------------------------------
(***************************************************************************)
(* The two settings.  Only setStatus operations run here.  Each request    *)
(* carries the settings its Get saw; since no request so far has changed   *)
(* them, those are the server's settings of now, in the requests that were *)
(* given up too.                                                           *)
(***************************************************************************)
SetStatusOnly == \A o \in Operations : o.kind # "direct"

CarriesSettings(r) == r.verb = "POST" /\ r.hos = remote.hos /\ r.v6 = remote.v6

SettingsInv ==
  ~blind =>
    /\ \A a \in Actors : pc[a] \in {"send", "wait"} => CarriesSettings(request[a])
    /\ \A r \in late : CarriesSettings(r)

SettingsKept == remote'.hos = remote.hos /\ remote'.v6 = remote.v6

LEMMA AfterKeepsSettings ==
  ASSUME remote \in ConfigType, NEW r \in RequestType, CarriesSettings(r)
  PROVE  After(r).hos = remote.hos /\ After(r).v6 = remote.v6
<1>1. remote.hos \in Settings /\ remote.v6 \in Settings
  BY DEF ConfigType
<1>2. remote.hos # Omitted /\ remote.v6 # Omitted
  BY <1>1 DEF Settings, Omitted
<1>3. QED BY <1>2, AfterFields DEF CarriesSettings, Setting

LEMMA NextSettingsInv ==
  ASSUME SetStatusOnly
  PROVE  TypeInv /\ SettingsInv /\ [Next]_vars
           => SettingsInv' /\ (~blind' => SettingsKept)
<1>. DEFINE Goal == SettingsInv' /\ (~blind' => SettingsKept)
<1>. SUFFICES ASSUME TypeInv, SettingsInv, [Next]_vars PROVE Goal
  OBVIOUS
<1>. USE DEF SettingsInv, SettingsKept, CarriesSettings
<1>1. ASSUME NEW a \in Actors, NEW o \in Operations, Begin(a, o) PROVE Goal
  BY <1>1 DEF SetStatusOnly, TypeInv, Begin, Goto
<1>2. ASSUME NEW a \in Actors, GetReturns(a) PROVE Goal
  <2>1. /\ StatusRequest(op[a], remote).verb = "POST"
        /\ StatusRequest(op[a], remote).hos = remote.hos
        /\ StatusRequest(op[a], remote).v6 = remote.v6
    <3>1. op[a] \in Operations /\ op[a].kind # "direct"
      BY <1>2 DEF TypeInv, RequestInFlight, GetReturns, Reads
    <3>2. remote.hos \in Settings /\ remote.v6 \in Settings /\ remote.rules \in Rulesets
      BY DEF TypeInv, ConfigType
    <3>3. QED BY <3>1, <3>2, StatusRequestFields
  <2>2. QED BY <1>2, <2>1 DEF TypeInv, GetReturns, Reads, Goto
<1>3. ASSUME NEW a \in Actors, GetReturnsNothing(a) PROVE Goal
  BY <1>3 DEF GetReturnsNothing
<1>4. ASSUME NEW a \in Actors, GetFails(a) PROVE Goal
  BY <1>4 DEF TypeInv, GetFails, Return, Goto
<1>5. ASSUME NEW a \in Actors, Send(a) PROVE Goal
  BY <1>5 DEF TypeInv, Send, Return, Goto
<1>6. ASSUME NEW a \in Actors, ApiApplies(a) PROVE Goal
  <2>1. request[a] \in RequestType /\ pc[a] = "wait" /\ remote \in ConfigType
    BY <1>6 DEF TypeInv, RequestInFlight, ApiApplies
  <2>2. ~blind => /\ After(request[a]).hos = remote.hos
                  /\ After(request[a]).v6 = remote.v6
    BY <2>1, AfterKeepsSettings
  <2>3. QED BY <1>6, <2>2 DEF ApiApplies
<1>7. ASSUME NEW a \in Actors, ApiRefuses(a) PROVE Goal
  BY <1>7 DEF TypeInv, ApiRefuses, Return, Goto
<1>8. ASSUME NEW a \in Actors, Answered(a) PROVE Goal
  BY <1>8 DEF TypeInv, Answered, Return, Goto
<1>9. ASSUME NEW a \in Actors, CallFails(a) PROVE Goal
  BY <1>9 DEF TypeInv, RequestInFlight, CallFails, Return, Goto
<1>10. CASE Settle
  BY <1>10 DEF TypeInv, ConfigType, Settle
<1>11. ASSUME NEW r \in late, LateRequestApplies(r) PROVE Goal
  <2>1. ~blind => After(r).hos = remote.hos /\ After(r).v6 = remote.v6
    BY AfterKeepsSettings DEF TypeInv
  <2>2. QED BY <1>11, <2>1 DEF LateRequestApplies
<1>12. CASE UNCHANGED vars
  BY <1>12 DEF vars
<1>13. QED
  BY <1>1, <1>2, <1>3, <1>4, <1>5, <1>6, <1>7, <1>8, <1>9, <1>10, <1>11, <1>12
     DEF Next, Finished

(* setStatus "always" carries whitelist_hos and filter_ipv6 over: any      *)
(* number of users, overlaps, failures and late arrivals change neither,   *)
(* as long as every Get had a body.                                        *)
THEOREM SettingsAlwaysSurvive ==
  ASSUME SetStatusOnly
  PROVE  Spec => SettingsSurvive
<1>1. Init => SettingsInv
  BY DEF Init, SettingsInv
<1>2. TypeInv /\ SettingsInv /\ [Next]_vars
        => [~blind' => SettingsKept]_vars
  BY NextSettingsInv
<1>3. TypeInv /\ SettingsInv /\ [Next]_vars => SettingsInv'
  BY NextSettingsInv
<1>4. QED
  BY <1>1, <1>2, <1>3, TypeInvAlways, PTL DEF Spec, SettingsSurvive, SettingsKept

-----------------------------------------------------------------------------
(***************************************************************************)
(* A user alone, with no request of the past still on its way.  Between    *)
(* the Get and the moment the API applies the request nothing else writes, *)
(* so what the request was built from is what it replaces; and what has    *)
(* been applied for it is what the server has until its answer.            *)
(***************************************************************************)
Alone == ~LatePosts /\ \A a, b \in Actors : a = b

Writing(a) == pc[a] = "send" \/ sent[a]

AloneInv ==
  /\ late = {}
  /\ \A a \in Actors :
       /\ pc[a] \in {"get", "send"} => replaced[a] = {} /\ result[a] = "pending"
       /\ pc[a] = "wait" => result[a] = "pending"
       /\ sent[a] => replaced[a] = {}

KeepInv ==
  ~blind => /\ KeepsRuleset
            /\ \A a \in Actors :
                 op[a].kind = "keep" /\ Writing(a) => request[a].rules = remote.rules

WithInv ==
  /\ LastSuccessStands
  /\ \A a \in Actors : op[a].kind = "with" =>
       /\ pc[a] \in {"send", "wait"} => /\ request[a].verb = "POST"
                                        /\ request[a].rules = op[a].rules
       /\ pc[a] = "wait" /\ ~sent[a] => remote.rules = Concat(Internal, op[a].rules)

LEMMA ReadsStatusRequest ==
  ASSUME TypeInv, NEW a \in Actors, NEW c, Reads(a, c),
         c.hos \in Settings, c.v6 \in Settings, c.rules \in Rulesets
  PROVE  /\ request' = [request EXCEPT ![a] = StatusRequest(op[a], c)]
         /\ request'[a].verb = "POST"
         /\ op[a].kind = "keep" => request'[a].rules = c.rules
         /\ op[a].kind = "with" => request'[a].rules = op[a].rules
<1>1. op[a] \in Operations /\ op[a].kind # "direct"
  BY DEF TypeInv, RequestInFlight, Reads
<1>2. request'[a] = StatusRequest(op[a], c)
  BY DEF TypeInv, Reads
<1>3. QED BY <1>1, <1>2, StatusRequestFields DEF Reads

LEMMA NextAloneInv ==
  ASSUME Alone
  PROVE  TypeInv /\ AloneInv /\ KeepInv /\ WithInv /\ [Next]_vars
           => AloneInv' /\ KeepInv' /\ WithInv'
<1>. DEFINE Goal == AloneInv' /\ KeepInv' /\ WithInv'
<1>. SUFFICES ASSUME TypeInv, AloneInv, KeepInv, WithInv, [Next]_vars PROVE Goal
  OBVIOUS
<1>. USE DEF AloneInv, KeepInv, WithInv, KeepsRuleset, LastSuccessStands, Writing
<1>0. \A a, b \in Actors : a = b
  BY DEF Alone
<1>1. ASSUME NEW a \in Actors, NEW o \in Operations, Begin(a, o) PROVE Goal
  BY <1>0, <1>1 DEF TypeInv, RequestInFlight, Begin, Goto
<1>2. ASSUME NEW a \in Actors, GetReturns(a) PROVE Goal
  <2>1. remote.hos \in Settings /\ remote.v6 \in Settings /\ remote.rules \in Rulesets
    BY DEF TypeInv, ConfigType
  <2>2. Reads(a, remote) /\ blind' = blind
    BY <1>2 DEF GetReturns
  <2>3. /\ request' = [request EXCEPT ![a] = StatusRequest(op[a], remote)]
        /\ request'[a].verb = "POST"
        /\ op[a].kind = "keep" => request'[a].rules = remote.rules
        /\ op[a].kind = "with" => request'[a].rules = op[a].rules
    BY <2>1, <2>2, ReadsStatusRequest
  <2>4. QED BY <1>0, <2>2, <2>3 DEF TypeInv, RequestInFlight, Reads, Goto
<1>3. ASSUME NEW a \in Actors, GetReturnsNothing(a) PROVE Goal
  <2>1. Reads(a, ZeroConfig) /\ blind'
    BY <1>3 DEF GetReturnsNothing
  <2>2. /\ request'[a].verb = "POST"
        /\ op[a].kind = "with" => request'[a].rules = op[a].rules
    BY <2>1, ZeroConfigFields, ReadsStatusRequest
  <2>3. QED BY <1>0, <2>1, <2>2 DEF TypeInv, RequestInFlight, Reads, Goto
<1>4. ASSUME NEW a \in Actors, GetFails(a) PROVE Goal
  BY <1>0, <1>4 DEF TypeInv, RequestInFlight, GetFails, Return, Goto
<1>5. ASSUME NEW a \in Actors, Send(a) PROVE Goal
  BY <1>0, <1>5 DEF TypeInv, RequestInFlight, Send, Return, Goto
<1>6. ASSUME NEW a \in Actors, ApiApplies(a) PROVE Goal
  <2>1. request[a] \in RequestType /\ pc[a] = "wait" /\ remote \in ConfigType
    BY <1>6 DEF TypeInv, RequestInFlight, ApiApplies
  <2>2. op[a].kind = "with" => After(request[a]).rules = Concat(Internal, op[a].rules)
    BY <2>1, AfterFields
  <2>3. /\ remote' = After(request[a]) /\ ~sent'[a] /\ replaced'[a] = {remote.rules}
        /\ UNCHANGED <<late, pc, op, request, result, blind>>
    BY <1>6 DEF TypeInv, ApiApplies
  <2>4. \A b \in Actors : b = a
    BY <1>0
  <2>5. AloneInv'
    BY <2>1, <2>3, <2>4
  <2>6. KeepInv'
    BY <1>6, <2>1, <2>3, <2>4 DEF ApiApplies
  <2>7. WithInv'
    BY <2>1, <2>2, <2>3, <2>4
  <2>8. QED BY <2>5, <2>6, <2>7
<1>7. ASSUME NEW a \in Actors, ApiRefuses(a) PROVE Goal
  BY <1>0, <1>7 DEF TypeInv, RequestInFlight, ApiRefuses, Return, Goto
<1>8. ASSUME NEW a \in Actors, Answered(a) PROVE Goal
  BY <1>0, <1>8 DEF TypeInv, RequestInFlight, Answered, Return, Goto
<1>9. ASSUME NEW a \in Actors, CallFails(a) PROVE Goal
  BY <1>0, <1>9 DEF Alone, TypeInv, RequestInFlight, CallFails, Return, Goto
<1>10. CASE Settle
  BY <1>10 DEF TypeInv, ConfigType, Settle
<1>11. CASE UNCHANGED vars
  BY <1>11 DEF vars
<1>12. QED
  BY <1>1, <1>2, <1>3, <1>4, <1>5, <1>6, <1>7, <1>8, <1>9, <1>10, <1>11
     DEF Next, Finished

LEMMA AloneInvAlways ==
  ASSUME Alone
  PROVE  Spec => [](AloneInv /\ KeepInv /\ WithInv)
<1>1. Init => AloneInv /\ KeepInv /\ WithInv
  BY DEF Init, AloneInv, KeepInv, WithInv, KeepsRuleset, LastSuccessStands, Writing, NoOp
<1>2. TypeInv /\ AloneInv /\ KeepInv /\ WithInv /\ [Next]_vars
        => AloneInv' /\ KeepInv' /\ WithInv'
  BY NextAloneInv
<1>3. QED BY <1>1, <1>2, TypeInvAlways, PTL DEF Spec

(* Activate and Disable of a user who is alone keep the ruleset, as long   *)
(* as every Get had a body: they replace a ruleset with itself.            *)
THEOREM KeepsWhenTold ==
  ASSUME Alone
  PROVE  Spec => []KeepsRulesetWhenTold
<1>1. KeepInv => KeepsRulesetWhenTold
  BY DEF KeepInv, KeepsRulesetWhenTold
<1>2. QED BY <1>1, AloneInvAlways, PTL

(* What ActivateWithRules and DisableWithRules of a user who is alone      *)
(* report as done is what the server has, until the next operation.        *)
THEOREM SuccessStands ==
  ASSUME Alone
  PROVE  Spec => []LastSuccessStands
<1>1. WithInv => LastSuccessStands
  BY DEF WithInv
<1>2. QED BY <1>1, AloneInvAlways, PTL

-----------------------------------------------------------------------------
(***************************************************************************)
(* Repeating a sequence once more.                                         *)
(***************************************************************************)
LEMMA RepeatedStep ==
  ASSUME NEW r \in Seq(Rules)
  PROVE  /\ Repeated(r, 0) = <<>>
         /\ Repeated(r, 1) = r
         /\ \A n \in Nat : Repeated(r, n + 1) = Repeated(r, n) \o r
<1>1. Repeated(r, 0) = <<>>
  <2>. DEFINE s == [i \in 1..0 |-> r]
  <2>1. s = <<>>
    OBVIOUS
  <2>. QED  BY <2>1, FlattenEmpty DEF Repeated
<1>2. ASSUME NEW n \in Nat PROVE Repeated(r, n + 1) = Repeated(r, n) \o r
  <2>. DEFINE s == [i \in 1..n |-> r]
  <2>1. s \in Seq(Seq(Rules)) /\ [i \in 1..(n + 1) |-> r] = Append(s, r)
    OBVIOUS
  <2>. HIDE DEF s
  <2>2. FlattenSeq(Append(s, r)) = FlattenSeq(s) \o r
    BY <2>1, FlattenAppend
  <2>. QED  BY <2>1, <2>2 DEF Repeated, s
<1>3. Repeated(r, 1) = r
  <2>1. Repeated(r, 0 + 1) = <<>> \o r
    BY <1>1, <1>2
  <2>2. <<>> \o r = r
    BY ConcatEmptySeq
  <2>. QED  BY <2>1, <2>2
<1>. QED  BY <1>1, <1>2, <1>3

(* The sequence may as well be added in front, as the API does.            *)
LEMMA RepeatedProperties ==
  ASSUME NEW r \in Seq(Rules), NEW n \in Nat
  PROVE  /\ Repeated(r, n) \in Seq(Rules)
         /\ r \o Repeated(r, n) = Repeated(r, n + 1)
         /\ r # <<>> => Len(Repeated(r, n)) >= n
         /\ r = <<>> => Repeated(r, n) = <<>>
<1>. DEFINE Holds(k) == /\ Repeated(r, k) \in Seq(Rules)
                        /\ r \o Repeated(r, k) = Repeated(r, k + 1)
                        /\ r # <<>> => Len(Repeated(r, k)) >= k
                        /\ r = <<>> => Repeated(r, k) = <<>>
<1>. DEFINE S == {k \in Nat : Holds(k)}
<1>1. r \in Seq(Rules)
  OBVIOUS
<1>2. 0 \in S
  <2>1. Repeated(r, 0) = <<>> /\ Repeated(r, 0 + 1) = r
    BY RepeatedStep
  <2>2. <<>> \in Seq(Rules) /\ r \o <<>> = r /\ Len(<<>>) = 0
    BY <1>1, ConcatEmptySeq, EmptySeq
  <2>3. Len(Repeated(r, 0)) >= 0
    <3>1. Len(Repeated(r, 0)) = 0
      BY <2>1, <2>2
    <3>2. QED BY <3>1
  <2>4. r \o Repeated(r, 0) = Repeated(r, 0 + 1)
    BY <2>1, <2>2
  <2>5. Repeated(r, 0) \in Seq(Rules) /\ Repeated(r, 0) = <<>>
    BY <2>1, <2>2
  <2>6. Holds(0)
    BY ONLY <2>3, <2>4, <2>5
  <2>7. QED BY <2>6
<1>3. ASSUME NEW k \in Nat, k \in S PROVE k + 1 \in S
  <2>. DEFINE c == Repeated(r, k)
  <2>1. c \in Seq(Rules) /\ r \o c = Repeated(r, k + 1)
    BY <1>3
  <2>2. Repeated(r, k + 1) \in Seq(Rules)
    BY <1>1, <2>1, ConcatProperties
  <2>3. r \o Repeated(r, k + 1) = Repeated(r, (k + 1) + 1)
    <3>1. Repeated(r, (k + 1) + 1) = Repeated(r, k + 1) \o r
      <4>1. k + 1 \in Nat /\ k + 1 # 0
        OBVIOUS
      <4>2. QED BY ONLY <4>1, RepeatedStep
    <3>2. CASE k = 0
      <4>1. Repeated(r, k + 1) = r
        BY <3>2, RepeatedStep
      <4>2. QED BY <3>1, <4>1
    <3>3. CASE k # 0
      <4>1. Repeated(r, k + 1) = c \o r
        BY <3>3, RepeatedStep
      <4>2. r \o (c \o r) = (r \o c) \o r
        <5>. HIDE DEF c
        <5>1. r \in Seq(Rules) /\ c \in Seq(Rules)
          BY <1>1, <2>1
        <5>2. QED BY ONLY <5>1, ConcatAssociative
      <4>3. QED BY <2>1, <3>1, <4>1, <4>2
    <3>4. QED BY <3>2, <3>3
  <2>4. r # <<>> => Len(Repeated(r, k + 1)) >= k + 1
    <3>1. Len(Repeated(r, k + 1)) = Len(r) + Len(c)
      BY <1>1, <2>1, ConcatProperties
    <3>2. r # <<>> => Len(r) >= 1
      BY <1>1, EmptySeq, LenProperties
    <3>3. Len(r) \in Nat /\ Len(c) \in Nat
      BY <1>1, <2>1, LenProperties
    <3>4. r # <<>> => Len(c) >= k
      BY <1>3
    <3>5. QED BY <3>1, <3>2, <3>3, <3>4
  <2>5. r = <<>> => Repeated(r, k + 1) = <<>>
    BY <1>3, <2>1, ConcatEmptySeq
  <2>6. QED BY <2>2, <2>3, <2>4, <2>5
<1>4. n \in S
  <2>. HIDE DEF S
  <2>1. Nat \subseteq S
    BY <1>2, <1>3, SetInduction
  <2>2. QED BY <2>1
<1>5. QED BY <1>4

LEMMA RepeatedInFront ==
  ASSUME NEW s \in Seq(Rules), NEW t \in Seq(Rules), NEW n \in Nat
  PROVE  s \o (Repeated(s, n) \o t) = Repeated(s, n + 1) \o t
<1>1. Repeated(s, n) \in Seq(Rules) /\ s \o Repeated(s, n) = Repeated(s, n + 1)
  BY RepeatedProperties
<1>2. \A u \in Seq(Rules) : s \o (u \o t) = (s \o u) \o t
  BY ConcatAssociative
<1>3. s \o (Repeated(s, n) \o t) = (s \o Repeated(s, n)) \o t
  BY <1>1, <1>2
<1>4. QED BY <1>1, <1>3

-----------------------------------------------------------------------------
(***************************************************************************)
(* Every ruleset in the system, on the server, in a request or on its way, *)
(* is one that somebody authored behind copies of the internal rules, as   *)
(* many in either direction.  The ruleset has no fewer rules than copies,  *)
(* unless there are no internal rules.                                     *)
(***************************************************************************)
Unmixed(rules) == \E n \in Nat, r \in Authored : rules = Concat(Copies(n), r)

MixtureInv ==
  /\ Unmixed(remote.rules)
  /\ \A a \in Actors : pc[a] \in {"send", "wait"} =>
        request[a].verb = "POST" /\ Unmixed(request[a].rules)
  /\ \A r \in late : r.verb = "POST" /\ Unmixed(r.rules)

LEMMA AuthoredRulesets ==
  /\ Authored \subseteq Rulesets
  /\ NoRules \in Authored
  /\ \A c \in Configs : c.rules \in Authored
  /\ \A o \in Operations : o.kind = "with" => o.rules \in Authored
<1>1. \A c \in Configs : c.rules \in Rulesets
  BY FirewallAssumption DEF ConfigType
<1>2. \A o \in Operations : o.kind = "with" => o.rules \in Rulesets
  BY FirewallAssumption DEF OperationType
<1>3. QED BY <1>1, <1>2, NoRulesTyped DEF Authored

LEMMA InternalTyped == Internal.input \in Seq(Rules) /\ Internal.output \in Seq(Rules)
BY FirewallAssumption DEF Rulesets

LEMMA AuthoredIsUnmixed ==
  ASSUME NEW r \in Authored
  PROVE  Unmixed(r)
<1>1. r = [input |-> r.input, output |-> r.output]
      /\ r.input \in Seq(Rules) /\ r.output \in Seq(Rules)
  BY AuthoredRulesets DEF Rulesets
<1>2. Copies(0) = [input |-> <<>>, output |-> <<>>]
  BY RepeatedStep, InternalTyped DEF Copies
<1>3. <<>> \o r.input = r.input /\ <<>> \o r.output = r.output
  BY <1>1, ConcatEmptySeq
<1>4. Concat(Copies(0), r) = r
  BY <1>1, <1>2, <1>3 DEF Concat
<1>5. QED BY <1>4 DEF Unmixed

LEMMA AppliedIsUnmixed ==
  ASSUME NEW rules, Unmixed(rules)
  PROVE  Unmixed(Concat(Internal, rules))
<1>1. PICK n \in Nat, r \in Authored : rules = Concat(Copies(n), r)
  BY DEF Unmixed
<1>2. r.input \in Seq(Rules) /\ r.output \in Seq(Rules)
  BY AuthoredRulesets DEF Rulesets
<1>3. Internal.input \o (Repeated(Internal.input, n) \o r.input)
        = Repeated(Internal.input, n + 1) \o r.input
  BY <1>2, InternalTyped, RepeatedInFront
<1>4. Internal.output \o (Repeated(Internal.output, n) \o r.output)
        = Repeated(Internal.output, n + 1) \o r.output
  BY <1>2, InternalTyped, RepeatedInFront
<1>5. Concat(Internal, rules) = Concat(Copies(n + 1), r)
  BY <1>1, <1>3, <1>4 DEF Concat, Copies
<1>6. QED BY <1>5 DEF Unmixed

(* How many copies a ruleset has can be told from its length.              *)
LEMMA RepeatedFits ==
  ASSUME NEW s \in Seq(Rules), NEW t \in Seq(Rules), NEW n \in Nat, s # <<>>
  PROVE  n <= Len(Repeated(s, n) \o t)
<1>1. Repeated(s, n) \in Seq(Rules) /\ Len(Repeated(s, n)) >= n
  BY RepeatedProperties
<1>2. Len(Repeated(s, n) \o t) = Len(Repeated(s, n)) + Len(t)
  BY <1>1, ConcatProperties
<1>3. Len(Repeated(s, n)) \in Nat /\ Len(t) \in Nat
  BY <1>1, LenProperties
<1>4. QED BY <1>1, <1>2, <1>3

LEMMA WithinSum ==
  \A n, x, y \in Nat : n <= x \/ n <= y => n \in 0..(x + y)
OBVIOUS

LEMMA CopiesFit ==
  ASSUME NEW rules \in Rulesets, Unmixed(rules)
  PROVE  \E n \in 0..(Len(rules.input) + Len(rules.output)), r \in Authored :
           rules = Concat(Copies(n), r)
<1>1. PICK n \in Nat, r \in Authored : rules = Concat(Copies(n), r)
  BY DEF Unmixed
<1>2. r.input \in Seq(Rules) /\ r.output \in Seq(Rules)
  BY AuthoredRulesets DEF Rulesets
<1>3. Len(rules.input) \in Nat /\ Len(rules.output) \in Nat
  BY LenProperties DEF Rulesets
<1>4. CASE Internal.input = <<>> /\ Internal.output = <<>>
  <2>1. Copies(n) = Copies(0)
    BY <1>4, InternalTyped, RepeatedProperties, RepeatedStep DEF Copies
  <2>2. 0 \in 0..(Len(rules.input) + Len(rules.output))
    <3>1. 0 \in Nat /\ 0 <= Len(rules.input)
      BY <1>3
    <3>2. QED BY <1>3, <3>1, WithinSum
  <2>3. QED BY <1>1, <2>1, <2>2
<1>5. CASE Internal.input # <<>>
  <2>1. rules.input = Repeated(Internal.input, n) \o r.input
    BY <1>1 DEF Concat, Copies
  <2>2. n <= Len(rules.input)
    BY <1>2, <1>5, <2>1, InternalTyped, RepeatedFits
  <2>3. n \in 0..(Len(rules.input) + Len(rules.output))
    BY <1>3, <2>2, WithinSum
  <2>4. QED BY <1>1, <2>3
<1>6. CASE Internal.output # <<>>
  <2>1. rules.output = Repeated(Internal.output, n) \o r.output
    BY <1>1 DEF Concat, Copies
  <2>2. n <= Len(rules.output)
    BY <1>2, <1>6, <2>1, InternalTyped, RepeatedFits
  <2>3. n \in 0..(Len(rules.input) + Len(rules.output))
    BY <1>3, <2>2, WithinSum
  <2>4. QED BY <1>1, <2>3
<1>7. QED BY <1>4, <1>5, <1>6

LEMMA NextMixtureInv ==
  ASSUME SetStatusOnly
  PROVE  TypeInv /\ MixtureInv /\ [Next]_vars => MixtureInv'
<1>. SUFFICES ASSUME TypeInv, MixtureInv, [Next]_vars PROVE MixtureInv'
  OBVIOUS
<1>1. Unmixed(remote.rules)'
  <2>1. CASE remote'.rules = remote.rules
    BY <2>1 DEF MixtureInv, Unmixed
  <2>2. ASSUME NEW r \in Pending, remote' = After(r)
        PROVE  Unmixed(remote.rules)'
    <3>1. /\ r \in RequestType /\ remote \in ConfigType
          /\ r.verb = "POST" /\ Unmixed(r.rules)
      BY PendingRequests DEF TypeInv, MixtureInv
    <3>2. Unmixed(Concat(Internal, r.rules))
      BY <3>1, AppliedIsUnmixed
    <3>3. remote'.rules = Concat(Internal, r.rules)
      BY <2>2, <3>1, AfterFields
    <3>4. QED BY <3>2, <3>3 DEF Unmixed
  <2>3. QED BY <2>1, <2>2, WritesAreRequests
<1>. DEFINE Sound(r) == r.verb = "POST" /\ Unmixed(r.rules)
<1>. DEFINE Requests == /\ \A a \in Actors : pc[a] \in {"send", "wait"} => Sound(request[a])
                        /\ \A r \in late : Sound(r)
<1>2. Requests
  BY DEF MixtureInv
<1>3. ASSUME NEW a \in Actors, NEW c, Reads(a, c), c.hos \in Settings, c.v6 \in Settings,
             c.rules \in Rulesets, Unmixed(c.rules)
      PROVE  Requests'
  <2>1. op[a] \in Operations /\ op[a].kind # "direct"
    BY <1>3 DEF TypeInv, RequestInFlight, Reads
  <2>2. Sound(StatusRequest(op[a], c))
    <3>1. CASE op[a].kind = "keep"
      BY <1>3, <2>1, <3>1, StatusRequestFields
    <3>2. CASE op[a].kind = "with"
      BY <1>3, <2>1, <3>2, StatusRequestFields, AuthoredRulesets, AuthoredIsUnmixed
    <3>3. QED BY <1>3, <2>1, <3>1, <3>2, StatusRequestFields
  <2>. HIDE DEF Sound
  <2>3. QED BY <1>2, <1>3, <2>2 DEF TypeInv, Reads, Goto
<1>4. ASSUME NEW a \in Actors, GetReturns(a) PROVE Requests'
  <2>1. Unmixed(remote.rules)
    BY DEF MixtureInv
  <2>2. remote.hos \in Settings /\ remote.v6 \in Settings /\ remote.rules \in Rulesets
    BY DEF TypeInv, ConfigType
  <2>3. QED BY <1>3, <1>4, <2>1, <2>2 DEF GetReturns
<1>5. ASSUME NEW a \in Actors, GetReturnsNothing(a) PROVE Requests'
  BY <1>3, <1>5, ZeroConfigFields, AuthoredRulesets, AuthoredIsUnmixed DEF GetReturnsNothing
<1>6. ASSUME NEW a \in Actors, NEW o \in Operations, Begin(a, o) PROVE Requests'
  BY <1>2, <1>6 DEF SetStatusOnly, TypeInv, Begin, Goto
<1>7. ASSUME NEW a \in Actors, CallFails(a) PROVE Requests'
  <2>. HIDE DEF Sound
  <2>1. QED BY <1>2, <1>7 DEF TypeInv, RequestInFlight, CallFails, Return, Goto
<1>8. ASSUME NEW a \in Actors, GetFails(a) \/ Send(a) \/ ApiRefuses(a) \/ Answered(a)
      PROVE  Requests'
  <2>. HIDE DEF Sound
  <2>1. QED
    BY <1>2, <1>8
       DEF TypeInv, RequestInFlight, GetFails, Send, ApiRefuses, Answered, Return, Goto
<1>9. ASSUME \/ \E a \in Actors : ApiApplies(a)
             \/ Settle
             \/ \E r \in late : LateRequestApplies(r)
             \/ UNCHANGED vars
      PROVE  Requests'
  <2>. HIDE DEF Sound
  <2>1. QED BY <1>2, <1>9 DEF ApiApplies, Settle, LateRequestApplies, vars
<1>10. Requests'
  BY <1>4, <1>5, <1>6, <1>7, <1>8, <1>9 DEF Next, Finished
<1>11. QED BY <1>1, <1>10 DEF MixtureInv

(* With setStatus operations alone, whatever their overlap, failures and   *)
(* late arrivals, the server has a ruleset that one caller authored, or    *)
(* that it had at first, behind copies of the internal rules.              *)
THEOREM RulesetsNeverMix ==
  ASSUME SetStatusOnly
  PROVE  Spec => []NeverAMixture
<1>1. Init => MixtureInv
  BY AuthoredRulesets, AuthoredIsUnmixed DEF Init, MixtureInv
<1>2. TypeInv /\ MixtureInv => NeverAMixture
  BY CopiesFit DEF TypeInv, ConfigType, MixtureInv, NeverAMixture
<1>3. TypeInv /\ MixtureInv /\ [Next]_vars => MixtureInv'
  BY NextMixtureInv
<1>4. QED
  BY <1>1, <1>2, <1>3, TypeInvAlways, PTL DEF Spec
=============================================================================
