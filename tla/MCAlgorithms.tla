---------------------------- MODULE MCAlgorithms ----------------------------
(***************************************************************************)
(* The pure parts of the client, each over all of its bounded inputs.  A   *)
(* behaviour has one subject:                                              *)
(*   limits   a client configured by its options, and one header or body   *)
(*            after the other against every limit the options can leave,   *)
(*            with an int64 narrowed to -16..15 so that its edges are      *)
(*            visited                                                      *)
(*   rules    every pair of rulesets up to a length, one that the caller   *)
(*            posts and one that the API injects, and whether the API      *)
(*            expands version-less rules                                   *)
(*   envelope one resource or a list of them, bare or in the envelope that *)
(*            the API wraps it in                                          *)
(*   errors   the bodies of answers that are not 2xx                       *)
(* and, each with its inputs one at a time,                                *)
(*   scalars  values of JSON against the decoders, with a uint64 narrowed  *)
(*            to 13 bits and a float64 to 11, of a unit of 4               *)
(*   times    timestamps around the hours at which Berlin sets its clocks  *)
(*   ports    port specifications of one part or two, of four ports        *)
(*   boot     the fields of a boot configuration                           *)
(*   resets   the seconds of a RateLimit-Reset, at the moment 7            *)
(*   rulesets configurations of a firewall as forms                        *)
(*   queries  traffic queries as forms                                     *)
(***************************************************************************)
EXTENDS ClientLimits, FirewallRules, Responses, Decoders, FormEncoding

CONSTANTS
  Subjects,      \* the subjects of the run
  DefaultMaxRetryAfter, DefaultMaxResponseBytes,
  MaxRules       \* the longest ruleset of each kind

ASSUME AlgorithmsAssumption == /\ DefaultMaxRetryAfter \in 1..MaxInt
                               /\ DefaultMaxResponseBytes \in 1..MaxInt

Int64 == -(MaxInt + 1) .. MaxInt

Keys == {"id", "ip", "rules"}

(* A resource has fields of every type, or is a list of names.             *)
Fields == {Scalar, Object([k \in {"in"} |-> Scalar]), Array(<<Scalar>>)}

Objects == UNION {{Object(f) : f \in [ks -> Fields]} : ks \in SUBSET Keys}

Resources == Objects \cup {Array(<<>>), Array(<<Scalar>>)}

MaxResources == 2

(* What an answer that is not 2xx may say.                                 *)
HttpStatuses == {401, 500}

Codes == {"UNAUTHORIZED", "FIREWALL_RULE_LIMIT_EXCEEDED", "SERVER_NOT_FOUND",
          "A_NEW_CODE", Absent, NullCode, OtherType}

Failures == [form : {"invalid", "noError", "null", "wrong"}, code : {Absent}, status : {0}]
              \cup [form : {"detail"}, code : Codes, status : {0, 404, 409}]

-----------------------------------------------------------------------------
(* Berlin is two hours ahead from the instant 10 to the instant 20.        *)
BerlinOffset(t) == IF t \in 10..19 THEN 2 ELSE 1

SmallNumbers == 0..40

NearMax == (2*MaxUint-8 .. 2*MaxUint+8) \cap Nat

Texts == [form : {"number"}, n : -2..20 \cup {2 * MaxUint, 2 * MaxUint + 2}, unit : {0}]
           \cup [form : {"size"}, n : SmallNumbers \cup NearMax, unit : 0..4]
           \cup [form : {"unlimited", "word", "empty"}, n : {0}, unit : {0}]

Scalars == [type : {"string"}, text : Texts]
             \cup [type : {"number"}, text : {t \in Texts : t.form = "number"}]
             \cup [type : {"null", "bool", "object"}, text : {Empty}]

Times == [type : {"string"}, text : [form : {"local", "zoned"}, n : 5..25, unit : 0..3]]

Ports == 0..MaxPort + 1

Parts == [form : {"port", "range"}, start : Ports, end : Ports, spaced : {FALSE}]
           \cup [form : {"empty", "port", "word"}, start : {1}, end : {1}, spaced : BOOLEAN]

PortSpecs == UNION {[1..n -> Parts] : n \in 1..2}

Word(c) == String(Text(c, 0, 0))

(* The halves between -3/2 and 3/2: whole and not, on both sides of zero.   *)
BootNumbers == {[type |-> "number", text |-> Text("number", n, 0)] : n \in -3..3}

BootItems == {Word("a"), Word("b"), Null} \cup BootNumbers

BootFields == BootItems \cup {List(s) : s \in UNION {[1..n -> BootItems] : n \in 0..2}}

FormRules == [action : {Unset, "plain"}, src_ip : {Unset, "plain", "a&b"}]

Configurations ==
  [rules : [input : UNION {[1..n -> FormRules] : n \in 0..2},
            output : UNION {[1..n -> FormRules] : n \in 0..1}],
   extra : [status : {NilField, "plain"}, filter_ipv6 : {NilField, "plain"}]]

TemplateOf(rules) == [name |-> "a&b", filter_ipv6 |-> "plain", whitelist_hos |-> "plain",
                      is_default |-> "plain", rules |-> rules]

Addresses(n) == UNION {[1..k -> {"plain", "a&b"}] : k \in 0..n}

Queries == [type : {"plain"}, from : {"plain"}, to : {"a&b"}, single : BOOLEAN,
            ip : {Unset, "plain", "a&b"}, ips : Addresses(2), subnets : Addresses(2)]

Wires(s) == CASE s = "scalars"  -> Scalars
              [] s = "times"    -> Times
              [] s = "ports"    -> PortSpecs
              [] s = "boot"     -> BootFields
              [] s = "resets"   -> 0..MaxInt
              [] s = "rulesets" -> Configurations
              [] s = "queries"  -> Queries

Conversions == {"scalars", "times", "ports", "boot", "resets", "rulesets", "queries"}

-----------------------------------------------------------------------------
VARIABLES subject,
          maxRetryAfter, maxResponseBytes, header, size,
          posted, injected, expands,
          resources, httpStatus, failure,
          given

(* The input of a conversion, once it is given.                            *)
Wire == given[1]

limitsVars == <<maxRetryAfter, maxResponseBytes, header, size>>

rulesVars == <<posted, injected, expands>>

errorsVars == <<httpStatus, failure>>

vars == <<subject, limitsVars, rulesVars, resources, errorsVars, given>>

TypeOK == /\ subject \in Subjects
          /\ maxRetryAfter \in 1..MaxInt
          /\ maxResponseBytes \in 1..MaxInt
          /\ header \in [form : HeaderForms, n : Int64]
          /\ size \in 0..MaxInt
          /\ posted \in Seq(Rules)
          /\ injected \in Seq(Rules)
          /\ expands \in BOOLEAN
          /\ resources \in Seq(Resources)
          /\ httpStatus \in HttpStatuses
          /\ failure \in Failures
          /\ given = <<>> \/ Wire \in Wires(subject)

Init == /\ subject \in Subjects
        /\ maxRetryAfter = DefaultMaxRetryAfter
        /\ maxResponseBytes = DefaultMaxResponseBytes
        /\ header = [form |-> "absent", n |-> 0]
        /\ size = 0
        /\ posted = <<>>
        /\ injected = <<>>
        /\ expands \in BOOLEAN
        /\ resources = <<>>
        /\ httpStatus = 500
        /\ failure = [form |-> "invalid", code |-> Absent, status |-> 0]
        /\ given = <<>>

-----------------------------------------------------------------------------
SetMaxRetryAfter == \E d \in Int64 :
  /\ maxRetryAfter' = WithMaxRetryAfter(maxRetryAfter, d)
  /\ UNCHANGED <<maxResponseBytes, header, size>>

SetMaxResponseBytes == \E n \in Int64 :
  /\ maxResponseBytes' = WithMaxResponseBytes(maxResponseBytes, n)
  /\ UNCHANGED <<maxRetryAfter, header, size>>

(* The header and the body are judged independently, so a response shows   *)
(* a new one of either.                                                    *)
AskToWait == \E form \in HeaderForms, n \in Int64 :
  /\ header' = [form |-> form, n |-> IF form \in {"seconds", "date"} THEN n ELSE 0]
  /\ size' = 0
  /\ UNCHANGED <<maxRetryAfter, maxResponseBytes>>

SendBody == \E n \in 0..MaxInt :
  /\ size' = n
  /\ header' = [form |-> "absent", n |-> 0]
  /\ UNCHANGED <<maxRetryAfter, maxResponseBytes>>

Author(r) == /\ Len(posted) < MaxRules
             /\ posted' = Append(posted, r)
             /\ UNCHANGED <<injected, expands>>

Inject(r) == /\ Len(injected) < MaxRules
             /\ injected' = Append(injected, r)
             /\ UNCHANGED <<posted, expands>>

(* The next ruleset.                                                       *)
StartOver == /\ posted' = <<>>
             /\ injected' = <<>>
             /\ UNCHANGED expands

LimitsStep == /\ subject = "limits"
              /\ SetMaxRetryAfter \/ SetMaxResponseBytes \/ AskToWait \/ SendBody
              /\ UNCHANGED <<subject, rulesVars, resources, errorsVars, given>>

RulesStep == /\ subject = "rules"
             /\ StartOver \/ \E r \in Rules : Author(r) \/ Inject(r)
             /\ UNCHANGED <<subject, limitsVars, resources, errorsVars, given>>

EnvelopeStep == /\ subject = "envelope"
                /\ \/ resources' = <<>>
                   \/ /\ Len(resources) < MaxResources
                      /\ \E r \in Resources : resources' = Append(resources, r)
                /\ UNCHANGED <<subject, limitsVars, rulesVars, errorsVars, given>>

ErrorsStep == /\ subject = "errors"
              /\ httpStatus' \in HttpStatuses
              /\ failure' \in Failures
              /\ UNCHANGED <<subject, limitsVars, rulesVars, resources, given>>

ConversionStep == /\ subject \in Conversions
                  /\ \/ given' = <<>>
                     \/ given = <<>> /\ \E w \in Wires(subject) : given' = <<w>>
                  /\ UNCHANGED <<subject, limitsVars, rulesVars, resources, errorsVars>>

Next == LimitsStep \/ RulesStep \/ EnvelopeStep \/ ErrorsStep \/ ConversionStep

Spec == Init /\ [][Next]_vars

-----------------------------------------------------------------------------
(* The wait the header asks for, over the integers: no width, no wrap.     *)
ExactRequest(h) == CASE h.form = "seconds" -> h.n * Second
                     [] h.form = "date"    -> h.n
                     [] h.form = "above"   -> (MaxInt + 1) * Second
                     [] OTHER              -> 0

(* The wait taken is the requested one clamped to [0, limit], computed as  *)
(* if integers were unbounded: client.go says that the clamp "neutralizes  *)
(* the int64 overflow edge" of a huge Retry-After.                         *)
WaitIsTheClampedRequest ==
  RetryAfter(header, maxRetryAfter) =
    LET want == ExactRequest(header)
    IN  IF want <= 0 THEN 0 ELSE Smaller(want, maxRetryAfter)

(* A body within the limit is read whole and one above it is reported,     *)
(* never shortened and passed on: readBodyLimited, for every limit the     *)
(* options accept including the largest int64.                             *)
BodyIsReadWholeOrRefused ==
  IF size <= maxResponseBytes
  THEN BytesRead(size, maxResponseBytes) = size /\ ~TooLarge(size, maxResponseBytes)
  ELSE TooLarge(size, maxResponseBytes)

-----------------------------------------------------------------------------
(* The ruleset the API answers with.                                       *)
Returned == Normalize(injected \o posted, expands)

Found == InjectedRules(posted, Returned)

BodiesOf(s) == {s[i].body : i \in DOMAIN s}

-----------------------------------------------------------------------------
(***************************************************************************)
(* What happens to a packet of version v, decided by the rules themselves: *)
(* the first one that is for the version, or for none in particular, and   *)
(* that matches the packet.  Body b matches the packets of kind b, and the *)
(* body "all" every packet.                                                *)
(***************************************************************************)
Matching(v, kind) == [body : {kind, "all"}, version : {v, "any"}]

IsFirst(s, M, i) ==
  i \in DOMAIN s /\ s[i] \in M /\ \A j \in DOMAIN s : s[j] \in M => i <= j

Decision(rules, v, kind) ==
  IF \E i \in DOMAIN rules : rules[i] \in Matching(v, kind)
  THEN rules[CHOOSE i \in DOMAIN rules : IsFirst(rules, Matching(v, kind), i)].body
  ELSE "none"

(***************************************************************************)
(* Equivalent "reports whether both rulesets filter traffic identically":  *)
(* it never claims so of rulesets that treat a packet differently.         *)
(***************************************************************************)
EquivalentFiltersAlike ==
  RulesEquivalent(posted, injected) =>
    \A v \in Versions, kind \in Bodies :
      Decision(posted, v, kind) = Decision(injected, v, kind)

(***************************************************************************)
(* "A version-less rule compares equal to its per-version expansion": the  *)
(* ruleset the API stores is equivalent to the one that was posted.        *)
(***************************************************************************)
NormalizationIsEquivalent == RulesEquivalent(posted, Normalize(posted, expands))

(***************************************************************************)
(* When no injected rule looks like an authored one, the diff finds        *)
(* exactly the injected rules, in order and with their multiplicity.       *)
(***************************************************************************)
DiffIsExact ==
  BodiesOf(posted) \cap BodiesOf(injected) = {} => Found = Normalize(injected, expands)

(***************************************************************************)
(* "Together with Equivalent they let a reconcile loop converge"           *)
(* (CHANGELOG.md:48): with the found rules taken out, what Get returns is  *)
(* equivalent to what was posted, so the loop sees no drift.               *)
(***************************************************************************)
ReconcileConverges == RulesEquivalent(RemoveRules(Returned, Found), posted)

(***************************************************************************)
(* It does so when every version-less rule comes back as two halves, the   *)
(* normalization that the code documents, and with any normalization when  *)
(* no injected rule looks like an authored one.                            *)
(***************************************************************************)
ReconcileConvergesIfSeparable ==
  expands \/ BodiesOf(posted) \cap BodiesOf(injected) = {} => ReconcileConverges

-----------------------------------------------------------------------------
Enveloped(k, r) == Object([x \in {k} |-> r])

AllEnveloped(k, s) == Array([i \in DOMAIN s |-> Enveloped(k, s[i])])

(***************************************************************************)
(* The caller decodes the resource and nothing else: one envelope is taken *)
(* off, from a resource as from every element of a list, and never a       *)
(* second that is a part of the resource, whatever its shape.  What        *)
(* arrives without an envelope is not cut: a resource that names its id or *)
(* has other than one field, and a list in which two elements differ in    *)
(* their keys (unwrapResponse and its special cases).                      *)
(***************************************************************************)
EnvelopeAloneIsTaken ==
  /\ \A k \in Keys \ {"id"} :
       /\ \A i \in DOMAIN resources : Unwrap(Enveloped(k, resources[i])) = resources[i]
       /\ Unwrap(AllEnveloped(k, resources)) = Array(resources)
  /\ \A i \in DOMAIN resources :
       LET r == resources[i]
       IN  r.type = "object" /\ ("id" \in DOMAIN r.fields \/ Cardinality(DOMAIN r.fields) # 1)
             => Unwrap(r) = r
  /\ (\E i, j \in DOMAIN resources :
        /\ resources[i].type = "object" /\ resources[j].type = "object"
        /\ DOMAIN resources[i].fields # DOMAIN resources[j].fields)
       => Unwrap(Array(resources)) = Array(resources)

-----------------------------------------------------------------------------
Failed == ErrorFromResponse(httpStatus, failure)

(***************************************************************************)
(* A caller can act on every error of the API that was decoded: it keeps   *)
(* the code and the status the API gave, a code this client does not know  *)
(* among them, and it never has the status 0, which a body without one or  *)
(* an error page of a proxy would leave (errorFromResponse).  And "callers *)
(* can treat local and remote rejections uniformly": the check of an error *)
(* gives the same verdict on the rejection this client makes as on the one *)
(* the API makes with the same code.                                       *)
(***************************************************************************)
ErrorsAreActionable ==
  Failed = Panic \/
    /\ Failed.status = IF failure.status # 0 THEN failure.status ELSE httpStatus
    /\ failure.code \notin {Absent, NullCode, OtherType} => Failed.code = failure.code
    /\ Failed.code = CredentialsError.code =>
         IsUnauthorizedError("validation", CredentialsError) = IsUnauthorizedError("api", Failed)
    /\ Failed.code = RuleLimitError.code =>
         IsFirewallRuleLimitExceededError("validation", RuleLimitError)
           = IsFirewallRuleLimitExceededError("api", Failed)

(***************************************************************************)
(* "ErrUnknown is set when the error response from the API could not be    *)
(* parsed or did not include a recognised code" (errors.go:164): an error  *)
(* response without a code gives ErrUnknown.                               *)
(***************************************************************************)
UnrecognisedIsUnknown ==
  failure.code \in {Absent, NullCode, OtherType} => Failed.code = Unknown

-----------------------------------------------------------------------------
Is(s) == subject = s /\ given # <<>>

Priors == {[unlimited |-> TRUE, bytes |-> 1, raw |-> Text("word", 0, 0)], NoTraffic}

(***************************************************************************)
(* What the decoders of traffic, prices, ids and resets give depends on    *)
(* what the answer means, and on nothing else.  Not on the receiver: a     *)
(* scalar, null, empty or of the wrong type, gives the same in any ("Reset *)
(* so reused receivers do not retain values from a prior decode"), as does *)
(* a reset that can be decoded; one that cannot leaves its receiver as it  *)
(* was.  And not on the encoding: a number and the string that holds it    *)
(* mean the same traffic, price and id, and a word means the same type of  *)
(* reset as a list of it ("GET returns an array, POST a string",           *)
(* types.go:461).                                                          *)
(***************************************************************************)
DecodingDependsOnTheMeaning ==
  /\ Is("scalars") =>
       /\ \A p, q \in Priors : UnmarshalTrafficSize(p, Wire) = UnmarshalTrafficSize(q, Wire)
       /\ UnmarshalStringFloat(1, Wire) = UnmarshalStringFloat(0, Wire)
       /\ UnmarshalFlexibleID(Empty, Wire) = UnmarshalFlexibleID(NumberText(1), Wire)
  /\ Is("scalars") /\ Wire.type = "number" =>
       LET quoted == String(Wire.text) IN
         /\ UnmarshalTrafficSize(NoTraffic, Wire).ok =>
              UnmarshalTrafficSize(NoTraffic, Wire).value.bytes
                = UnmarshalTrafficSize(NoTraffic, quoted).value.bytes
         /\ UnmarshalStringFloat(0, Wire) = UnmarshalStringFloat(0, quoted)
         /\ UnmarshalFlexibleID(Empty, Wire) = UnmarshalFlexibleID(Empty, quoted)
  /\ Is("boot") /\ UnmarshalReset(<<>>, Wire).ok
       => UnmarshalReset(<<>>, Wire) = UnmarshalReset(<<Empty>>, Wire)
  /\ Is("boot") /\ Wire.type = "string" =>
       UnmarshalReset(<<>>, Wire) = UnmarshalReset(<<>>, List(<<Wire>>))

(***************************************************************************)
(* Encoding a decoded value and decoding it again gives the same value:    *)
(* traffic in any form the API has, also one this client does not know     *)
(* ("Always preserve the original Wire value"), and a price of four        *)
(* places.                                                                 *)
(***************************************************************************)
ReencodingIsStable ==
  Is("scalars") =>
    LET traffic == UnmarshalTrafficSize(NoTraffic, Wire)
        price == UnmarshalStringFloat(0, Wire)
    IN  /\ traffic.ok =>
             UnmarshalTrafficSize(NoTraffic, MarshalTrafficSize(traffic.value)) = traffic
        /\ price.ok /\ price.value % 2 = 0 =>
             \A json \in MarshalStringFloat(price.value) : UnmarshalStringFloat(0, json) = price

(* Each unit is as many as KiB of the one before.                          *)
Scale[unit \in 0..4] == IF unit = 0 THEN 1 ELSE KiB * Scale[unit - 1]

(***************************************************************************)
(* A quota with a unit is at most the largest uint64 and never wraps: a    *)
(* larger one is not taken for fewer bytes, across the units and at the    *)
(* bound, which as a float is one more than the largest integer            *)
(* (TrafficSize.UnmarshalJSON).                                            *)
(***************************************************************************)
LargerQuotaIsNotLess ==
  Is("scalars") /\ Wire.text.form = "size" =>
    \A other \in {t \in Texts : t.form = "size"} :
      Wire.text.n * Scale[Wire.text.unit] <= other.n * Scale[other.unit]
        => TrafficBytes(Wire.text) <= TrafficBytes(other)

(***************************************************************************)
(* A timestamp keeps its instant through encoding and decoding, whatever   *)
(* the offset it came with, except in the hour that the wall shows twice.  *)
(***************************************************************************)
InstantSurvives ==
  Is("times") =>
    \A first \in UnmarshalBerlinTime(NoTime, Wire) :
      LET json == MarshalBerlinTime(first.value) IN
        Cardinality(Instants(json.text.n)) = 1 =>
          \A again \in UnmarshalBerlinTime(NoTime, json) :
            again.value.instant = first.value.instant

(***************************************************************************)
(* A port specification that is accepted gives the ports that its parts    *)
(* name, in order, none of them empty or above the largest port, and       *)
(* writing the ranges gives a specification of the same ranges.            *)
(***************************************************************************)
PortsAreThoseWritten ==
  Is("ports") /\ ParsePortRange(Wire).ok =>
    LET ranges == ParsePortRange(Wire).value
        Named(p) == CASE p.form = "port"  -> {p.start}
                      [] p.form = "range" -> p.start..p.end
                      [] OTHER            -> {}
    IN  /\ UNION {r.start..r.end : r \in Range(ranges)} = UNION {Named(p) : p \in Range(Wire)}
        /\ \A r \in Range(ranges) : r.start \in 0..r.end /\ r.end <= MaxPort
        /\ ParsePortRange([i \in DOMAIN ranges |-> FormatPortRange(ranges[i])]).value = ranges

(* The integer next to a number, counted in halves, on the side of zero.   *)
IsIntegerOf(integer, text) ==
  IF text.form # "number" THEN integer = text
  ELSE /\ integer.form = "number" /\ integer.n % 2 = 0
       /\ IF text.n >= 0 THEN integer.n \in {text.n - 1, text.n} \cap Nat
                         ELSE -integer.n \in {-text.n - 1, -text.n} \cap Nat

(***************************************************************************)
(* What a boot configuration has chosen and what it may choose from are    *)
(* told apart: never both; a list of choices is offered whole and in order *)
(* ("string when active, []string when not", boot.go:49), its numbers as   *)
(* the integers next to them on the side of zero; and a choice is the same *)
(* once it is made as when it was offered.                                 *)
(***************************************************************************)
ActiveOrAvailable ==
  Is("boot") => \A type \in {"string", "number"} :
    /\ ActiveScalar(type, Empty, Wire) = Empty \/ Options(type, Wire) = <<>>
    /\ Wire.type = "array" /\ (\A i \in DOMAIN Wire.items : Wire.items[i].type = type)
         => /\ DOMAIN Options(type, Wire) = DOMAIN Wire.items
            /\ \A i \in DOMAIN Wire.items :
                 IsIntegerOf(Options(type, Wire)[i], Wire.items[i].text)
    /\ Wire.type = type => Options(type, List(<<Wire>>)) = <<ActiveScalar(type, Empty, Wire)>>

(***************************************************************************)
(* A RateLimit-Reset names the same moment as a delay and as a time, for   *)
(* every delay below the threshold between them: the heuristic mistakes    *)
(* none and the product of the seconds does not wrap (updateRateLimit).    *)
(***************************************************************************)
Now == 7

ResetMeansTheSame ==
  Is("resets") /\ Wire < Threshold =>
    \A now \in Threshold..Now : RateLimitReset(Wire, now) = RateLimitReset(now + Wire, now)

-----------------------------------------------------------------------------
(***************************************************************************)
(* The API gets what the caller gave.  Of a firewall: every rule in its    *)
(* direction and place, though its fields be empty, with the values as     *)
(* they are, no setting that was left nil, and every setting of a          *)
(* template.  Of a traffic query: the single address first, then the       *)
(* listed ones, each as often as it was given, and single values only if   *)
(* they were asked for.  Of a vSwitch: its servers.                        *)
(***************************************************************************)
FormsArrive ==
  /\ Is("rulesets") =>
       \A extras \in {UpdateExtras(Wire.extra), TemplateExtras(TemplateOf(Wire.rules))} :
         LET body == EncodeRules(Wire.rules, extras)
         IN  /\ \A d \in DOMAIN Wire.rules :
                  ReadRules(body, d, {"action", "src_ip"}) = Wire.rules[d]
             /\ ReadExtras(body) = extras
  /\ Is("queries") =>
       LET body == TrafficForm(Wire)
           asked == {"type", "from", "to"} \cup (IF Wire.single THEN {"single_values"} ELSE {})
       IN  /\ ReadList(body, "ip") = (IF Wire.ip = Unset THEN <<>> ELSE <<Wire.ip>>) \o Wire.ips
           /\ ReadList(body, "subnet") = Wire.subnets
           /\ ReadList(ServersForm(Wire.ips), "server") = Wire.ips
           /\ ReadExtras(body) =
                [f \in asked |-> IF f = "single_values" THEN "true" ELSE Wire[f]]
=============================================================================
