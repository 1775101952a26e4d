-------------------------- MODULE FirewallService --------------------------
(***************************************************************************)
(* The firewall of one server and the users of the account that change it  *)
(* through FirewallService (firewall.go).  POST /firewall/{id} replaces    *)
(* the whole configuration, so Activate, Disable and their WithRules       *)
(* variants first Get the current one and carry parts of it over: a read   *)
(* and a write with anything in between.                                   *)
(*                                                                         *)
(* A ruleset is the ordered rules of each direction.  Only the input rules *)
(* are counted, by Update and not by ApplyTemplate.                        *)
(*                                                                         *)
(* Calls of the HTTP core appear with the outcomes RemoteCall gives them:  *)
(* a Get returns a state of the moment or an error; a POST is applied at   *)
(* most once, not at all if it is refused, and possibly after the caller   *)
(* has been told that it failed.                                           *)
(***************************************************************************)
EXTENDS FirewallRules

CONSTANTS
  Actors,        \* users of the account, each running one operation at a time
  Operations,    \* the operations they run, see OperationType
  Internal,      \* the rules the API puts in front of what it accepts
  Configs,       \* the configurations the server may have at first
  MaxInputRules, \* Client.maxFirewallInputRules
  MaxOps,        \* bound: operations per actor
  LatePosts      \* a POST that failed for the client may be applied later

Settings == {"on", "off"}

Omitted == "omitted"   \* a nil field of UpdateConfig

(* FirewallRules.                                                          *)
Rulesets == [input : Seq(Rules), output : Seq(Rules)]

NoRules == [input |-> <<>>, output |-> <<>>]

Concat(a, b) == [input |-> a.input \o b.input, output |-> a.output \o b.output]

(* What the API stores.  next is the status it is changing to while it     *)
(* reports "in process", and the status itself otherwise.                  *)
ConfigType == [status : {"active", "disabled", "in process"},
               next : {"active", "disabled"}, hos : Settings, v6 : Settings,
               rules : Rulesets]

(* A request: verb "POST" with the form fields, "DELETE", or "TEMPLATE", a *)
(* POST with a template_id alone, which has the API take settings and      *)
(* rules from the template: here those fields are the template's.          *)
RequestType == [verb : {"POST", "TEMPLATE", "DELETE"},
                status : {"active", "disabled", Omitted},
                hos : Settings \cup {Omitted}, v6 : Settings \cup {Omitted},
                rules : Rulesets]

NoRequest == [verb |-> "none", status |-> Omitted, hos |-> Omitted, v6 |-> Omitted,
              rules |-> NoRules]

(***************************************************************************)
(* An operation is setStatus, keeping the current ruleset (Activate and    *)
(* Disable) or with one of its own, or a request the caller makes up       *)
(* (Update, ApplyTemplate, Delete).                                        *)
(***************************************************************************)
OperationType ==
  [kind : {"keep", "with"}, status : {"active", "disabled"}, rules : Rulesets]
    \cup [kind : {"direct"}, request : RequestType]

ASSUME FirewallAssumption ==
  /\ Internal \in Rulesets
  /\ Operations \subseteq OperationType
  /\ Configs \subseteq ConfigType
  /\ MaxInputRules \in Nat
  /\ MaxOps \in Nat
  /\ LatePosts \in BOOLEAN

VARIABLES
  remote,     \* the configuration the API has
  late,       \* requests given up by their callers that may still be applied
  pc,         \* "idle", "get", "send", "wait", "done"
  op,         \* the operation of each actor
  request,    \* the request it sends
  sent,       \* its request has not been applied or refused yet
  result,     \* "pending", "ok", "error" or "rejected" by ValidateRules
  ops,        \* operations begun
  replaced,   \* history: the ruleset that the actor's request replaced, if applied
  blind       \* history: a Get has succeeded without a body

vars == <<remote, late, pc, op, request, sent, result, ops, replaced, blind>>

NoOp == [kind |-> "none"]

-----------------------------------------------------------------------------
Init ==
  /\ remote \in Configs
  /\ late = {}
  /\ pc = [a \in Actors |-> "idle"]
  /\ op = [a \in Actors |-> NoOp]
  /\ request = [a \in Actors |-> NoRequest]
  /\ sent = [a \in Actors |-> FALSE]
  /\ result = [a \in Actors |-> "pending"]
  /\ ops = [a \in Actors |-> 0]
  /\ replaced = [a \in Actors |-> {}]
  /\ blind = FALSE

Goto(a, label) == pc' = [pc EXCEPT ![a] = label]

Return(a, r) == Goto(a, "done") /\ result' = [result EXCEPT ![a] = r]

(* setStatus begins with Get; the others with their request.               *)
Begin(a, o) ==
  /\ pc[a] \in {"idle", "done"}
  /\ ops[a] < MaxOps
  /\ ops' = [ops EXCEPT ![a] = @ + 1]
  /\ op' = [op EXCEPT ![a] = o]
  /\ result' = [result EXCEPT ![a] = "pending"]
  /\ replaced' = [replaced EXCEPT ![a] = {}]
  /\ IF o.kind = "direct"
     THEN Goto(a, "send") /\ request' = [request EXCEPT ![a] = o.request]
     ELSE Goto(a, "get") /\ UNCHANGED request
  /\ UNCHANGED <<remote, late, sent, blind>>

(***************************************************************************)
(* The request setStatus builds from the configuration it has read: a nil  *)
(* rules re-posts the current ruleset, and whitelist_hos and filter_ipv6   *)
(* are carried over, "since omitting them would reset them".               *)
(***************************************************************************)
StatusRequestAlone(o, config) ==
  [verb |-> "POST", status |-> o.status, hos |-> config.hos, v6 |-> config.v6,
   rules |-> IF o.kind = "keep" THEN NoRules ELSE o.rules]

StatusRequestPut(o, config) ==
  [verb |-> "PUT", status |-> o.status, hos |-> config.hos, v6 |-> config.v6,
   rules |-> IF o.kind = "keep" THEN config.rules ELSE o.rules]

StatusRequestNoSettings(o, config) ==
  [verb |-> "POST", status |-> o.status, hos |-> Omitted, v6 |-> Omitted,
   rules |-> IF o.kind = "keep" THEN config.rules ELSE o.rules]

StatusRequestCurrent(o, config) ==
  [verb |-> "POST", status |-> o.status, hos |-> config.hos, v6 |-> config.v6,
   rules |-> config.rules]

StatusRequestMerged(o, config) ==
  [verb |-> "POST", status |-> o.status, hos |-> config.hos, v6 |-> config.v6,
   rules |-> IF o.kind = "keep" THEN config.rules ELSE Concat(config.rules, o.rules)]

StatusRequest(o, config) ==
  [verb |-> "POST", status |-> o.status, hos |-> config.hos, v6 |-> config.v6,
   rules |-> IF o.kind = "keep" THEN config.rules ELSE o.rules]

(* The Get returns the configuration of the moment.  A success without a   *)
(* body leaves the decoded configuration at its zero value.                *)
ZeroConfig == [hos |-> "off", v6 |-> "off", rules |-> NoRules]

Reads(a, config) ==
  /\ pc[a] = "get"
  /\ request' = [request EXCEPT ![a] = StatusRequest(op[a], config)]
  /\ Goto(a, "send")
  /\ UNCHANGED <<remote, late, op, sent, result, ops, replaced>>

GetReturns(a) == Reads(a, remote) /\ UNCHANGED blind

GetReturnsNothing(a) == Reads(a, ZeroConfig) /\ blind' = TRUE

GetFails(a) ==
  /\ pc[a] = "get"
  /\ Return(a, "error")
  /\ UNCHANGED <<remote, late, op, request, sent, ops, replaced, blind>>

(* Update counts the input rules before anything is sent; ApplyTemplate    *)
(* does not know them, and no request is counted by its output rules.      *)
TooManyRulesNever(r) == FALSE

TooManyRules(r) == r.verb = "POST" /\ Len(r.rules.input) > MaxInputRules

Send(a) ==
  /\ pc[a] = "send"
  /\ IF TooManyRules(request[a])
     THEN Return(a, "rejected") /\ UNCHANGED sent
     ELSE Goto(a, "wait") /\ sent' = [sent EXCEPT ![a] = TRUE] /\ UNCHANGED result
  /\ UNCHANGED <<remote, late, op, request, ops, replaced, blind>>

-----------------------------------------------------------------------------
(***************************************************************************)
(* The API.  It refuses a request while a change is in process, and to     *)
(* disable a firewall that carries internal rules; it puts the internal    *)
(* rules in front of what it accepts and resets the settings that a POST   *)
(* omits.                                                                  *)
(***************************************************************************)
Acceptable(r) ==
  /\ remote.status # "in process"
  /\ ~(r.status = "disabled" /\ Internal # NoRules)

Setting(field) == IF field = Omitted THEN "off" ELSE field

After(r) ==
  IF r.verb = "DELETE"
  THEN [remote EXCEPT !.rules = Internal, !.hos = "off", !.v6 = "off"]
  ELSE LET target == IF r.status = Omitted THEN remote.next ELSE r.status
       IN  [status |-> "in process", next |-> target, hos |-> Setting(r.hos),
            v6 |-> Setting(r.v6), rules |-> Concat(Internal, r.rules)]

ApiApplies(a) ==
  /\ sent[a]
  /\ Acceptable(request[a])
  /\ remote' = After(request[a])
  /\ sent' = [sent EXCEPT ![a] = FALSE]
  /\ replaced' = [replaced EXCEPT ![a] = {remote.rules}]
  /\ UNCHANGED <<late, pc, op, request, result, ops, blind>>

ApiRefuses(a) ==
  /\ sent[a]
  /\ sent' = [sent EXCEPT ![a] = FALSE]
  /\ Return(a, "error")
  /\ UNCHANGED <<remote, late, op, request, ops, replaced, blind>>

(* The change takes effect.                                                *)
Settle ==
  /\ remote.status = "in process"
  /\ remote' = [remote EXCEPT !.status = remote.next]
  /\ UNCHANGED <<late, pc, op, request, sent, result, ops, replaced, blind>>

LateRequestApplies(r) ==
  /\ r \in late
  /\ Acceptable(r)
  /\ remote' = After(r)
  /\ late' = late \ {r}
  /\ UNCHANGED <<pc, op, request, sent, result, ops, replaced, blind>>

(* The answer arrives.                                                     *)
Answered(a) ==
  /\ pc[a] = "wait" /\ ~sent[a]
  /\ Return(a, "ok")
  /\ UNCHANGED <<remote, late, op, request, sent, ops, replaced, blind>>

(* The client gives up: the answer is lost, or the request is, or it is    *)
(* still on its way.                                                       *)
CallFails(a) ==
  /\ pc[a] = "wait"
  /\ Return(a, "error")
  /\ sent' = [sent EXCEPT ![a] = FALSE]
  /\ \/ UNCHANGED late
     \/ LatePosts /\ sent[a] /\ late' = late \cup {request[a]}
  /\ UNCHANGED <<remote, op, request, ops, replaced, blind>>

-----------------------------------------------------------------------------
(* Everybody has used up MaxOps.                                           *)
Finished ==
  /\ \A a \in Actors : pc[a] = "done" /\ ops[a] = MaxOps
  /\ UNCHANGED vars

Next ==
  \/ \E a \in Actors :
       \/ \E o \in Operations : Begin(a, o)
       \/ GetReturns(a) \/ GetReturnsNothing(a) \/ GetFails(a)
       \/ Send(a)
       \/ ApiApplies(a) \/ ApiRefuses(a)
       \/ Answered(a) \/ CallFails(a)
  \/ Settle
  \/ \E r \in late : LateRequestApplies(r)
  \/ Finished

Spec == Init /\ [][Next]_vars

-----------------------------------------------------------------------------
TypeOK ==
  /\ remote \in ConfigType
  /\ late \subseteq RequestType
  /\ pc \in [Actors -> {"idle", "get", "send", "wait", "done"}]
  /\ op \in [Actors -> Operations \cup {NoOp}]
  /\ request \in [Actors -> RequestType \cup {NoRequest}]
  /\ sent \in [Actors -> BOOLEAN]
  /\ result \in [Actors -> {"pending", "ok", "error", "rejected"}]
  /\ ops \in [Actors -> 0..MaxOps]
  /\ blind \in BOOLEAN
  /\ \A a \in Actors : replaced[a] \subseteq Rulesets /\ Cardinality(replaced[a]) <= 1

(***************************************************************************)
(* "Activate activates the firewall for a server, keeping its current      *)
(* ruleset" (firewall.go:399), and Disable likewise: the ruleset that the  *)
(* request carries is the one it replaces.                                 *)
(***************************************************************************)
KeepsRuleset ==
  \A a \in Actors :
    op[a].kind = "keep" => replaced[a] \subseteq {request[a].rules}

(***************************************************************************)
(* The same for a user who is alone and whose Gets had a body: no change   *)
(* and no empty answer between the read and the write, so whatever failed  *)
(* or was given up before, Activate and Disable replace a ruleset with     *)
(* itself.                                                                 *)
(***************************************************************************)
KeepsRulesetWhenTold == ~blind => KeepsRuleset

(***************************************************************************)
(* What ActivateWithRules and DisableWithRules report as done is what the  *)
(* server has, nothing of the previous ruleset left, as long as nobody     *)
(* else changes it and no request of the past is still on its way.         *)
(***************************************************************************)
LastSuccessStands ==
  \A a \in Actors :
    op[a].kind = "with" /\ result[a] = "ok" =>
      remote.rules = Concat(Internal, op[a].rules)

(***************************************************************************)
(* "Repeated calls therefore accumulate duplicates of those rules", but    *)
(* "since inbound rules are capped at MaxFirewallInputRules, growth on the *)
(* input side eventually makes Update reject the configuration outright"   *)
(* (firewall.go:404): the input rules of the server exceed the ceiling by  *)
(* no more than one set of internal rules, or are those of a template,     *)
(* which nobody counts and nothing has been accumulated on.  It says       *)
(* nothing of the output rules, which grow with every Activate.            *)
(***************************************************************************)
Templates == {o.request.rules : o \in {p \in Operations : p.kind = "direct" /\ p.request.verb = "TEMPLATE"}}

InputAccumulationIsBounded ==
  \/ Len(remote.rules.input) <= MaxInputRules + Len(Internal.input)
  \/ \E t \in Templates : remote.rules = Concat(Internal, t)

(***************************************************************************)
(* setStatus "always" carries whitelist_hos and filter_ipv6 over: however  *)
(* such operations overlap, fail or arrive late, neither setting changes   *)
(* as long as every Get had a body.                                        *)
(***************************************************************************)
SettingsSurvive ==
  [][~blind' => remote'.hos = remote.hos /\ remote'.v6 = remote.v6]_vars

(***************************************************************************)
(* A POST replaces the whole configuration: with setStatus operations      *)
(* alone, whatever their overlap, failures and late arrivals, the server   *)
(* has the ruleset that one caller authored, or that it had at first,      *)
(* behind copies of the internal rules; never a mixture of two.            *)
(***************************************************************************)
Authored == {o.rules : o \in {p \in Operations : p.kind = "with"}}
              \cup {c.rules : c \in Configs} \cup {NoRules}

Repeated(s, n) == FlattenSeq([i \in 1..n |-> s])

Copies(n) == [input |-> Repeated(Internal.input, n), output |-> Repeated(Internal.output, n)]

NeverAMixture ==
  \E n \in 0..(Len(remote.rules.input) + Len(remote.rules.output)), r \in Authored :
    remote.rules = Concat(Copies(n), r)
=============================================================================
