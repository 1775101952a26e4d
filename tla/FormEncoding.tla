---------------------------- MODULE FormEncoding ----------------------------
(***************************************************************************)
(* The forms that the client writes by hand because their keys have        *)
(* brackets (internal/urlencode, firewall.go, traffic.go, vswitch.go), and *)
(* what the API reads in them.                                             *)
(*                                                                         *)
(* A body is a sequence of pairs; a key is a tuple, its first element what *)
(* stands before the brackets.  A value that has a separator in it breaks  *)
(* the body unless it is escaped.                                          *)
(***************************************************************************)
EXTENDS Sequences, FiniteSets, Functions, SequencesExt

CONSTANT Separators   \* the values that have a separator in them

Unset == ""

NilField == "nil"

(* All names the client uses, in ascending order.                          *)
Names == <<"action", "dst_ip", "dst_port", "filter_ipv6", "from", "input", "ip_version",
           "is_default", "name", "output", "protocol", "single_values", "src_ip",
           "src_port", "status", "tcp_flags", "to", "type", "whitelist_hos">>

(* The elements of s that are in S, in the order of s.                     *)
Among(s, S) == FlattenSeq([i \in DOMAIN s |-> IF s[i] \in S THEN <<s[i]>> ELSE <<>>])

SortedKeys(keys) == Among(Names, keys)

QueryEscape(value) == [escaped |-> TRUE, of |-> value]

Pair(key, value) == [key |-> key, value |-> QueryEscape(value)]

(* The pairs of a map, whose order is that of its keys.                    *)
Pairs(map, prefix) ==
  LET keys == SortedKeys(DOMAIN map)
  IN  [k \in DOMAIN keys |-> Pair(Append(prefix, keys[k]), map[keys[k]])]

EncodeFirewallRules(rules) ==
  LET directions == SortedKeys(DOMAIN rules)
      Direction(d) ==
        FlattenSeq([i \in DOMAIN rules[d] |-> Pairs(rules[d][i], <<"rules", d, i>>)])
  IN  FlattenSeq([k \in DOMAIN directions |-> Direction(directions[k])])

EncodeToString(additional, rules) == Pairs(additional, <<>>) \o EncodeFirewallRules(rules)

-----------------------------------------------------------------------------
(* A field that is empty is left out, but a rule has an action always.     *)
EncodeRuleSparse(rule) == Restrict(rule, {f \in DOMAIN rule : rule[f] # Unset})

EncodeRule(rule) == Restrict(rule, {f \in DOMAIN rule : rule[f] # Unset} \cup {"action"})

(* encodeRules: a direction without rules is not mentioned.                *)
EncodeRules(rules, extra) ==
  LET mentioned == {d \in DOMAIN rules : rules[d] # <<>>}
  IN  EncodeToString(extra, [d \in mentioned |->
                               [i \in DOMAIN rules[d] |-> EncodeRule(rules[d][i])]])

(* Update: "Only non-nil fields in config are sent to the API".            *)
UpdateExtras(config) == Restrict(config, {f \in DOMAIN config : config[f] # NilField})

TemplateExtras(config) ==
  Restrict(config, {"name", "filter_ipv6", "whitelist_hos", "is_default"})

-----------------------------------------------------------------------------
BracketArray(name, values) == [i \in DOMAIN values |-> Pair(<<name, "[]">>, values[i])]

(* TrafficService.Get: the single address is merged in front of the list.  *)
TrafficAddresses(params) == IF params.ip # Unset THEN <<params.ip>> \o params.ips ELSE params.ips

TrafficForm(params) ==
  LET given == [from |-> params.from, to |-> params.to, type |-> params.type]
      asked == [f \in DOMAIN given \cup (IF params.single THEN {"single_values"} ELSE {}) |->
                  IF f = "single_values" THEN "true" ELSE given[f]]
  IN  Pairs(asked, <<>>) \o BracketArray("ip", TrafficAddresses(params))
        \o BracketArray("subnet", params.subnets)

(* AddServers and RemoveServers.                                           *)
ServersForm(servers) == BracketArray("server", servers)

-----------------------------------------------------------------------------
(***************************************************************************)
(* What the API reads: brackets nest, a key that comes again replaces the  *)
(* value, an empty pair of brackets appends.                               *)
(***************************************************************************)
Read(value) == IF value.escaped \/ value.of \notin Separators THEN value.of ELSE "broken"

Under(body, key) == Among(body, {p \in Range(body) : p.key = key})

ReadField(body, key) ==
  LET found == Under(body, key) IN IF found = <<>> THEN Unset ELSE Read(Last(found).value)

ReadList(body, name) ==
  LET found == Under(body, <<name, "[]">>) IN [i \in DOMAIN found |-> Read(found[i].value)]

ReadRules(body, d, fields) ==
  LET indices == {p.key[3] : p \in {q \in Range(body) : Len(q.key) = 4 /\ q.key[2] = d}}
  IN  [i \in 1..Cardinality(indices) |->
         [f \in fields |-> ReadField(body, <<"rules", d, i, f>>)]]

ReadExtras(body) ==
  LET plain == {p.key[1] : p \in {q \in Range(body) : Len(q.key) = 1}}
  IN  [f \in plain |-> ReadField(body, <<f>>)]
=============================================================================
