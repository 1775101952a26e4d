------------------------- MODULE MCFirewallService -------------------------
(***************************************************************************)
(* FirewallService for TLC: two bodies of rules, "mail" for what the API   *)
(* injects, the documented block of outgoing mail and for the sake of the  *)
(* ceiling an incoming rule like it, and "web" for what users author.      *)
(***************************************************************************)
EXTENDS FirewallService

Rule(body) == [body |-> body, version |-> "any"]

MailBlock == [input |-> <<Rule("mail")>>, output |-> <<Rule("mail")>>]

Web(n) == [input |-> [i \in 1..n |-> Rule("web")], output |-> <<Rule("web")>>]

Activate == [kind |-> "keep", status |-> "active", rules |-> NoRules]
Disable == [kind |-> "keep", status |-> "disabled", rules |-> NoRules]
ActivateWithRules == [kind |-> "with", status |-> "active", rules |-> Web(1)]
DisableWithRules == [kind |-> "with", status |-> "disabled", rules |-> NoRules]
Update == [kind |-> "direct",
           request |-> [verb |-> "POST", status |-> Omitted, hos |-> "on", v6 |-> Omitted,
                        rules |-> Web(2)]]
Delete == [kind |-> "direct",
           request |-> [verb |-> "DELETE", status |-> Omitted, hos |-> Omitted,
                        v6 |-> Omitted, rules |-> NoRules]]

(* A template that was not made with a client of this ceiling.             *)
ApplyTemplate == [kind |-> "direct",
                  request |-> [verb |-> "TEMPLATE", status |-> Omitted, hos |-> "off",
                               v6 |-> "on", rules |-> Web(3)]]

AllOperations == {Activate, Disable, ActivateWithRules, DisableWithRules, Update,
                  ApplyTemplate, Delete}

StatusOperations == {Activate, Disable, ActivateWithRules, DisableWithRules}

Start == {[status |-> s, next |-> s, hos |-> "on", v6 |-> f, rules |-> Web(1)] :
            s \in {"active", "disabled"}, f \in Settings}
=============================================================================
