------------------------------- MODULE Waiter -------------------------------
(***************************************************************************)
(* waitForCondition (utils.go), the polling loop with exponential backoff, *)
(* under its two callers: WaitForFirewallReady (firewall.go) and           *)
(* WaitForVSwitchReady (vswitch.go).  Each poll is one Get of the client;  *)
(* the resource it looks at changes on its own, and other users of the     *)
(* account start new operations on it.                                     *)
(*                                                                         *)
(* A resource is the sequence of statuses that Get reports: one for a      *)
(* firewall, one per attached server for a vSwitch.                        *)
(***************************************************************************)
EXTENDS Integers

CONSTANTS
  Resources,   \* what is waited for: "firewall", "vswitch"
  Servers,     \* how many servers are attached to the vSwitch
  EmptyAnswers, \* the API may answer a Get with a 2xx status and no body
  MinDelay, MaxDelay, MaxPolls   \* the constants of waitForCondition

ASSUME WaiterAssumption ==
  /\ Resources \subseteq {"firewall", "vswitch"}
  /\ EmptyAnswers \in BOOLEAN
  /\ Servers \in Nat
  /\ MinDelay \in Nat \ {0} /\ MaxDelay \in Nat /\ MinDelay <= MaxDelay
  /\ MaxPolls \in Nat \ {0}

VARIABLES
  resource,   \* the kind of resource that is waited for
  pc,         \* "check", "poll", "judge", "sleep", "done"
  polls,      \* the loop variable
  delay,
  cancelled,  \* the caller's context is done
  seen,       \* the answer of the latest Get
  outcome,    \* what the wait returned
  statuses,   \* the resource as the API has it
  slept       \* history: seconds spent in timers that fired

vars == <<resource, pc, polls, delay, cancelled, seen, outcome, statuses, slept>>

InProcess == "in process"

FirewallStatuses == {"active", "disabled", InProcess}

VSwitchStatuses == {"ready", "failed", InProcess}

Parts == IF resource = "firewall" THEN 1 ELSE Servers

StatusSet == IF resource = "firewall" THEN FirewallStatuses ELSE VSwitchStatuses

Outcomes == {"pending", "ready", "failed", "cancelled", "gaveUp"}

-----------------------------------------------------------------------------
(***************************************************************************)
(* The two conditions, as verdicts on an answer: "ready", "wait", or       *)
(* "failed" when the condition returns an error.  A vSwitch is judged by   *)
(* the first server that is not ready.                                     *)
(***************************************************************************)
FirewallVerdict(s) == IF s[1] = InProcess THEN "wait" ELSE "ready"

AllReady(s) == \A i \in DOMAIN s : s[i] = "ready"

FirstNotReady(s) ==
  CHOOSE i \in DOMAIN s : s[i] # "ready" /\ \A j \in 1..(i - 1) : s[j] = "ready"

VerdictFailedWaits(s) ==
  IF \A i \in DOMAIN s : s[i] \notin {InProcess, "failed"} THEN "ready" ELSE "wait"

VSwitchVerdict(s) ==
  IF AllReady(s) THEN "ready"
  ELSE IF s[FirstNotReady(s)] = "failed" THEN "failed" ELSE "wait"

Verdict(s) == IF resource = "firewall" THEN FirewallVerdict(s) ELSE VSwitchVerdict(s)

NextDelayUncapped(d) == 2 * d

NextDelay(d) == IF 2 * d > MaxDelay THEN MaxDelay ELSE 2 * d

-----------------------------------------------------------------------------
Init ==
  /\ resource \in Resources
  /\ pc = "check"
  /\ polls = 0
  /\ delay = MinDelay
  /\ cancelled = FALSE
  /\ seen = <<>>
  /\ outcome = "pending"
  /\ statuses \in [1..Parts -> StatusSet]
  /\ slept = 0

Return(o) == pc' = "done" /\ outcome' = o

(* The head of the loop: out of polls, out of context, or poll again.      *)
LoopHead ==
  /\ pc = "check"
  /\ IF polls >= MaxPolls THEN Return("gaveUp")
     ELSE IF cancelled THEN Return("cancelled")
     ELSE pc' = "poll" /\ UNCHANGED outcome
  /\ UNCHANGED <<resource, polls, delay, cancelled, seen, statuses, slept>>

(* Get: the state of the resource at one moment of the round trip, or an   *)
(* error, which the loop does not forgive.                                 *)
GetAnswers ==
  /\ pc = "poll"
  /\ pc' = "judge"
  /\ seen' = statuses
  /\ UNCHANGED <<resource, polls, delay, cancelled, outcome, statuses, slept>>

(* A success without a body leaves the decoded value at its zero value: a  *)
(* firewall with an empty status, a vSwitch without servers.               *)
ZeroAnswer == IF resource = "firewall" THEN [i \in 1..1 |-> "unset"] ELSE <<>>

GetAnswersNothing ==
  /\ EmptyAnswers
  /\ pc = "poll"
  /\ pc' = "judge"
  /\ seen' = ZeroAnswer
  /\ UNCHANGED <<resource, polls, delay, cancelled, outcome, statuses, slept>>

GetFails ==
  /\ pc = "poll"
  /\ Return("failed")
  /\ UNCHANGED <<resource, polls, delay, cancelled, seen, statuses, slept>>

Judge ==
  /\ pc = "judge"
  /\ CASE Verdict(seen) = "ready"  -> Return("ready")
       [] Verdict(seen) = "failed" -> Return("failed")
       [] Verdict(seen) = "wait"   -> pc' = "sleep" /\ UNCHANGED outcome
  /\ UNCHANGED <<resource, polls, delay, cancelled, seen, statuses, slept>>

(* The timer fires, after the last poll too, or the context is done first. *)
WakeUpTimerStopped ==
  /\ pc = "sleep"
  /\ cancelled
  /\ pc' = "check"
  /\ slept' = slept + delay
  /\ delay' = NextDelay(delay)
  /\ polls' = polls + 1
  /\ UNCHANGED <<resource, cancelled, seen, outcome, statuses>>

WakeUp ==
  /\ pc = "sleep"
  /\ pc' = "check"
  /\ slept' = slept + delay
  /\ delay' = NextDelay(delay)
  /\ polls' = polls + 1
  /\ UNCHANGED <<resource, cancelled, seen, outcome, statuses>>

CancelSleep ==
  /\ pc = "sleep"
  /\ cancelled
  /\ Return("cancelled")
  /\ UNCHANGED <<resource, polls, delay, cancelled, seen, statuses, slept>>

Cancel ==
  /\ pc # "done" /\ ~cancelled
  /\ cancelled' = TRUE
  /\ UNCHANGED <<resource, pc, polls, delay, seen, outcome, statuses, slept>>

(***************************************************************************)
(* The API: an operation on one part of the resource ends, and, while      *)
(* somebody is still waiting, another user may start one.                  *)
(***************************************************************************)
Settle(i) ==
  /\ statuses[i] = InProcess
  /\ \E s \in StatusSet \ {InProcess} : statuses' = [statuses EXCEPT ![i] = s]
  /\ UNCHANGED <<resource, pc, polls, delay, cancelled, seen, outcome, slept>>

Disturb(i) ==
  /\ pc # "done"
  /\ statuses[i] # InProcess
  /\ statuses' = [statuses EXCEPT ![i] = InProcess]
  /\ UNCHANGED <<resource, pc, polls, delay, cancelled, seen, outcome, slept>>

Finished == pc = "done" /\ UNCHANGED vars

WaiterStep == LoopHead \/ GetAnswers \/ GetAnswersNothing \/ GetFails \/ Judge \/ WakeUp \/ CancelSleep

Next ==
  \/ WaiterStep
  \/ Cancel
  \/ \E i \in 1..Parts : Settle(i) \/ Disturb(i)
  \/ Finished

Spec == Init /\ [][Next]_vars

(* The goroutine runs, its timer fires, and each Get returns, which is     *)
(* what HttpClient shows of a client with a Timeout.                       *)
FairSpec == Spec /\ WF_vars(WaiterStep)

-----------------------------------------------------------------------------
TypeOK ==
  /\ resource \in Resources
  /\ pc \in {"check", "poll", "judge", "sleep", "done"}
  /\ polls \in 0..MaxPolls
  /\ delay \in MinDelay..MaxDelay
  /\ cancelled \in BOOLEAN
  /\ seen \in [1..Parts -> StatusSet] \cup {<<>>, ZeroAnswer}
  /\ outcome \in Outcomes
  /\ statuses \in [1..Parts -> StatusSet]
  /\ slept \in Nat

(***************************************************************************)
(* What a wait reports is what its last answer says.  Success: nothing was *)
(* in process or failed (WaitForVSwitchReady: "all servers are in ready    *)
(* status (not in process or failed)").  Giving up: something was still in *)
(* process, so that a failed server does not make the caller wait for      *)
(* nothing.                                                                *)
(***************************************************************************)
OutcomeIsOfTheLastAnswer ==
  /\ outcome = "ready" => \A i \in DOMAIN seen : seen[i] \notin {InProcess, "failed"}
  /\ outcome = "gaveUp" => \E i \in 1..Parts : seen[i] = InProcess

(***************************************************************************)
(* The loop lasts "max ~15 minutes" (utils.go:24), besides the polls       *)
(* themselves: the doubling of the delay is capped and the polls counted.  *)
(***************************************************************************)
WaitIsBounded == slept <= MaxPolls * MaxDelay

(***************************************************************************)
(* Every wait returns, whatever the resource does.                         *)
(***************************************************************************)
EveryWaitReturns == <>(pc = "done")
=============================================================================
