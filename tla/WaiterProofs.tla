---------------------------- MODULE WaiterProofs ----------------------------
(***************************************************************************)
(* The polling loop, for any number of servers, any delays and any number  *)
(* of polls.                                                               *)
(***************************************************************************)
EXTENDS Waiter, WellFoundedInduction, TLAPS

(* What each variable's value owes to the others: polls are counted before *)
(* they are made, each costs at most MaxDelay, and a verdict is kept: the  *)
(* loop goes round, and gives up, only on the verdict to wait.             *)
Waits == \/ pc = "sleep"
         \/ pc = "check" /\ polls > 0
         \/ outcome = "gaveUp"

LoopInv ==
  /\ pc \in {"poll", "judge", "sleep"} => polls < MaxPolls
  /\ pc # "done" => outcome = "pending"
  /\ pc = "judge" => seen \in [1..Parts -> StatusSet] \cup {ZeroAnswer}
  /\ slept <= polls * MaxDelay
  /\ outcome = "ready" => Verdict(seen) = "ready"
  /\ Waits => Verdict(seen) = "wait" /\ seen \in [1..Parts -> StatusSet] \cup {ZeroAnswer}

IInv == TypeOK /\ LoopInv

LEMMA NextDelayInRange ==
  ASSUME NEW d \in MinDelay..MaxDelay
  PROVE  NextDelay(d) \in MinDelay..MaxDelay
BY WaiterAssumption DEF NextDelay

(* One more poll costs at most one more MaxDelay.                          *)
LEMMA SleepBudget ==
  ASSUME NEW n \in Nat, NEW t \in Nat, NEW d \in MinDelay..MaxDelay, t <= n * MaxDelay
  PROVE  t + d <= (n + 1) * MaxDelay
BY WaiterAssumption

LEMMA InvInitially == Init => IInv
<1>. SUFFICES ASSUME Init PROVE IInv
  OBVIOUS
<1>1. TypeOK
  <2>1. delay \in MinDelay..MaxDelay /\ polls \in 0..MaxPolls /\ slept \in Nat
    BY WaiterAssumption DEF Init
  <2>2. seen \in [1..Parts -> StatusSet] \cup {<<>>, ZeroAnswer}
    BY DEF Init
  <2>. QED  BY <2>1, <2>2 DEF Init, TypeOK, Outcomes
<1>2. slept <= polls * MaxDelay
  BY WaiterAssumption DEF Init
<1>. QED  BY <1>1, <1>2, WaiterAssumption DEF Init, IInv, LoopInv, Waits

LEMMA InvPreserved == IInv /\ [Next]_vars => IInv'
<1>. SUFFICES ASSUME IInv, [Next]_vars PROVE IInv'
  OBVIOUS
(* What is waited for does not change, and with it the types of answers.   *)
<1>. resource' = resource
  BY DEF Next, vars, WaiterStep, LoopHead, GetAnswers, GetAnswersNothing, GetFails, Judge,
         WakeUp, CancelSleep, Cancel, Settle, Disturb, Finished
<1>. StatusSet' = StatusSet /\ Parts' = Parts /\ ZeroAnswer' = ZeroAnswer
  BY DEF StatusSet, Parts, ZeroAnswer
<1>. ASSUME NEW s PROVE Verdict(s)' = Verdict(s)
  BY DEF Verdict
<1>. USE DEF IInv, TypeOK, LoopInv, Waits
<1>1. CASE UNCHANGED vars
  BY <1>1 DEF vars
<1>2. CASE LoopHead
  BY <1>2, WaiterAssumption DEF LoopHead, Return, Outcomes
<1>3. CASE GetAnswers
  BY <1>3 DEF GetAnswers
<1>4. CASE GetAnswersNothing
  BY <1>4 DEF GetAnswersNothing
<1>5. CASE GetFails
  BY <1>5 DEF GetFails, Return, Outcomes
<1>6. CASE Judge
  <2>1. Verdict(seen) \in {"ready", "failed", "wait"}
    BY DEF Verdict, FirewallVerdict, VSwitchVerdict
  <2>2. CASE Verdict(seen) = "ready"
    BY <1>6, <2>2 DEF Judge, Return, Outcomes
  <2>3. CASE Verdict(seen) = "failed"
    BY <1>6, <2>3 DEF Judge, Return, Outcomes
  <2>4. CASE Verdict(seen) = "wait"
    BY <1>6, <2>4 DEF Judge, Outcomes
  <2>. QED  BY <2>1, <2>2, <2>3, <2>4
<1>7. CASE WakeUp
  <2>1. polls < MaxPolls /\ polls \in Nat /\ slept \in Nat
    BY <1>7 DEF WakeUp
  <2>2. slept' <= polls' * MaxDelay
    BY <1>7, <2>1, SleepBudget DEF WakeUp
  <2>3. delay' \in MinDelay..MaxDelay
    BY <1>7, NextDelayInRange DEF WakeUp
  <2>4. delay \in Nat
    BY WaiterAssumption
  <2>. QED  BY <1>7, <2>1, <2>2, <2>3, <2>4, WaiterAssumption DEF WakeUp
<1>8. CASE CancelSleep
  BY <1>8 DEF CancelSleep, Return, Outcomes
<1>9. CASE Cancel
  BY <1>9 DEF Cancel
<1>10. ASSUME NEW i \in 1..Parts, Settle(i) PROVE IInv'
  BY <1>10 DEF Settle
<1>11. ASSUME NEW i \in 1..Parts, Disturb(i) PROVE IInv'
  <2>1. InProcess \in StatusSet
    BY DEF StatusSet, FirewallStatuses, VSwitchStatuses
  <2>. QED  BY <1>11, <2>1 DEF Disturb
<1>. QED
  BY <1>1, <1>2, <1>3, <1>4, <1>5, <1>6, <1>7, <1>8, <1>9, <1>10, <1>11
     DEF Next, WaiterStep, Finished

(* Every variable keeps its type; in particular the delay stays between    *)
(* its bounds and the polls are counted out.                               *)
THEOREM WaiterTypeCorrect == Spec => []TypeOK
<1>1. IInv => TypeOK
  BY DEF IInv
<1>. QED  BY <1>1, InvInitially, InvPreserved, PTL DEF Spec

(* A wait sleeps at most MaxPolls times MaxDelay.                          *)
THEOREM WaitBound == Spec => []WaitIsBounded
<1>1. IInv => WaitIsBounded
  <2>. SUFFICES ASSUME IInv PROVE slept <= MaxPolls * MaxDelay
    BY DEF WaitIsBounded
  <2>1. polls * MaxDelay <= MaxPolls * MaxDelay
    BY WaiterAssumption DEF IInv, TypeOK
  <2>. QED  BY <2>1, WaiterAssumption DEF IInv, TypeOK, LoopInv
<1>. QED  BY <1>1, InvInitially, InvPreserved, PTL DEF Spec

(* A wait that ends in success has seen nothing in process or failed.      *)
LEMMA ReadyIsReal ==
  IInv /\ outcome = "ready" => \A i \in DOMAIN seen : seen[i] \notin {InProcess, "failed"}
<1>. SUFFICES ASSUME IInv, outcome = "ready", NEW i \in DOMAIN seen
              PROVE  seen[i] \notin {InProcess, "failed"}
  OBVIOUS
<1>1. Verdict(seen) = "ready"
  BY DEF IInv, LoopInv
<1>2. CASE resource = "vswitch"
  BY <1>1, <1>2 DEF Verdict, VSwitchVerdict, AllReady, InProcess
<1>3. CASE resource = "firewall"
  <2>1. seen[1] # InProcess
    BY <1>1, <1>3 DEF Verdict, FirewallVerdict
  <2>2. \/ seen \in [1..1 -> FirewallStatuses]
        \/ seen = <<>>
        \/ seen \in [1..1 -> {"unset"}]
    BY <1>3 DEF IInv, TypeOK, StatusSet, ZeroAnswer, Parts
  <2>3. CASE seen \in [1..1 -> FirewallStatuses]
    <3>1. i = 1 /\ seen[1] \in FirewallStatuses
      BY <2>3
    <3>. QED  BY <2>1, <3>1 DEF FirewallStatuses, InProcess
  <2>4. CASE seen = <<>>
    BY <2>4
  <2>5. CASE seen \in [1..1 -> {"unset"}]
    <3>1. i = 1
      BY <2>5
    <3>2. seen[1] = "unset"
      BY <2>5
    <3>. QED  BY <3>1, <3>2 DEF InProcess
  <2>. QED  BY <2>2, <2>3, <2>4, <2>5
<1>. QED  BY <1>2, <1>3, WaiterAssumption DEF IInv, TypeOK

(* The CHOOSE of VSwitchVerdict: if not all are ready there is a first one *)
(* that is not, since the natural numbers are well-founded.                *)
LEMMA FirstIsNotReady ==
  ASSUME NEW n \in Nat, NEW s \in [1..n -> VSwitchStatuses], ~AllReady(s)
  PROVE  FirstNotReady(s) \in 1..n /\ s[FirstNotReady(s)] # "ready"
<1>. DEFINE T == {i \in 1..n : s[i] # "ready"}
<1>1. T \subseteq Nat /\ T # {}
  BY DEF AllReady
<1>. DEFINE Less == {p \in Nat \X Nat : p[1] < p[2]}
<1>2. IsWellFoundedOn(Less, Nat)
  BY ONLY NatLessThanWellFounded DEF OpToRel
<1>3. PICK i \in T : \A j \in T : <<j, i>> \notin Less
  <2>. HIDE DEF T, Less
  <2>. QED  BY ONLY <1>1, <1>2, WFMin
<1>4. \A j \in T : ~(j < i)
  BY <1>1, <1>3
<1>5. i \in DOMAIN s /\ s[i] # "ready" /\ \A j \in 1..(i - 1) : s[j] = "ready"
  BY <1>4
<1>. QED  BY <1>5 DEF FirstNotReady

(* A wait that gives up has seen something in process in its last poll.    *)
LEMMA GivesUpInProcess ==
  IInv /\ outcome = "gaveUp" => \E i \in 1..Parts : seen[i] = InProcess
<1>1. SUFFICES ASSUME IInv, outcome = "gaveUp" PROVE \E i \in 1..Parts : seen[i] = InProcess
  OBVIOUS
<1>2. Verdict(seen) = "wait" /\ seen \in [1..Parts -> StatusSet] \cup {ZeroAnswer}
  BY <1>1 DEF IInv, LoopInv, Waits
<1>3. CASE resource = "firewall"
  BY <1>2, <1>3 DEF Verdict, FirewallVerdict, Parts
<1>4. CASE resource = "vswitch"
  <2>1. VSwitchVerdict(seen) = "wait"
    BY <1>2, <1>4 DEF Verdict
  <2>2. ~AllReady(seen) /\ seen[FirstNotReady(seen)] # "failed"
    BY <2>1 DEF VSwitchVerdict
  <2>3. seen # <<>>
    BY <2>2 DEF AllReady
  <2>4. seen \in [1..Servers -> VSwitchStatuses]
    BY <1>2, <1>4, <2>3 DEF ZeroAnswer, Parts, StatusSet
  <2>5. FirstNotReady(seen) \in 1..Servers /\ seen[FirstNotReady(seen)] # "ready"
    BY <2>2, <2>4, FirstIsNotReady, WaiterAssumption
  <2>. QED  BY <1>4, <2>2, <2>4, <2>5 DEF VSwitchStatuses, Parts
<1>. QED  BY <1>1, <1>3, <1>4, WaiterAssumption DEF IInv, TypeOK

(* What a wait reports is what its last answer says.                       *)
THEOREM OutcomeIsReal == Spec => []OutcomeIsOfTheLastAnswer
<1>1. IInv => OutcomeIsOfTheLastAnswer
  BY ReadyIsReal, GivesUpInProcess DEF OutcomeIsOfTheLastAnswer
<1>. QED  BY <1>1, InvInitially, InvPreserved, PTL DEF Spec
=============================================================================
