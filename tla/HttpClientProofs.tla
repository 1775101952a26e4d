-------------------------- MODULE HttpClientProofs --------------------------
(***************************************************************************)
(* HttpClient, for any number of concurrent calls, any status codes and    *)
(* Retry-After headers, any number of attempts and any limits.             *)
(***************************************************************************)
EXTENDS HttpClientRefinement, FiniteSetTheorems, TLAPS

(* retryAfter never asks the client to sleep longer than the configured    *)
(* cap and never returns a negative duration, whatever header the endpoint *)
(* sends.                                                                  *)
THEOREM RetryAfterIsBounded ==
  ASSUME NEW h \in Headers, NEW limit \in 1..MaxInt
  PROVE  RetryAfter(h, limit) \in 0..limit
<1>0. h.n \in Int
  BY DEF Headers
<1>1. CASE Capped(h, limit)
  BY <1>1 DEF RetryAfter
<1>2. CASE ~Capped(h, limit)
  <2>1. Requested(h) \in Int
    BY <1>0, LimitsAssumption DEF Requested, Wrap
  <2>. QED  BY <1>2, <2>1 DEF RetryAfter, Smaller
<1>. QED  BY <1>1, <1>2

(* A step of a call, and every other step: what the proofs below split on. *)
CallStep(c) ==
  \/ \E m \in Methods : Begin(c, m)
  \/ Cancel(c)
  \/ LocalStep(c)
  \/ NetworkStep(c)
  \/ RemoteStep(c)

LEMMA NextIsCallStep ==
  [Next]_vars <=> (\E c \in Calls : CallStep(c)) \/ UNCHANGED vars
BY DEF Next, CallStep, Finished

LEMMA WaitBeforeRetryIsNat ==
  ASSUME NEW h \in Headers, NEW n \in Nat
  PROVE  WaitBeforeRetry(h, n) \in Nat
<1>1. RetryAfter(h, MaxWait) \in 0..MaxWait
  BY RetryAfterIsBounded, HttpAssumption
<1>2. Linear(n) \in Nat
  BY HttpAssumption DEF Linear
<1>3. MaxWait \in Nat
  BY HttpAssumption, LimitsAssumption
<1>. QED  BY <1>1, <1>2, <1>3 DEF WaitBeforeRetry

(* An answer, or none, has a well-formed header.                           *)
LEMMA HintIsHeader ==
  ASSUME NEW r \in Replies \cup {NoReply}
  PROVE  r.hint \in Headers
BY HttpAssumption DEF Replies, NoReply, Headers, HeaderForms

LEMMA OutcomeIsResult ==
  \A kind \in Kinds : Outcome(kind) \in Results
BY DEF Outcome, Results

LEMMA ResultOfIsResult ==
  ASSUME NEW r \in Replies \cup {NoReply}, NEW body \in Bodies
  PROVE  ResultOf(r.status, body) \in Results
BY OutcomeIsResult DEF ResultOf, ErrorOf, Results, Kinds, Replies, NoReply

LEMMA ReturnTyped ==
  ASSUME TypeOK, NEW c \in Calls, NEW r \in Results, Return(c, r)
  PROVE  pc' \in [Calls -> PCs] /\ result' \in [Calls -> Results]
BY DEF TypeOK, Return, Goto, PCs

LEMMA TypeInitially == Init => TypeOK
BY OutcomeIsResult DEF Init, TypeOK, Setups, PCs, NoReply, Kinds

LEMMA TypePreserved == TypeOK /\ [Next]_vars => TypeOK'
<1>. SUFFICES ASSUME TypeOK, [Next]_vars PROVE TypeOK'
  OBVIOUS
<1>0. /\ Outcome("network") \in Results
      /\ Outcome("validation") \in Results
      /\ Outcome("nilResponse") \in Results
  BY OutcomeIsResult DEF Kinds
<1>1. CASE UNCHANGED vars
  BY <1>1 DEF vars, TypeOK
<1>2. ASSUME NEW c \in Calls, NEW m \in Methods, Begin(c, m) PROVE TypeOK'
  BY <1>0, <1>2, ReturnTyped DEF Begin, TypeOK, PCs, Goto, remote
<1>3. ASSUME NEW c \in Calls, Cancel(c) PROVE TypeOK'
  BY <1>3 DEF Cancel, TypeOK, remote
<1>4. ASSUME NEW c \in Calls, LoopHead(c) PROVE TypeOK'
  <2>1. pc' \in [Calls -> PCs] /\ result' \in [Calls -> Results]
    BY <1>0, <1>4, ReturnTyped DEF LoopHead, TypeOK, PCs, Goto
  <2>. QED  BY <1>4, <2>1 DEF LoopHead, TypeOK, remote
<1>5. ASSUME NEW c \in Calls, Send(c) PROVE TypeOK'
  BY <1>5 DEF Send, TypeOK, PCs, Goto
<1>6. ASSUME NEW c \in Calls, BuildFails(c) PROVE TypeOK'
  BY <1>0, <1>6, ReturnTyped DEF BuildFails, TypeOK, remote
<1>7. ASSUME NEW c \in Calls, DoFails(c) PROVE TypeOK'
  <2>1. Linear(attempt[c]) \in Nat
    BY HttpAssumption DEF Linear, TypeOK
  <2>2. /\ pc' \in [Calls -> PCs] /\ result' \in [Calls -> Results]
        /\ delay' \in [Calls -> Nat]
    BY <1>0, <1>7, <2>1, ReturnTyped DEF DoFails, TypeOK, PCs, Goto
  <2>3. orphans' \in [Calls -> Nat]
    BY <1>7 DEF DoFails, TypeOK
  <2>. QED  BY <1>7, <2>2, <2>3 DEF DoFails, TypeOK
<1>8. ASSUME NEW c \in Calls, UpdateRateLimit(c) PROVE TypeOK'
  BY <1>8 DEF UpdateRateLimit, Replies, NoReply, TypeOK, PCs, Goto, remote
<1>9. ASSUME NEW c \in Calls, Decide(c) PROVE TypeOK'
  <2>1. WaitBeforeRetry(reply[c].hint, attempt[c]) \in Nat
    BY HintIsHeader, WaitBeforeRetryIsNat DEF TypeOK
  <2>. QED  BY <1>9, <2>1 DEF Decide, TypeOK, PCs, Goto, remote
<1>10. ASSUME NEW c \in Calls, WakeUp(c) PROVE TypeOK'
  BY <1>10 DEF WakeUp, TypeOK, PCs, Goto
<1>11. ASSUME NEW c \in Calls, CancelSleep(c) PROVE TypeOK'
  BY <1>0, <1>11, ReturnTyped DEF CancelSleep, TypeOK, remote
<1>12. ASSUME NEW c \in Calls, Receive(c) PROVE TypeOK'
  <2>1. latest' \in Nat /\ unauthorized' \in [Calls -> Nat]
    BY <1>12 DEF Receive, TypeOK
  <2>2. [reply[c] EXCEPT !.stamp = IF reply[c].limits THEN latest' ELSE 0]
          \in Replies \cup {NoReply}
    <3>1. CASE reply[c] \in Replies
      BY <2>1, <3>1 DEF Replies
    <3>2. CASE reply[c] = NoReply
      BY <3>2 DEF NoReply
    <3>. QED  BY <3>1, <3>2 DEF TypeOK
  <2>3. reply' \in [Calls -> Replies \cup {NoReply}]
    BY <1>12, <2>2 DEF Receive, TypeOK
  <2>. QED  BY <1>12, <2>1, <2>3 DEF Receive, TypeOK, PCs, Goto
<1>13. ASSUME NEW c \in Calls, NEW body \in Bodies, HandleResponse(c, body) PROVE TypeOK'
  <2>1. ResultOf(reply[c].status, body) \in Results
    BY ResultOfIsResult DEF TypeOK
  <2>. QED  BY <1>13, <2>1, ReturnTyped DEF HandleResponse, TypeOK, remote
<1>14. ASSUME NEW c \in Calls, NEW carriedOut \in BOOLEAN, NEW r \in Replies,
              ApiAnswers(c, carriedOut, r)
       PROVE  TypeOK'
  BY <1>14 DEF ApiAnswers, TypeOK
<1>15. ASSUME NEW c \in Calls, OrphanLands(c) PROVE TypeOK'
  BY <1>15 DEF OrphanLands, TypeOK
<1>. QED
  BY <1>1, <1>2, <1>3, <1>4, <1>5, <1>6, <1>7, <1>8, <1>9, <1>10, <1>11, <1>12, <1>13,
     <1>14, <1>15, NextIsCallStep
     DEF CallStep, LocalStep, NetworkStep, RemoteStep, Replies

(* Every variable keeps its type.                                          *)
THEOREM TypeCorrect == Spec => []TypeOK
BY TypeInitially, TypePreserved, PTL DEF Spec

-----------------------------------------------------------------------------
(***************************************************************************)
(* The inductive invariant.  PostAtMostOnce alone is not inductive: that a *)
(* POST may be sent again after a 401 or a 429 rests on what the answer    *)
(* says of the request it answers (Truthful, Once), and that nothing else  *)
(* of the call is under way rests on where its goroutine stands (Control). *)
(***************************************************************************)
Holding == {"record", "decide", "handle"}

Answered(c) == wire[c] = "reply" \/ pc[c] \in Holding

Control(c) ==
  /\ pc[c] = "idle" <=> method[c] = "none"
  /\ pc[c] = "await" <=> wire[c] # "none"
  /\ pc[c] # "done" => result[c].kind = "pending"
  /\ pc[c] = "idle" => execs[c] = 0 /\ orphans[c] = 0
  /\ open[c] = IF pc[c] \in Holding THEN 1 ELSE 0

Truthful(c) ==
  /\ Answered(c) /\ IsSuccess(reply[c].status) => execs[c] >= 1
  /\ Succeeded(c) => execs[c] >= 1

Once(c) ==
  method[c] = "POST" =>
    /\ pc[c] \in {"check", "do", "sleep"} \/ wire[c] = "request"
         => execs[c] = 0 /\ orphans[c] = 0
    /\ Answered(c) =>
         /\ orphans[c] = 0 /\ execs[c] <= 1
         /\ reply[c].status < 500 /\ ~IsSuccess(reply[c].status) => execs[c] = 0
    /\ pc[c] = "done" =>
         /\ execs[c] + orphans[c] <= 1
         /\ Refused(c) => execs[c] + orphans[c] = 0

Attempts(c) ==
  /\ result[c].kind # "nilResponse"
  /\ pc[c] \in {"idle", "check", "do", "await", "record", "decide"} => attempt[c] < MaxRetries
  /\ pc[c] = "sleep" => attempt[c] < MaxRetries - 1

CallInv(c) == Control(c) /\ Truthful(c) /\ Once(c) /\ Attempts(c)

(* What a call has spent so far: each attempt costs at most one wait, a    *)
(* 401 is followed by another attempt only in the first one, and the last  *)
(* attempt is the one whose transient answer is returned.                  *)
Waits(c) ==
  /\ attempt[c] <= MaxRetries - 1
  /\ waited[c] <= attempt[c] * LongestWait
  /\ delay[c] > 0 => attempt[c] <= MaxRetries - 2 /\ delay[c] <= LongestWait

Logins(c) ==
  /\ unauthorized[c] <= 2
  /\ pc[c] \in {"idle", "check", "do", "await"} =>
       unauthorized[c] <= 1 /\ (attempt[c] = 0 => unauthorized[c] = 0)
  /\ pc[c] \in Holding =>
       /\ attempt[c] = 0 => unauthorized[c] <= 1
       /\ reply[c].status # 401 => unauthorized[c] <= 1
  /\ pc[c] = "sleep" => unauthorized[c] <= 1

Transient(m, status) == status = 429 \/ (status >= 500 /\ m # "POST")

Exhausts(c) ==
  /\ pc[c] = "handle" /\ Transient(method[c], reply[c].status) => attempt[c] >= MaxRetries - 1
  /\ result[c].kind = "api" /\ Transient(method[c], result[c].status)
       => attempt[c] >= MaxRetries - 1

CostInv(c) == Waits(c) /\ Logins(c) /\ Exhausts(c)

IInv == TypeOK /\ \A c \in Calls : CallInv(c) /\ CostInv(c)

LEMMA LongestWaitIsNat == LongestWait \in Nat
BY HttpAssumption DEF LongestWait, Linear

LEMMA InvInitially == Init => IInv
<1>. SUFFICES ASSUME Init, NEW c \in Calls PROVE CallInv(c) /\ CostInv(c)
  BY TypeInitially DEF IInv
<1>1. CallInv(c)
  BY HttpAssumption
     DEF Init, CallInv, Control, Truthful, Once, Attempts, Answered, Holding, Succeeded,
         Outcome, IsSuccess, NoReply
<1>2. waited[c] <= attempt[c] * LongestWait
  BY LongestWaitIsNat DEF Init
<1>3. CostInv(c)
  BY <1>2, HttpAssumption DEF Init, CostInv, Waits, Logins, Exhausts, Holding, Outcome
<1>. QED  BY <1>1, <1>3

(* Nothing of call d has changed.                                          *)
SameAt(d) ==
  /\ pc'[d] = pc[d] /\ method'[d] = method[d] /\ attempt'[d] = attempt[d]
  /\ wire'[d] = wire[d] /\ reply'[d] = reply[d] /\ open'[d] = open[d]
  /\ result'[d] = result[d] /\ execs'[d] = execs[d] /\ orphans'[d] = orphans[d]
  /\ delay'[d] = delay[d] /\ waited'[d] = waited[d] /\ unauthorized'[d] = unauthorized[d]

LEMMA OthersKeepTheirState ==
  ASSUME TypeOK, NEW c \in Calls, NEW d \in Calls, d # c, CallStep(c)
  PROVE  SameAt(d)
<1>. USE DEF TypeOK, SameAt, Goto, Return, remote
<1>1. ASSUME NEW m \in Methods, Begin(c, m) PROVE SameAt(d)
  BY <1>1 DEF Begin
<1>2. CASE Cancel(c)
  BY <1>2 DEF Cancel
<1>3. CASE LocalStep(c)
  BY <1>3 DEF LocalStep, LoopHead, Send, BuildFails, DoFails, UpdateRateLimit, Decide,
              WakeUp, CancelSleep
<1>4. CASE NetworkStep(c)
  BY <1>4 DEF NetworkStep, DoFails, Receive, HandleResponse
<1>5. CASE RemoteStep(c)
  BY <1>5 DEF RemoteStep, ApiAnswers, OrphanLands
<1>. QED  BY <1>1, <1>2, <1>3, <1>4, <1>5 DEF CallStep

LEMMA SameStateSameInv ==
  ASSUME NEW d \in Calls, CallInv(d), CostInv(d), SameAt(d)
  PROVE  CallInv(d)' /\ CostInv(d)'
<1>1. CallInv(d)'
  BY DEF SameAt, CallInv, Control, Truthful, Once, Attempts, Answered, Succeeded, Refused
<1>2. CostInv(d)'
  BY DEF SameAt, CostInv, Waits, Logins, Exhausts
<1>. QED  BY <1>1, <1>2

(* What ResultOf says of an answer: success only of a 2xx status, refusal  *)
(* only of another one.                                                    *)
LEMMA ResultTellsStatus ==
  ASSUME NEW status \in Int, NEW body \in Bodies
  PROVE  LET r == ResultOf(status, body) IN
           /\ r.kind \in {"ok", "okEmpty"} => IsSuccess(status)
           /\ r.kind = "api" => r.status = status /\ ~IsSuccess(status)
           /\ r.kind \in {"ok", "okEmpty", "api", "network", "parse", "panic"}
BY DEF ResultOf, ErrorOf, Outcome

LEMMA OwnInv ==
  ASSUME TypeOK, NEW c \in Calls, CallInv(c), CallStep(c)
  PROVE  CallInv(c)'
<1>. DEFINE Inv == CallInv(c)'
<1>0. reply[c].status \in Nat
  <2>1. reply[c] \in Replies \cup {NoReply}
    BY DEF TypeOK
  <2>2. CASE reply[c] \in Replies
    <3>1. Statuses \subseteq 100..599
      BY HttpAssumption
    <3>2. reply[c].status \in Statuses
      BY <2>2 DEF Replies
    <3>3. reply[c].status \in 100..599
      BY <3>1, <3>2
    <3>. QED  BY <3>3
  <2>3. CASE reply[c] = NoReply
    BY <2>3 DEF NoReply
  <2>. QED  BY <2>1, <2>2, <2>3
<1>. USE DEF TypeOK, CallInv, Goto, Return, remote, Holding, Answered, Succeeded, Refused
<1>1. ASSUME NEW m \in Methods, Begin(c, m) PROVE Inv
  BY <1>1, HttpAssumption DEF Begin, Control, Truthful, Once, Attempts, Outcome
<1>2. CASE Cancel(c)
  BY <1>2 DEF Cancel, Control, Truthful, Once, Attempts
<1>3. CASE LoopHead(c)
  <2>1. attempt[c] < MaxRetries
    BY <1>3 DEF LoopHead, Attempts
  <2>. QED  BY <1>3, <2>1, HttpAssumption
            DEF LoopHead, Control, Truthful, Once, Attempts, Outcome
<1>4. CASE Send(c)
  BY <1>4 DEF Send, Control, Truthful, Once, Attempts
<1>5. CASE BuildFails(c)
  BY <1>5 DEF BuildFails, Control, Truthful, Once, Attempts, Outcome
<1>6. CASE DoFails(c)
  <2>1. Control(c)' /\ Truthful(c)'
    BY <1>6 DEF DoFails, Control, Truthful, Outcome, NoReply, IsSuccess
  <2>2. Once(c)'
    BY <1>6 DEF DoFails, Control, Once, Outcome, RetriesTransportError
  <2>3. Attempts(c)'
    BY <1>6, HttpAssumption DEF DoFails, Attempts, Outcome, RetriesTransportError, Last
  <2>. QED  BY <2>1, <2>2, <2>3
<1>7. CASE UpdateRateLimit(c)
  BY <1>7 DEF UpdateRateLimit, Control, Truthful, Once, Attempts
<1>8. CASE Decide(c)
  <2>1. Control(c)' /\ Truthful(c)'
    BY <1>8 DEF Decide, Control, Truthful
  <2>2. Once(c)'
    BY <1>8, <1>0 DEF Decide, Control, Once, ShouldRetry, IsSuccess
  <2>3. Attempts(c)'
    BY <1>8, HttpAssumption DEF Decide, Attempts, Last
  <2>. QED  BY <2>1, <2>2, <2>3
<1>9. CASE WakeUp(c)
  BY <1>9, HttpAssumption DEF WakeUp, Control, Truthful, Once, Attempts, NoReply
<1>10. CASE CancelSleep(c)
  BY <1>10 DEF CancelSleep, Control, Truthful, Once, Attempts, Outcome
<1>11. CASE Receive(c)
  <2>1. reply'[c].status = reply[c].status
    BY <1>11 DEF Receive, Replies, NoReply
  <2>. QED  BY <1>11, <2>1 DEF Receive, Control, Truthful, Once, Attempts
<1>12. ASSUME NEW body \in Bodies, HandleResponse(c, body) PROVE Inv
  BY <1>12, <1>0, ResultTellsStatus
     DEF HandleResponse, Control, Truthful, Once, Attempts
<1>13. ASSUME NEW carriedOut \in BOOLEAN, NEW r \in Replies, ApiAnswers(c, carriedOut, r)
       PROVE  Inv
  <2>1. /\ IsSuccess(r.status) => carriedOut
        /\ carriedOut => IsSuccess(r.status) \/ r.status >= 500
    BY <1>13 DEF ApiAnswers, Accepts, IsSuccess
  <2>2. /\ r.status \in Nat
        /\ r.status < 500 /\ ~IsSuccess(r.status) => ~carriedOut
    <3>1. r.status \in Statuses /\ Statuses \subseteq 100..599
      BY HttpAssumption DEF Replies
    <3>2. r.status \in 100..599
      BY <3>1
    <3>. QED  BY <2>1, <3>2
  <2>3. /\ reply'[c] = r /\ pc' = pc /\ wire'[c] = "reply"
        /\ execs'[c] = execs[c] + (IF carriedOut THEN 1 ELSE 0)
    BY <1>13 DEF ApiAnswers
  <2>4. Control(c)' /\ Attempts(c)'
    BY <1>13, <2>3 DEF ApiAnswers, Control, Attempts
  <2>5. Truthful(c)'
    BY <1>13, <2>1, <2>3 DEF ApiAnswers, Control, Truthful
  <2>6. Once(c)'
    BY <1>13, <2>2, <2>3 DEF ApiAnswers, Control, Once
  <2>. QED  BY <2>4, <2>5, <2>6
<1>14. CASE OrphanLands(c)
  BY <1>14 DEF OrphanLands, Control, Truthful, Once, Attempts
<1>. QED
  BY <1>1, <1>2, <1>3, <1>4, <1>5, <1>6, <1>7, <1>8, <1>9, <1>10, <1>11, <1>12, <1>13, <1>14
     DEF CallStep, LocalStep, NetworkStep, RemoteStep, Replies

(* The backoff grows with the attempts, so the last one that is followed   *)
(* by a wait has the longest.                                              *)
LEMMA WaitIsAtMostLongest ==
  ASSUME NEW n \in Nat, n <= MaxRetries - 2
  PROVE  /\ Linear(n) <= LongestWait
         /\ \A h \in Headers : WaitBeforeRetry(h, n) <= LongestWait
<1>1. Linear(n) <= Linear(MaxRetries - 2)
  <2>1. MaxRetries \in Nat /\ Backoff \in Nat
    BY HttpAssumption
  <2>2. PICK k \in Nat : MaxRetries - 2 = n + k
    BY <2>1
  <2>3. (n + k + 1) * Backoff = (n + 1) * Backoff + k * Backoff /\ k * Backoff \in Nat
    BY <2>1, <2>2
  <2>4. (n + 1) * Backoff \in Nat
    BY <2>1
  <2>. QED  BY <2>1, <2>2, <2>3, <2>4 DEF Linear
<1>2. Linear(n) \in Nat /\ Linear(MaxRetries - 2) \in Int
  BY HttpAssumption DEF Linear
<1>3. Linear(n) <= LongestWait /\ MaxWait <= LongestWait /\ LongestWait \in Nat
  BY <1>1, <1>2, HttpAssumption, LongestWaitIsNat DEF LongestWait
<1>4. \A h \in Headers : RetryAfter(h, MaxWait) \in 0..MaxWait
  BY RetryAfterIsBounded, HttpAssumption
<1>. QED  BY <1>3, <1>4, HttpAssumption DEF WaitBeforeRetry

(* One more wait of at most LongestWait costs one more of them.            *)
LEMMA WaitBudget ==
  ASSUME NEW n \in Nat, NEW t \in Nat, NEW d \in Nat, t <= n * LongestWait, d <= LongestWait
  PROVE  t + d <= (n + 1) * LongestWait
BY LongestWaitIsNat

LEMMA OwnCosts ==
  ASSUME TypeOK, NEW c \in Calls, CallInv(c), CostInv(c), CallStep(c)
  PROVE  CostInv(c)'
<1>. DEFINE Inv == CostInv(c)'
<1>. USE DEF TypeOK, CostInv, Goto, Return, remote, Holding
<1>1. ASSUME NEW m \in Methods, Begin(c, m) PROVE Inv
  BY <1>1, HttpAssumption DEF Begin, Waits, Logins, Exhausts, Outcome, CallInv, Control
<1>2. CASE Cancel(c)
  BY <1>2 DEF Cancel, Waits, Logins, Exhausts
<1>3. CASE LoopHead(c)
  BY <1>3 DEF LoopHead, Waits, Logins, Exhausts, Outcome
<1>4. CASE Send(c)
  BY <1>4 DEF Send, Waits, Logins, Exhausts
<1>5. CASE BuildFails(c)
  BY <1>5 DEF BuildFails, Waits, Logins, Exhausts, Outcome
<1>6. CASE DoFails(c)
  <2>1. Waits(c)'
    <3>1. CASE RetriesTransportError(method[c], attempt[c])
      <4>1. attempt[c] <= MaxRetries - 2
        BY <3>1, HttpAssumption DEF RetriesTransportError, Last
      <4>. QED  BY <1>6, <3>1, <4>1, WaitIsAtMostLongest DEF DoFails, Waits
    <3>2. CASE ~RetriesTransportError(method[c], attempt[c])
      BY <1>6, <3>2 DEF DoFails, Waits
    <3>. QED  BY <3>1, <3>2
  <2>2. Logins(c)' /\ Exhausts(c)'
    BY <1>6 DEF DoFails, Logins, Exhausts, Outcome, CallInv, Control
  <2>. QED  BY <2>1, <2>2
<1>7. CASE UpdateRateLimit(c)
  BY <1>7 DEF UpdateRateLimit, Waits, Logins, Exhausts
<1>8. CASE Decide(c)
  <2>1. Waits(c)'
    <3>1. CASE ShouldRetry(method[c], reply[c].status, attempt[c]) /\ ~Last(attempt[c])
      <4>1. attempt[c] <= MaxRetries - 2
        BY <3>1, HttpAssumption DEF Last
      <4>2. reply[c].hint \in Headers
        BY HintIsHeader
      <4>. QED  BY <1>8, <3>1, <4>1, <4>2, WaitIsAtMostLongest DEF Decide, Waits
    <3>2. CASE ~(ShouldRetry(method[c], reply[c].status, attempt[c]) /\ ~Last(attempt[c]))
      BY <1>8, <3>2 DEF Decide, Waits
    <3>. QED  BY <3>1, <3>2
  <2>2. Logins(c)'
    BY <1>8 DEF Decide, Logins, ShouldRetry
  <2>3. Exhausts(c)'
    BY <1>8, HttpAssumption DEF Decide, Exhausts, Transient, ShouldRetry, Last
  <2>. QED  BY <2>1, <2>2, <2>3
<1>9. CASE WakeUp(c)
  <2>1. attempt[c] <= MaxRetries - 2 /\ delay[c] <= LongestWait
    BY <1>9, HttpAssumption, LongestWaitIsNat DEF WakeUp, Waits, CallInv, Attempts
  <2>2. Waits(c)'
    BY <1>9, <2>1, WaitBudget, HttpAssumption DEF WakeUp, Waits
  <2>3. Logins(c)' /\ Exhausts(c)'
    BY <1>9 DEF WakeUp, Logins, Exhausts, CallInv, Control
  <2>. QED  BY <2>2, <2>3
<1>10. CASE CancelSleep(c)
  BY <1>10 DEF CancelSleep, Waits, Logins, Exhausts, Outcome
<1>11. CASE Receive(c)
  <2>1. reply'[c].status = reply[c].status
    BY <1>11 DEF Receive, Replies, NoReply
  <2>2. pc[c] = "await"
    BY <1>11 DEF Receive, CallInv, Control
  <2>. QED  BY <1>11, <2>1, <2>2 DEF Receive, Waits, Logins, Exhausts
<1>12. ASSUME NEW body \in Bodies, HandleResponse(c, body) PROVE Inv
  <2>1. result'[c].kind = "api" => result'[c].status = reply[c].status
    BY <1>12 DEF HandleResponse, ResultOf, ErrorOf, Outcome
  <2>. QED  BY <1>12, <2>1 DEF HandleResponse, Waits, Logins, Exhausts
<1>13. ASSUME NEW carriedOut \in BOOLEAN, NEW r \in Replies, ApiAnswers(c, carriedOut, r)
       PROVE  Inv
  <2>1. pc[c] = "await"
    BY <1>13 DEF ApiAnswers, CallInv, Control
  <2>. QED  BY <1>13, <2>1 DEF ApiAnswers, Waits, Logins, Exhausts
<1>14. CASE OrphanLands(c)
  BY <1>14 DEF OrphanLands, Waits, Logins, Exhausts
<1>. QED
  BY <1>1, <1>2, <1>3, <1>4, <1>5, <1>6, <1>7, <1>8, <1>9, <1>10, <1>11, <1>12, <1>13, <1>14
     DEF CallStep, LocalStep, NetworkStep, RemoteStep, Replies

LEMMA InvPreserved == IInv /\ [Next]_vars => IInv'
<1>. SUFFICES ASSUME IInv, [Next]_vars, NEW d \in Calls PROVE CallInv(d)' /\ CostInv(d)'
  BY TypePreserved DEF IInv
<1>1. CASE UNCHANGED vars
  <2>1. SameAt(d)
    BY <1>1 DEF vars, SameAt
  <2>. QED  BY <2>1, SameStateSameInv DEF IInv
<1>2. ASSUME NEW c \in Calls, CallStep(c) PROVE CallInv(d)' /\ CostInv(d)'
  <2>1. CASE c = d
    BY <1>2, <2>1, OwnInv, OwnCosts DEF IInv
  <2>2. CASE c # d
    BY <1>2, <2>2, OthersKeepTheirState, SameStateSameInv DEF IInv
  <2>. QED  BY <2>1, <2>2
<1>. QED  BY <1>1, <1>2, NextIsCallStep

(* The inductive invariant holds in every reachable state.                 *)
THEOREM Invariance == Spec => []IInv
BY InvInitially, InvPreserved, PTL DEF Spec

-----------------------------------------------------------------------------
LEMMA InvOnce == IInv => PostAtMostOnce
<1>. SUFFICES ASSUME IInv, NEW c \in Calls, method[c] = "POST" PROVE Effects(c) <= 1
  BY DEF PostAtMostOnce
<1>1. pc[c] \in PCs /\ pc[c] # "idle"
  BY HttpAssumption DEF IInv, TypeOK, CallInv, Control
<1>. QED
  BY <1>1 DEF IInv, TypeOK, CallInv, Control, Once, Effects, Answered, Holding, PCs

(* A POST reported as refused has no effect, now or later.                 *)
NoEffect == \A c \in Calls : method[c] = "POST" /\ Refused(c) => Effects(c) = 0

LEMMA InvRefused == IInv => NoEffect
<1>. SUFFICES ASSUME IInv, NEW c \in Calls, method[c] = "POST", Refused(c)
              PROVE  Effects(c) = 0
  BY DEF NoEffect
<1>1. pc[c] = "done"
  BY DEF IInv, CallInv, Control, Refused
<1>2. wire[c] # "request"
  BY <1>1 DEF IInv, CallInv, Control, TypeOK
<1>. QED  BY <1>1, <1>2 DEF IInv, TypeOK, CallInv, Once, Effects

(* Both, in the state after a step.                                        *)
LEMMA InvOnceNext == IInv' => PostAtMostOnce'
BY InvOnce, PTL

LEMMA InvRefusedNext == IInv' => NoEffect'
BY InvRefused, PTL

(* One call of Post or PostRaw is carried out at most once.                *)
THEOREM PostOnce == Spec => []PostAtMostOnce
BY InvOnce, Invariance, PTL

(* What a call returns is true: a success was carried out, a POST reported *)
(* as refused has no effect, now or later, and there is no nil response.   *)
THEOREM ResultIsReal == Spec => []ResultIsTrue
<1>1. ASSUME IInv, NEW c \in Calls
      PROVE  (Succeeded(c) => execs[c] >= 1) /\ result[c].kind # "nilResponse"
  BY <1>1 DEF IInv, CallInv, Truthful, Attempts
<1>2. IInv => ResultIsTrue
  BY <1>1, InvRefused DEF ResultIsTrue, NoEffect
<1>. QED  BY <1>2, Invariance, PTL

(* The time asleep is bounded by the configuration, whatever the headers.  *)
THEOREM WaitBound == Spec => []WaitBounded
<1>1. ASSUME IInv, NEW c \in Calls PROVE waited[c] + delay[c] <= (MaxRetries - 1) * LongestWait
  <2>. USE <1>1 DEF IInv, TypeOK, CostInv, Waits
  <2>1. \A m, n \in Nat : m <= n => m * LongestWait <= n * LongestWait
    BY LongestWaitIsNat
  <2>2. attempt[c] * LongestWait <= (MaxRetries - 1) * LongestWait
    BY <2>1, HttpAssumption
  <2>3. CASE delay[c] = 0
    BY <2>2, <2>3, LongestWaitIsNat, HttpAssumption
  <2>4. CASE delay[c] > 0
    <3>1. waited[c] + delay[c] <= (attempt[c] + 1) * LongestWait
      BY <2>4, WaitBudget
    <3>2. attempt[c] + 1 <= MaxRetries - 1 /\ attempt[c] + 1 \in Nat /\ MaxRetries - 1 \in Nat
      BY <2>4, HttpAssumption
    <3>3. (attempt[c] + 1) * LongestWait <= (MaxRetries - 1) * LongestWait
      BY <2>1, <3>2
    <3>. QED  BY <3>1, <3>2, <3>3, LongestWaitIsNat
  <2>. QED  BY <2>3, <2>4
<1>2. IInv => WaitBounded
  BY <1>1 DEF WaitBounded
<1>. QED  BY <1>2, Invariance, PTL

(* Bad credentials cost at most two requests.                              *)
THEOREM LoginBound == Spec => []UnauthorizedAtMostTwice
<1>1. IInv => UnauthorizedAtMostTwice
  BY DEF IInv, CostInv, Logins, UnauthorizedAtMostTwice
<1>. QED  BY <1>1, Invariance, PTL

(* A transient status is returned only after the last attempt.             *)
THEOREM AllAttemptsAreMade == Spec => []TransientErrorsExhaustRetries
<1>1. IInv => TransientErrorsExhaustRetries
  BY HttpAssumption DEF IInv, TypeOK, CostInv, Waits, Exhausts, Transient,
                        TransientErrorsExhaustRetries
<1>. QED  BY <1>1, Invariance, PTL

(* Every response body is closed once.                                     *)
THEOREM NoBodyLeaks == Spec => []BodiesClosed
<1>1. IInv => BodiesClosed
  BY DEF IInv, CallInv, Control, Holding, BodiesClosed
<1>. QED  BY <1>1, Invariance, PTL

-----------------------------------------------------------------------------
(***************************************************************************)
(* Refinement: every step of the client, the API or the network is a step  *)
(* of RemoteCall for the same call, or leaves what RemoteCall sees alone.  *)
(***************************************************************************)
Phase == [c \in Calls |-> PhaseOf(c)]

OnceMap == [c \in Calls |-> method[c] = "POST"]

LEMMA OnlyOwnPhase ==
  ASSUME TypeOK, TypeOK', NEW c \in Calls, CallStep(c)
  PROVE  /\ Phase' = [Phase EXCEPT ![c] = PhaseOf(c)']
         /\ execs' = [execs EXCEPT ![c] = execs'[c]]
         /\ OnceMap' = [OnceMap EXCEPT ![c] = (method'[c] = "POST")]
<1>1. \A d \in Calls : d # c => SameAt(d)
  BY OthersKeepTheirState
<1>2. \A d \in Calls : d # c => PhaseOf(d)' = PhaseOf(d)
  BY <1>1 DEF SameAt, PhaseOf, Succeeded, Refused
<1>3. Phase' = [Phase EXCEPT ![c] = PhaseOf(c)']
  BY <1>2 DEF Phase
<1>4. execs' = [execs EXCEPT ![c] = execs'[c]]
  BY <1>1 DEF SameAt, TypeOK
<1>5. OnceMap' = [OnceMap EXCEPT ![c] = (method'[c] = "POST")]
  BY <1>1 DEF SameAt, OnceMap
<1>. QED  BY <1>3, <1>4, <1>5

(* The phases that the points of a goroutine stand for.                    *)
LEMMA PhaseCases ==
  ASSUME NEW c \in Calls
  PROVE  /\ PhaseOf(c) \in {"idle", "busy", "ok", "refused", "failed"}
         /\ pc[c] = "idle" <=> PhaseOf(c) = "idle"
         /\ pc[c] \notin {"idle", "done"} <=> PhaseOf(c) = "busy"
         /\ PhaseOf(c) = "ok" => Succeeded(c)
         /\ PhaseOf(c) = "refused" => Refused(c)
         /\ pc[c] = "done" /\ result[c].kind = "validation" => PhaseOf(c) = "refused"
BY DEF PhaseOf, Succeeded, Refused

(* What a step of call c does to what its caller can see.                  *)
LEMMA StepKinds ==
  ASSUME IInv, IInv', NEW c \in Calls, CallStep(c)
  PROVE  \/ /\ pc[c] = "idle" /\ execs'[c] = execs[c]
            /\ PhaseOf(c)' \in {"busy", "refused"}
         \/ /\ pc'[c] = pc[c] /\ result'[c] = result[c] /\ method'[c] = method[c]
            /\ pc[c] # "idle" /\ execs'[c] = execs[c] + 1
         \/ /\ pc'[c] = pc[c] /\ result'[c] = result[c] /\ method'[c] = method[c]
            /\ execs'[c] = execs[c]
         \/ /\ pc[c] \notin {"idle", "done"} /\ pc'[c] # "idle"
            /\ method'[c] = method[c] /\ execs'[c] = execs[c]
<1>. USE DEF IInv, TypeOK, Goto, Return, remote
<1>1. ASSUME NEW m \in Methods, Begin(c, m)
      PROVE  /\ pc[c] = "idle" /\ execs'[c] = execs[c]
             /\ PhaseOf(c)' \in {"busy", "refused"}
  <2>1. \/ pc'[c] = "check"
        \/ pc'[c] = "done" /\ result'[c].kind = "validation"
    BY <1>1 DEF Begin, Outcome
  <2>. QED  BY <1>1, <2>1 DEF Begin, PhaseOf, Succeeded, Refused
<1>2. CASE Cancel(c)
  BY <1>2 DEF Cancel
<1>3. CASE LocalStep(c)
  BY <1>3 DEF LocalStep, LoopHead, Send, BuildFails, DoFails, UpdateRateLimit, Decide,
              WakeUp, CancelSleep
<1>4. CASE NetworkStep(c)
  <2>1. pc[c] \in {"await", "handle"}
    BY <1>4 DEF NetworkStep, Receive, HandleResponse, CallInv, Control
  <2>. QED  BY <1>4, <2>1 DEF NetworkStep, DoFails, Receive, HandleResponse
<1>5. CASE RemoteStep(c)
  <2>1. pc[c] # "idle"
    BY <1>5 DEF RemoteStep, ApiAnswers, OrphanLands, CallInv, Control
  <2>. QED  BY <1>5, <2>1 DEF RemoteStep, ApiAnswers, OrphanLands
<1>. QED  BY <1>1, <1>2, <1>3, <1>4, <1>5 DEF CallStep

LEMMA PromiseInitially == Init => Promise!Init
BY HttpAssumption DEF Init, Promise!Init, PhaseOf

LEMMA PromiseStep ==
  ASSUME IInv, IInv', [Next]_vars
  PROVE  [Promise!Next]_(Promise!vars)
<1>. USE DEF Phase, OnceMap
<1>1. CASE UNCHANGED vars
  BY <1>1 DEF vars, Promise!vars, PhaseOf, Succeeded, Refused
<1>2. ASSUME NEW c \in Calls, CallStep(c) PROVE [Promise!Next]_(Promise!vars)
  <2>0. execs \in [Calls -> Nat] /\ orphans[c] \in Nat /\ orphans'[c] \in Nat
    BY DEF IInv, TypeOK
  <2>1. /\ Phase' = [Phase EXCEPT ![c] = PhaseOf(c)']
        /\ execs' = [execs EXCEPT ![c] = execs'[c]]
        /\ OnceMap' = [OnceMap EXCEPT ![c] = (method'[c] = "POST")]
    BY <1>2, OnlyOwnPhase DEF IInv
  <2>2. /\ Phase[c] = PhaseOf(c) /\ Phase'[c] = PhaseOf(c)'
        /\ OnceMap[c] = (method[c] = "POST")
    OBVIOUS
  <2>3. PhaseOf(c)' \in {"idle", "busy", "ok", "refused", "failed"}
    BY PhaseCases DEF PhaseOf, Succeeded, Refused
  <2>4. CASE /\ pc[c] = "idle" /\ execs'[c] = execs[c]
             /\ PhaseOf(c)' \in {"busy", "refused"}
    <3>1. UNCHANGED execs
      BY <2>0, <2>1, <2>4
    <3>2. Phase[c] = "idle"
      BY <2>4, PhaseCases
    <3>3. Promise!Ask(c) \/ Promise!Reject(c)
      BY <2>1, <2>4, <3>1, <3>2 DEF Promise!Ask, Promise!Reject
    <3>. QED  BY <3>3 DEF Promise!Next
  <2>5. CASE /\ pc'[c] = pc[c] /\ result'[c] = result[c] /\ method'[c] = method[c]
             /\ pc[c] # "idle" /\ execs'[c] = execs[c] + 1
    <3>1. PhaseOf(c)' = PhaseOf(c)
      BY <2>5 DEF PhaseOf, Succeeded, Refused
    <3>2. Phase' = Phase /\ OnceMap' = OnceMap
      BY <2>1, <2>5, <3>1
    <3>3. Phase[c] # "idle"
      BY <2>5, PhaseCases
    <3>4. OnceMap[c] => execs[c] = 0 /\ Phase[c] \in {"busy", "failed"}
      <4>. SUFFICES ASSUME method[c] = "POST"
                    PROVE  execs[c] = 0 /\ PhaseOf(c) \in {"busy", "failed"}
        OBVIOUS
      <4>1. Effects(c)' <= 1
        BY <2>5, InvOnceNext DEF PostAtMostOnce
      <4>2. execs[c] = 0
        BY <2>0, <2>5, <4>1 DEF Effects
      <4>3. ~Succeeded(c)
        BY <4>2 DEF IInv, CallInv, Truthful
      <4>4. ~Refused(c)
        <5>. SUFFICES ASSUME Refused(c) PROVE FALSE
          OBVIOUS
        <5>1. Refused(c)'
          BY <2>5 DEF Refused
        <5>2. Effects(c)' = 0
          BY <2>5, <5>1, InvRefusedNext DEF NoEffect
        <5>. QED  BY <2>0, <2>5, <4>2, <5>2 DEF Effects
      <4>. QED  BY <2>5, <4>2, <4>3, <4>4 DEF PhaseOf
    <3>5. Promise!CarryOut(c)
      BY <2>1, <2>5, <3>2, <3>3, <3>4 DEF Promise!CarryOut
    <3>. QED  BY <3>5 DEF Promise!Next
  <2>6. CASE /\ pc'[c] = pc[c] /\ result'[c] = result[c] /\ method'[c] = method[c]
             /\ execs'[c] = execs[c]
    <3>1. PhaseOf(c)' = PhaseOf(c)
      BY <2>6 DEF PhaseOf, Succeeded, Refused
    <3>2. Phase' = Phase /\ OnceMap' = OnceMap
      BY <2>1, <2>6, <3>1
    <3>3. execs' = execs
      BY <2>0, <2>1, <2>6
    <3>. QED  BY <3>2, <3>3 DEF Promise!vars
  <2>7. CASE /\ pc[c] \notin {"idle", "done"} /\ pc'[c] # "idle"
             /\ method'[c] = method[c] /\ execs'[c] = execs[c]
    <3>1. OnceMap' = OnceMap /\ execs' = execs
      <4>1. OnceMap' = OnceMap
        BY <2>1, <2>7
      <4>2. execs' = execs
        BY <2>0, <2>1, <2>7
      <4>. QED  BY <4>1, <4>2
    <3>2. Phase[c] = "busy"
      BY <2>7, PhaseCases
    <3>3. PhaseOf(c)' # "idle"
      BY <2>7 DEF PhaseOf
    <3>4. CASE PhaseOf(c)' = "busy"
      <4>1. Phase' = Phase
        BY <2>1, <3>2, <3>4
      <4>. QED  BY <3>1, <4>1 DEF Promise!vars
    <3>5. ASSUME NEW outcome \in {"ok", "refused", "failed"}, PhaseOf(c)' = outcome
          PROVE  Promise!Tell(c, outcome)
      <4>1. outcome = "ok" => execs[c] > 0
        BY <2>7, <3>5 DEF PhaseOf, IInv, CallInv, Truthful, TypeOK
      <4>2. outcome = "refused" /\ OnceMap[c] => execs[c] = 0
        <5>. SUFFICES ASSUME outcome = "refused", method[c] = "POST" PROVE execs[c] = 0
          OBVIOUS
        <5>1. Refused(c)'
          BY <3>5 DEF PhaseOf
        <5>2. Effects(c)' = 0
          BY <2>7, <5>1, InvRefusedNext DEF NoEffect
        <5>. QED  BY <2>0, <2>7, <5>2 DEF Effects
      <4>. QED  BY <2>1, <3>1, <3>2, <3>5, <4>1, <4>2 DEF Promise!Tell
    <3>. QED  BY <2>3, <3>3, <3>4, <3>5 DEF Promise!Next
  <2>. QED  BY <1>2, <2>4, <2>5, <2>6, <2>7, StepKinds
<1>. QED  BY <1>1, <1>2, NextIsCallStep

(* HttpClient implements what RemoteCall promises the caller.              *)
THEOREM Refinement == Spec => ImplementsRemoteCall
BY PromiseInitially, PromiseStep, Invariance, PTL DEF Spec, ImplementsRemoteCall, Promise!Spec

-----------------------------------------------------------------------------
(***************************************************************************)
(* The rate-limit state.  A response with the headers is either still to   *)
(* be recorded, by a call that holds it, or has been: those who hold one   *)
(* are finitely many at any time, and what they will store is not zero.    *)
(***************************************************************************)
Recording == {c \in Calls : pc[c] = "record" /\ reply[c].limits}

RecordingInv ==
  /\ IsFiniteSet(Recording)
  /\ \A c \in Recording : reply[c].stamp >= 1
  /\ RateLimitNotForgotten

LEMMA RecordingInitially == Init => RecordingInv
<1>. SUFFICES ASSUME Init PROVE RecordingInv
  OBVIOUS
<1>1. Recording = {}
  BY DEF Init, Recording
<1>2. Cardinality(Recording) = 0 /\ IsFiniteSet(Recording)
  BY <1>1, FS_EmptySet
<1>3. latest = 0
  BY DEF Init
<1>. QED  BY <1>1, <1>2, <1>3 DEF RecordingInv, RateLimitNotForgotten, Recording

(* Nobody begins or ends to hold a response, and nothing is recorded.      *)
LEMMA SameRecording ==
  ASSUME RecordingInv, Recording' = Recording, rateLimit' = rateLimit, latest' = latest,
         \A c \in Recording : reply'[c].stamp = reply[c].stamp
  PROVE  RecordingInv'
BY DEF RecordingInv, RateLimitNotForgotten, Recording

LEMMA ReceiveRecording ==
  ASSUME IInv, RecordingInv, NEW c \in Calls, Receive(c)
  PROVE  RecordingInv'
<1>1. pc[c] = "await" /\ latest \in Nat
  BY DEF Receive, IInv, TypeOK, CallInv, Control
<1>2. /\ reply'[c].limits = reply[c].limits
      /\ reply[c].limits => reply'[c].stamp = latest + 1
      /\ \A d \in Calls : d # c => reply'[d] = reply[d] /\ pc'[d] = pc[d]
      /\ pc'[c] = "record" /\ rateLimit' = rateLimit
      /\ latest' = latest + (IF reply[c].limits THEN 1 ELSE 0)
  <2>1. reply[c] \in Replies \cup {NoReply}
    BY DEF IInv, TypeOK
  <2>. QED  BY <2>1 DEF Receive, Goto, IInv, TypeOK, Replies, NoReply
<1>3. c \notin Recording
  BY <1>1 DEF Recording
<1>4. CASE reply[c].limits
  <2>1. Recording' = Recording \cup {c}
    BY <1>2, <1>4 DEF Recording
  <2>2. IsFiniteSet(Recording') /\ Cardinality(Recording') = Cardinality(Recording) + 1
    BY <1>3, <2>1, FS_AddElement DEF RecordingInv
  <2>3. Cardinality(Recording) \in Nat
    BY FS_CardinalityType DEF RecordingInv
  <2>4. RateLimitNotForgotten'
    BY <1>1, <1>2, <1>4, <2>2, <2>3 DEF RecordingInv, RateLimitNotForgotten, Recording
  <2>5. \A d \in Recording' : reply'[d].stamp >= 1
    BY <1>1, <1>2, <1>3, <1>4, <2>1 DEF RecordingInv, Recording
  <2>. QED  BY <2>2, <2>4, <2>5 DEF RecordingInv
<1>5. CASE ~reply[c].limits
  <2>1. Recording' = Recording
    BY <1>1, <1>2, <1>5 DEF Recording
  <2>. QED  BY <1>1, <1>2, <1>3, <1>5, <2>1, SameRecording DEF Recording
<1>. QED  BY <1>4, <1>5

LEMMA UpdateRecording ==
  ASSUME IInv, RecordingInv, NEW c \in Calls, UpdateRateLimit(c)
  PROVE  RecordingInv'
<1>1. /\ pc[c] = "record" /\ pc'[c] = "decide" /\ reply' = reply /\ latest' = latest
      /\ \A d \in Calls : d # c => pc'[d] = pc[d]
      /\ rateLimit' = IF reply[c].limits THEN reply[c].stamp ELSE rateLimit
  BY DEF UpdateRateLimit, Goto, IInv, TypeOK, remote
<1>2. CASE reply[c].limits
  <2>1. Recording' = Recording \ {c} /\ c \in Recording
    BY <1>1, <1>2 DEF Recording
  <2>2. IsFiniteSet(Recording')
    BY <2>1, FS_RemoveElement DEF RecordingInv
  <2>3. rateLimit' # 0
    BY <1>1, <1>2, <2>1 DEF RecordingInv
  <2>. QED  BY <1>1, <2>1, <2>2, <2>3 DEF RecordingInv, RateLimitNotForgotten
<1>3. CASE ~reply[c].limits
  <2>1. Recording' = Recording /\ rateLimit' = rateLimit
    BY <1>1, <1>3 DEF Recording
  <2>. QED  BY <1>1, <2>1, SameRecording
<1>. QED  BY <1>2, <1>3

LEMMA OtherRecording ==
  ASSUME IInv, RecordingInv, NEW c \in Calls, CallStep(c), ~Receive(c), ~UpdateRateLimit(c)
  PROVE  RecordingInv'
<1>. DEFINE KeepsRecord == /\ rateLimit' = rateLimit /\ latest' = latest
                           /\ pc[c] = "record" <=> pc'[c] = "record"
                           /\ pc[c] = "record" => reply'[c] = reply[c]
<1>1. KeepsRecord
  <2>. USE DEF IInv, TypeOK, Goto, Return, remote
  <2>1. ASSUME NEW m \in Methods, Begin(c, m) PROVE KeepsRecord
    BY <2>1 DEF Begin
  <2>2. CASE Cancel(c)
    BY <2>2 DEF Cancel
  <2>3. CASE LocalStep(c)
    BY <2>3 DEF LocalStep, LoopHead, Send, BuildFails, DoFails, Decide, WakeUp, CancelSleep
  <2>4. CASE NetworkStep(c)
    BY <2>4 DEF NetworkStep, DoFails, HandleResponse
  <2>5. CASE RemoteStep(c)
    BY <2>5 DEF RemoteStep, ApiAnswers, OrphanLands, CallInv, Control
  <2>. QED  BY <2>1, <2>2, <2>3, <2>4, <2>5 DEF CallStep
<1>2. \A d \in Calls : d # c => SameAt(d)
  BY OthersKeepTheirState DEF IInv
<1>3. Recording' = Recording /\ \A d \in Recording : reply'[d].stamp = reply[d].stamp
  BY <1>1, <1>2 DEF Recording, SameAt
<1>. QED  BY <1>1, <1>3, SameRecording

(* A response without rate-limit headers does not erase what is known:     *)
(* LastRateLimit is zero only while each response that carried the headers *)
(* is in the hands of a call that has yet to record it.                    *)
THEOREM RateLimitStays == Spec => []RateLimitNotForgotten
<1>1. IInv /\ RecordingInv /\ [Next]_vars => RecordingInv'
  <2>. SUFFICES ASSUME IInv, RecordingInv, [Next]_vars PROVE RecordingInv'
    OBVIOUS
  <2>1. CASE UNCHANGED vars
    BY <2>1 DEF vars, RecordingInv, RateLimitNotForgotten, Recording
  <2>. QED
    BY <2>1, NextIsCallStep, ReceiveRecording, UpdateRecording, OtherRecording
<1>2. RecordingInv => RateLimitNotForgotten
  BY DEF RecordingInv
<1>. QED  BY <1>1, <1>2, RecordingInitially, Invariance, PTL DEF Spec
=============================================================================
