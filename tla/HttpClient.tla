----------------------------- MODULE HttpClient -----------------------------
(***************************************************************************)
(* The HTTP core of the Robot client (client.go): concurrent calls of the  *)
(* verbs Get, Post, Put, Delete on one Client, each running the retry loop *)
(* of doRequest and then handleResponse, against the Robot API and a       *)
(* network that may lose a request or an answer, or deliver a request late *)
(*                                                                         *)
(* Calls share one thing, the rate-limit state.  A call c is used once;    *)
(* pc[c] is where its goroutine stands:                                    *)
(*   idle     not called                                                   *)
(*   check    head of the retry loop, about to look at the context         *)
(*   do       request built, about to enter httpClient.Do                  *)
(*   await    in httpClient.Do, the request on its way                     *)
(*   record   Do returned a response, its rate limit not yet stored        *)
(*   decide   about to choose between a retry and returning the response   *)
(*   sleep    in sleepCtx before the next attempt                          *)
(*   handle   in handleResponse, reading the body                          *)
(*   done     over: returned, or unwound by a panic, as result[c] says     *)
(***************************************************************************)
EXTENDS ClientLimits, FiniteSets

CONSTANTS
  Calls,         \* the concurrent calls
  Methods,       \* the HTTP methods they use, "POST" among them
  Statuses,      \* the status codes the API answers with
  Hints,         \* the Retry-After headers it sends
  MaxRetries,    \* the constant of doRequest (3 in the code)
  Backoff,       \* 500ms in the duration's unit
  MaxWait        \* Client.maxRetryAfter

ASSUME HttpAssumption ==
  /\ "POST" \in Methods /\ "none" \notin Methods
  /\ Statuses \subseteq 100..599
  /\ Hints \subseteq Headers
  /\ MaxRetries \in Nat \ {0}
  /\ Backoff \in Nat \ {0}
  /\ MaxWait \in 1..MaxInt

VARIABLES
  setup,         \* what NewClient was given: see Setups
  pc,
  method,
  attempt,       \* the loop variable of doRequest
  lastErr,       \* lastErr # nil
  cancelled,     \* the caller's context is done
  wire,          \* the current round trip: "none", "request" or "reply"
  reply,         \* the answer on the wire, then the resp of doRequest
  delay,         \* the argument of sleepCtx
  open,          \* response bodies received and not closed
  result,        \* how the verb ended
  rateLimit,     \* Client.rateLimit: the stamp of the response it describes
  waited,        \* history: total time spent in sleepCtx
  execs,         \* history: times the API carried out the call's request
  orphans,       \* requests given up by the client that may still arrive
  unauthorized,  \* history: 401 answers to the call
  latest         \* history: number of responses with rate-limit headers so far

vars == <<setup, pc, method, attempt, lastErr, cancelled, wire, reply, delay, open,
          result, rateLimit, waited, execs, orphans, unauthorized, latest>>

-----------------------------------------------------------------------------
(* Valid credentials and base URL, with an http.Client that has a Timeout  *)
(* (30s by default) or with one from WithHTTPClient that has none; or      *)
(* arguments that make every call fail before a request is built.          *)
Setups == {"valid", "noTimeout", "badCredentials", "badBaseURL"}

HasTimeout == setup # "noTimeout"

Rejected == setup \in {"badCredentials", "badBaseURL"}

PCs == {"idle", "check", "do", "await", "record", "decide", "sleep", "handle", "done"}

(* An answer: its status, its Retry-After header, whether it has parseable *)
(* RateLimit-* headers, and its place in the order in which such answers   *)
(* were received (0 until then).                                           *)
Replies == [status : Statuses, hint : Hints, limits : BOOLEAN, stamp : Nat]

NoReply == [status |-> 0, hint |-> [form |-> "absent", n |-> 0],
            limits |-> FALSE, stamp |-> 0]

(* How a verb ends.  It returns no error (v decoded, or left alone when    *)
(* there is no body), or an Error of one of the kinds of errors.go; or it  *)
(* does not return: "panic" is the nil dereference in the decoder of an    *)
(* error, "nilResponse" the one that handleResponse would hit on a nil     *)
(* response.                                                               *)
Kinds == {"pending", "ok", "okEmpty", "api", "network", "parse", "validation", "panic",
          "nilResponse"}

Results == [kind : Kinds, status : Statuses \cup {0}]

Outcome(kind) == [kind |-> kind, status |-> 0]

IsSuccessBelow400(status) == status >= 200 /\ status < 400

IsSuccess(status) == status >= 200 /\ status < 300

(* The attempt after which the loop does not go round again.               *)
LastTooEarly(n) == n >= MaxRetries - 2

Last(n) == n >= MaxRetries - 1

(* shouldRetry. *)
ShouldRetryPost5xx(m, status, n) ==
  \/ status = 401 /\ n = 0
  \/ status = 429
  \/ status >= 500

ShouldRetryEvery401(m, status, n) ==
  \/ status = 401
  \/ status = 429
  \/ status >= 500 /\ m # "POST"

ShouldRetry(m, status, n) ==
  \/ status = 401 /\ n = 0
  \/ status = 429
  \/ status >= 500 /\ m # "POST"

(* The linear backoff of attempt n, and the wait before the next attempt.  *)
Linear(n) == (n + 1) * Backoff

WaitUncapped(h, n) ==
  IF h.form = "seconds" /\ h.n > 0 THEN h.n * Second ELSE Linear(n)

WaitUntilDate(h, n) == IF h.form = "date" THEN h.n ELSE Linear(n)

WaitBeforeRetry(h, n) ==
  IF RetryAfter(h, MaxWait) = 0 THEN Linear(n) ELSE RetryAfter(h, MaxWait)

-----------------------------------------------------------------------------
Init ==
  /\ setup \in Setups
  /\ pc = [c \in Calls |-> "idle"]
  /\ method = [c \in Calls |-> "none"]
  /\ attempt = [c \in Calls |-> 0]
  /\ lastErr = [c \in Calls |-> FALSE]
  /\ cancelled = [c \in Calls |-> FALSE]
  /\ wire = [c \in Calls |-> "none"]
  /\ reply = [c \in Calls |-> NoReply]
  /\ delay = [c \in Calls |-> 0]
  /\ open = [c \in Calls |-> 0]
  /\ result = [c \in Calls |-> Outcome("pending")]
  /\ rateLimit = 0
  /\ waited = [c \in Calls |-> 0]
  /\ execs = [c \in Calls |-> 0]
  /\ orphans = [c \in Calls |-> 0]
  /\ unauthorized = [c \in Calls |-> 0]
  /\ latest = 0

(* The state that only the API and the network change, and the rest.       *)
remote == <<wire, reply, execs, orphans, unauthorized, latest>>

Goto(c, label) == pc' = [pc EXCEPT ![c] = label]

Return(c, r) == Goto(c, "done") /\ result' = [result EXCEPT ![c] = r]

-----------------------------------------------------------------------------
(***************************************************************************)
(* The caller: starts a call, and may end its context at any time.         *)
(***************************************************************************)
Begin(c, m) ==
  /\ pc[c] = "idle"
  /\ method' = [method EXCEPT ![c] = m]
  /\ IF Rejected
     THEN Return(c, Outcome("validation"))
     ELSE Goto(c, "check") /\ UNCHANGED result
  /\ UNCHANGED <<setup, attempt, lastErr, cancelled, delay, open, rateLimit, waited, remote>>

Cancel(c) ==
  /\ pc[c] # "done"
  /\ ~cancelled[c]
  /\ cancelled' = [cancelled EXCEPT ![c] = TRUE]
  /\ UNCHANGED <<setup, pc, method, attempt, lastErr, delay, open, result, rateLimit,
                 waited, remote>>

(***************************************************************************)
(* The head of the loop: the exit after MaxRetries iterations returns      *)
(* (nil, lastErr), which the verb passes to handleResponse when lastErr is *)
(* nil; a context that is done returns; otherwise the request is built.    *)
(***************************************************************************)
LoopHead(c) ==
  /\ pc[c] = "check"
  /\ IF attempt[c] >= MaxRetries
     THEN Return(c, Outcome(IF lastErr[c] THEN "network" ELSE "nilResponse"))
     ELSE IF cancelled[c]
     THEN Return(c, Outcome("network"))
     ELSE Goto(c, "do") /\ UNCHANGED result
  /\ UNCHANGED <<setup, method, attempt, lastErr, cancelled, delay, open, rateLimit,
                 waited, remote>>

(* NewRequestWithContext rejects the URL: for one path always or never.    *)
BuildFails(c) ==
  /\ pc[c] = "do"
  /\ attempt[c] = 0
  /\ Return(c, Outcome("network"))
  /\ UNCHANGED <<setup, method, attempt, lastErr, cancelled, delay, open, rateLimit,
                 waited, remote>>

(* Do hands the request to the network; the transport looks at the context *)
(* first.                                                                  *)
Send(c) ==
  /\ pc[c] = "do"
  /\ ~cancelled[c]
  /\ Goto(c, "await")
  /\ wire' = [wire EXCEPT ![c] = "request"]
  /\ UNCHANGED <<setup, method, attempt, lastErr, cancelled, reply, delay, open, result,
                 rateLimit, waited, execs, orphans, unauthorized, latest>>

(***************************************************************************)
(* The API and the network.  A 2xx answer means the API carried the        *)
(* request out and a 5xx answer leaves it open; any other status means it  *)
(* did not, which is what doRequest relies on to repeat a POST after a 401 *)
(* or a 429.                                                               *)
(***************************************************************************)
Accepts(status) == status >= 200 /\ status < 300

ApiAnswers(c, carriedOut, r) ==
  /\ wire[c] = "request"
  /\ Accepts(r.status) => carriedOut
  /\ carriedOut => Accepts(r.status) \/ r.status >= 500
  /\ wire' = [wire EXCEPT ![c] = "reply"]
  /\ reply' = [reply EXCEPT ![c] = r]
  /\ execs' = [execs EXCEPT ![c] = @ + (IF carriedOut THEN 1 ELSE 0)]
  /\ UNCHANGED <<setup, pc, method, attempt, lastErr, cancelled, delay, open, result,
                 rateLimit, waited, orphans, unauthorized, latest>>

(* A request the client has given up on is carried out after all.          *)
OrphanLands(c) ==
  /\ orphans[c] > 0
  /\ orphans' = [orphans EXCEPT ![c] = @ - 1]
  /\ execs' = [execs EXCEPT ![c] = @ + 1]
  /\ UNCHANGED <<setup, pc, method, attempt, lastErr, cancelled, wire, reply, delay, open,
                 result, rateLimit, waited, unauthorized, latest>>

(***************************************************************************)
(* Do returns an error: the connection failed, the client's timeout or the *)
(* context ended the round trip, or the answer was lost.  The request may  *)
(* be on its way to the API all the same.                                  *)
(***************************************************************************)
RetriesTransportErrorAlways(m, n) == ~Last(n)

RetriesTransportError(m, n) == m # "POST" /\ ~Last(n)

DoFails(c) ==
  /\ pc[c] \in {"do", "await"}
  /\ lastErr' = [lastErr EXCEPT ![c] = TRUE]
  /\ IF RetriesTransportError(method[c], attempt[c])
     THEN /\ Goto(c, "sleep")
          /\ delay' = [delay EXCEPT ![c] = Linear(attempt[c])]
          /\ UNCHANGED result
     ELSE Return(c, Outcome("network")) /\ UNCHANGED delay
  /\ wire' = [wire EXCEPT ![c] = "none"]
  /\ reply' = [reply EXCEPT ![c] = NoReply]
  /\ \E survives \in BOOLEAN :
       /\ survives => wire[c] = "request"
       /\ orphans' = [orphans EXCEPT ![c] = @ + (IF survives THEN 1 ELSE 0)]
  /\ UNCHANGED <<setup, method, attempt, cancelled, open, rateLimit, waited, execs,
                 unauthorized, latest>>

(* Do returns the response.                                                *)
Receive(c) ==
  /\ wire[c] = "reply"
  /\ Goto(c, "record")
  /\ wire' = [wire EXCEPT ![c] = "none"]
  /\ open' = [open EXCEPT ![c] = @ + 1]
  /\ latest' = latest + (IF reply[c].limits THEN 1 ELSE 0)
  /\ reply' = [reply EXCEPT ![c].stamp = IF reply[c].limits THEN latest' ELSE 0]
  /\ unauthorized' = [unauthorized EXCEPT ![c] = @ + (IF reply[c].status = 401 THEN 1 ELSE 0)]
  /\ UNCHANGED <<setup, method, attempt, lastErr, cancelled, delay, result, rateLimit,
                 waited, execs, orphans>>

-----------------------------------------------------------------------------
(* updateRateLimit: one store under the mutex, or none.                    *)
UpdateRateLimitAlways(c) ==
  /\ pc[c] = "record"
  /\ Goto(c, "decide")
  /\ rateLimit' = reply[c].stamp
  /\ UNCHANGED <<setup, method, attempt, lastErr, cancelled, delay, open, result, waited, remote>>

UpdateRateLimit(c) ==
  /\ pc[c] = "record"
  /\ Goto(c, "decide")
  /\ rateLimit' = IF reply[c].limits THEN reply[c].stamp ELSE rateLimit
  /\ UNCHANGED <<setup, method, attempt, lastErr, cancelled, delay, open, result, waited, remote>>

(***************************************************************************)
(* A response is dropped for another attempt, its body closed, or returned *)
(* to the verb.                                                            *)
(***************************************************************************)
DecideLeavingBody(c) ==
  /\ pc[c] = "decide"
  /\ IF ShouldRetry(method[c], reply[c].status, attempt[c]) /\ ~Last(attempt[c])
     THEN /\ Goto(c, "sleep")
          /\ delay' = [delay EXCEPT ![c] = WaitBeforeRetry(reply[c].hint, attempt[c])]
     ELSE Goto(c, "handle") /\ UNCHANGED delay
  /\ UNCHANGED <<setup, method, attempt, lastErr, cancelled, open, result, rateLimit, waited, remote>>

Decide(c) ==
  /\ pc[c] = "decide"
  /\ IF ShouldRetry(method[c], reply[c].status, attempt[c]) /\ ~Last(attempt[c])
     THEN /\ Goto(c, "sleep")
          /\ delay' = [delay EXCEPT ![c] = WaitBeforeRetry(reply[c].hint, attempt[c])]
          /\ open' = [open EXCEPT ![c] = @ - 1]
     ELSE Goto(c, "handle") /\ UNCHANGED <<delay, open>>
  /\ UNCHANGED <<setup, method, attempt, lastErr, cancelled, result, rateLimit, waited, remote>>

(* sleepCtx: the timer fires, or the context is done first.                *)
WakeUp(c) ==
  /\ pc[c] = "sleep"
  /\ Goto(c, "check")
  /\ attempt' = [attempt EXCEPT ![c] = @ + 1]
  /\ waited' = [waited EXCEPT ![c] = @ + delay[c]]
  /\ delay' = [delay EXCEPT ![c] = 0]
  /\ reply' = [reply EXCEPT ![c] = NoReply]
  /\ UNCHANGED <<setup, method, lastErr, cancelled, wire, open, result, rateLimit, execs,
                 orphans, unauthorized, latest>>

CancelSleep(c) ==
  /\ pc[c] = "sleep"
  /\ cancelled[c]
  /\ Return(c, Outcome("network"))
  /\ UNCHANGED <<setup, method, attempt, lastErr, cancelled, delay, open, rateLimit,
                 waited, remote>>

(***************************************************************************)
(* handleResponse: a body over the limit is refused before the status is   *)
(* looked at, a status that is not 2xx becomes an API error, and a body    *)
(* that is absent leaves the caller's value alone.  nullError is a body    *)
(* {"error": null}: of an answer that is not 2xx it makes                  *)
(* APIErrorDetail.UnmarshalJSON dereference nil (errors.go:196), which     *)
(* nothing recovers; the deferred Close of the body runs.  To a success it *)
(* is JSON like any other.                                                 *)
(***************************************************************************)
Bodies == {"unreadable", "tooLarge", "empty", "good", "bad", "nullError"}

ErrorOf(status, body) ==
  IF body = "nullError" THEN Outcome("panic") ELSE [kind |-> "api", status |-> status]

ResultOf(status, body) ==
  IF body = "unreadable" THEN Outcome("network")
  ELSE IF body = "tooLarge" THEN Outcome("parse")
  ELSE IF ~IsSuccess(status) THEN ErrorOf(status, body)
  ELSE IF status = 204 \/ body = "empty" THEN Outcome("okEmpty")
  ELSE Outcome(IF body = "bad" THEN "parse" ELSE "ok")

HandleResponse(c, body) ==
  /\ pc[c] = "handle"
  /\ Return(c, ResultOf(reply[c].status, body))
  /\ open' = [open EXCEPT ![c] = @ - 1]
  /\ UNCHANGED <<setup, method, attempt, lastErr, cancelled, delay, rateLimit, waited, remote>>

-----------------------------------------------------------------------------
(* Steps the goroutine takes by itself, and those that wait for the        *)
(* network.                                                                *)
LocalStep(c) ==
  \/ LoopHead(c)
  \/ Send(c)
  \/ BuildFails(c)
  \/ pc[c] = "do" /\ DoFails(c)
  \/ UpdateRateLimit(c)
  \/ Decide(c)
  \/ WakeUp(c)
  \/ CancelSleep(c)

NetworkStep(c) ==
  \/ pc[c] = "await" /\ DoFails(c)
  \/ Receive(c)
  \/ \E body \in Bodies : HandleResponse(c, body)

RemoteStep(c) ==
  \/ \E carriedOut \in BOOLEAN, s \in Statuses, h \in Hints, l \in BOOLEAN :
       ApiAnswers(c, carriedOut, [status |-> s, hint |-> h, limits |-> l, stamp |-> 0])
  \/ OrphanLands(c)

(* Every call is over and nothing is left on the network.                  *)
Finished ==
  /\ \A c \in Calls : pc[c] = "done" /\ orphans[c] = 0
  /\ UNCHANGED vars

Next ==
  \/ \E c \in Calls :
       \/ \E m \in Methods : Begin(c, m)
       \/ Cancel(c)
       \/ LocalStep(c)
       \/ NetworkStep(c)
       \/ RemoteStep(c)
  \/ Finished


Bounded(c) == HasTimeout \/ cancelled[c]

Fairness ==
  \A c \in Calls : /\ WF_vars(LocalStep(c))
                   /\ WF_vars(Bounded(c) /\ NetworkStep(c))

Spec == Init /\ [][Next]_vars

FairSpec == Spec /\ Fairness

-----------------------------------------------------------------------------
TypeOK ==
  /\ setup \in Setups
  /\ pc \in [Calls -> PCs]
  /\ method \in [Calls -> Methods \cup {"none"}]
  /\ attempt \in [Calls -> Nat]
  /\ lastErr \in [Calls -> BOOLEAN]
  /\ cancelled \in [Calls -> BOOLEAN]
  /\ wire \in [Calls -> {"none", "request", "reply"}]
  /\ reply \in [Calls -> Replies \cup {NoReply}]
  /\ delay \in [Calls -> Nat]
  /\ open \in [Calls -> Int]
  /\ result \in [Calls -> Results]
  /\ rateLimit \in Nat
  /\ waited \in [Calls -> Nat]
  /\ execs \in [Calls -> Nat]
  /\ orphans \in [Calls -> Nat]
  /\ unauthorized \in [Calls -> Nat]
  /\ latest \in Nat

Succeeded(c) == result[c].kind \in {"ok", "okEmpty"}

(* The API, or the client itself, said no, and not because it failed.      *)
Refused(c) == \/ result[c].kind = "validation"
              \/ result[c].kind = "api" /\ result[c].status < 500

(* How often the call's request has been, or may yet be, carried out.      *)
Effects(c) == execs[c] + orphans[c] + (IF wire[c] = "request" THEN 1 ELSE 0)

(***************************************************************************)
(* doRequest promises that a POST is "never retried on 5xx responses or    *)
(* transport errors": whatever the network does with requests and answers, *)
(* and however 401 and 429 retries mix with failures, one call of Post or  *)
(* PostRaw is carried out at most once, late arrivals included.            *)
(***************************************************************************)
PostAtMostOnce == \A c \in Calls : method[c] = "POST" => Effects(c) <= 1

(***************************************************************************)
(* The caller can rely on how a call ends.  A nil error means that the     *)
(* API carried the request out: no refusal, redirect, lost answer or cut   *)
(* body passes for success.  A POST reported as refused, by the API with a *)
(* status below 500 or by the client before sending, has had no effect and *)
(* never will have one: no earlier attempt of the same call is still under *)
(* way.  And the `return nil, lastErr` after the loop never hands a nil    *)
(* response with a nil error to handleResponse, which would dereference it.*)
(***************************************************************************)
ResultIsTrue ==
  \A c \in Calls :
    /\ Succeeded(c) => execs[c] >= 1
    /\ method[c] = "POST" /\ Refused(c) => Effects(c) = 0
    /\ result[c].kind # "nilResponse"

(***************************************************************************)
(* Every response body is closed exactly once, by the retry loop or by     *)
(* handleResponse: never two open for a call, none when it has returned.   *)
(***************************************************************************)
BodiesClosed == \A c \in Calls :
  /\ open[c] <= 1
  /\ pc[c] \in {"idle", "check", "do", "await", "sleep", "done"} => open[c] = 0

(***************************************************************************)
(* The total time a call spends asleep is bounded by the configuration,    *)
(* whatever Retry-After headers the endpoint sends (retryAfter's reason to *)
(* clamp).                                                                 *)
(***************************************************************************)
LongestWait == IF MaxWait >= Linear(MaxRetries - 2) THEN MaxWait ELSE Linear(MaxRetries - 2)

WaitBounded ==
  \A c \in Calls : waited[c] + delay[c] <= (MaxRetries - 1) * LongestWait

(***************************************************************************)
(* Bad credentials cost at most two requests: shouldRetry repeats a 401    *)
(* once, and only as the first answer, so 429 or 5xx answers in between do *)
(* not grant a second repetition.                                          *)
(***************************************************************************)
UnauthorizedAtMostTwice == \A c \in Calls : unauthorized[c] <= 2

(***************************************************************************)
(* A call whose context stays open reports a transient status (429 for     *)
(* every method, 5xx for the idempotent ones) only after all attempts.     *)
(***************************************************************************)
TransientErrorsExhaustRetries ==
  \A c \in Calls :
    /\ result[c].kind = "api"
    /\ result[c].status = 429 \/ (result[c].status >= 500 /\ method[c] # "POST")
    => attempt[c] = MaxRetries - 1

(***************************************************************************)
(* A response without rate-limit headers does not erase what is known:     *)
(* LastRateLimit is zero only if no response with such headers has been    *)
(* recorded, with any number of calls in flight.                           *)
(***************************************************************************)
RateLimitNotForgotten ==
  rateLimit = 0 => latest <= Cardinality({c \in Calls : pc[c] = "record" /\ reply[c].limits})

(***************************************************************************)
(* LastRateLimit "returns the rate-limit state observed on the most recent *)
(* response" (client.go:294): once no call is between receiving and        *)
(* recording a response, the latest one that carried the headers is the    *)
(* one stored.                                                             *)
(***************************************************************************)
RateLimitIsLatest ==
  (\A c \in Calls : pc[c] # "record") => rateLimit = latest

(***************************************************************************)
(* No call hangs, whatever the API does, if the http.Client has a Timeout, *)
(* and with any http.Client once its context is done: it returns from the  *)
(* loop, the round trip, the sleep or the body, or it panics on an error   *)
(* response whose error is null, and in no other way.  The retries, the    *)
(* waits and the rounds are all finite.                                    *)
(***************************************************************************)
Returned(c) == pc[c] = "done" /\ result[c].kind \notin {"pending", "panic", "nilResponse"}

Panicked(c) ==
  pc[c] = "done" /\ result[c].kind = "panic" /\ ~IsSuccess(reply[c].status)

=============================================================================
