---------------------------- MODULE MCHttpClient ----------------------------
(***************************************************************************)
(* HttpClient for TLC.  Durations are in units of 500ms: Second is 2 and   *)
(* the cap on Retry-After 5, so that hints fall below, on and above it.    *)
(***************************************************************************)
EXTENDS HttpClientRefinement

AbsentHint == [form |-> "absent", n |-> 0]

(* No hint, one below the cap, one above it, one in the past, and one      *)
(* whose seconds would not fit in an int64.                                *)
RichHints == {AbsentHint,
              [form |-> "seconds", n |-> 1],
              [form |-> "seconds", n |-> 60],
              [form |-> "date", n |-> -3],
              [form |-> "above", n |-> 0]}

PlainHints == {AbsentHint}

(* Success, an empty success, a redirect, the two refusals that are safe   *)
(* to repeat, one that is not, and a failure.                              *)
RichStatuses == {200, 204, 304, 401, 404, 429, 503}
=============================================================================
