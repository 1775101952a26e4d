---------------------------- MODULE ClientLimits ----------------------------
(***************************************************************************)
(* The limits that the HTTP core of the Robot client applies to data it    *)
(* gets from the network: the wait a Retry-After header may ask for        *)
(* (client.go, retryAfter) and the size of a response body (client.go,     *)
(* readBodyLimited), with the options that configure both.                 *)
(*                                                                         *)
(* Durations and sizes are int64 in the code.  MaxInt is the largest value *)
(* of that type, so the arithmetic that could overflow is written with     *)
(* Wrap; Second is time.Second in the duration's unit.                     *)
(***************************************************************************)
EXTENDS Integers

CONSTANTS MaxInt, Second

ASSUME LimitsAssumption == /\ MaxInt \in Nat \ {0}
                           /\ Second \in Nat \ {0}

-----------------------------------------------------------------------------
(* Two's complement: what an int64 operation leaves of the exact result.   *)
Wrap(x) == ((x + MaxInt + 1) % (2 * (MaxInt + 1))) - (MaxInt + 1)

Smaller(a, b) == IF a <= b THEN a ELSE b

(***************************************************************************)
(* WithMaxRetryAfter and WithMaxResponseBytes: a value that is not         *)
(* positive leaves the setting as it was.  (Here and below, a definition   *)
(* named like another one with a suffix, written just before it, is that   *)
(* definition with a slip a programmer could have made; the runs find each *)
(* of them out.)                                                           *)
(***************************************************************************)
WithMaxRetryAfter(current, d) == IF d > 0 THEN d ELSE current

WithMaxResponseBytes(current, n) == IF n > 0 THEN n ELSE current

-----------------------------------------------------------------------------
(***************************************************************************)
(* A Retry-After header, by what the two parsers make of it:               *)
(*   absent    no header, or an empty one                                  *)
(*   seconds   strconv.Atoi succeeds with n, which may be negative         *)
(*   above     Atoi reports ErrRange for a positive number                 *)
(*   below     Atoi reports ErrRange for a negative number                 *)
(*   date      an HTTP date, n from now (negative: in the past)            *)
(*   junk      neither parser accepts it                                   *)
(***************************************************************************)
HeaderForms == {"absent", "seconds", "above", "below", "date", "junk"}

Headers == [form : HeaderForms, n : Int]

(* The duration the header asks for, before the final clamp.               *)
Requested(h) ==
  IF h.form = "seconds" /\ h.n >= 0 THEN Wrap(h.n * Second)
  ELSE IF h.form = "date" THEN h.n ELSE 0

(* The two early returns of the cap, taken before anything is multiplied.  *)
CappedOnlyByAtoi(h, limit) == h.form = "above"

Capped(h, limit) ==
  \/ h.form = "seconds" /\ h.n >= 0 /\ h.n > limit \div Second
  \/ h.form = "above"

RetryAfter(h, limit) ==
  IF Capped(h, limit) THEN limit
  ELSE IF Requested(h) <= 0 THEN 0
  ELSE Smaller(Requested(h), limit)

-----------------------------------------------------------------------------
(***************************************************************************)
(* readBodyLimited over a body of len bytes: the reader is asked for one   *)
(* byte more than the limit, and a negative budget reads nothing.          *)
(***************************************************************************)
ProbeUnchecked(limit) == Wrap(limit + 1)

Probe(limit) == IF Wrap(limit + 1) < 0 THEN MaxInt ELSE Wrap(limit + 1)

BytesRead(len, limit) == IF Probe(limit) <= 0 THEN 0 ELSE Smaller(len, Probe(limit))

TooLarge(len, limit) == BytesRead(len, limit) > limit
=============================================================================
