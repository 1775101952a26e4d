------------------------ MODULE HttpClientRefinement ------------------------
(***************************************************************************)
(* HttpClient implements RemoteCall.  The phase of a call is read off the  *)
(* point its goroutine has reached and the kind of its result; only POST   *)
(* may not be repeated.                                                    *)
(***************************************************************************)
EXTENDS HttpClient

PhaseOf(c) == CASE pc[c] = "idle"                      -> "idle"
                [] pc[c] \notin {"idle", "done"}       -> "busy"
                [] pc[c] = "done" /\ Succeeded(c)      -> "ok"
                [] pc[c] = "done" /\ Refused(c)        -> "refused"
                [] OTHER                               -> "failed"

Promise == INSTANCE RemoteCall WITH
  phase   <- [c \in Calls |-> PhaseOf(c)],
  once    <- [c \in Calls |-> method[c] = "POST"],
  effects <- execs

(* Whatever the retry loop, the API and the network do, the caller sees no *)
(* more than RemoteCall allows: "ok" only after the operation was carried  *)
(* out, no second effect of a POST at any time, none at all of a refused   *)
(* one.                                                                    *)
ImplementsRemoteCall == Promise!Spec
=============================================================================
