----------------------------- MODULE RemoteCall -----------------------------
(***************************************************************************)
(* What a verb of the client promises its caller, with no attempt, retry,  *)
(* header or body: an operation of the API is asked for, is carried out    *)
(* some number of times, and the caller learns "ok", "refused" or          *)
(* "failed".                                                               *)
(*                                                                         *)
(*   ok       it was carried out                                           *)
(*   refused  the request was turned down; if it may not be repeated       *)
(*            (once), it was not carried out and never will be             *)
(*   failed   unknown: it may have been carried out, may be still, or not  *)
(*                                                                         *)
(* An operation that may not be repeated is carried out at most once, even *)
(* if the request arrives after the caller has been told that it failed.   *)
(***************************************************************************)
EXTENDS Naturals

CONSTANT Calls

VARIABLES
  phase,    \* "idle", "busy", or what the caller was told
  once,     \* the operation may not be repeated
  effects   \* how often it has been carried out

vars == <<phase, once, effects>>

Init == /\ phase = [c \in Calls |-> "idle"]
        /\ once = [c \in Calls |-> FALSE]
        /\ effects = [c \in Calls |-> 0]

Ask(c) ==
  /\ phase[c] = "idle"
  /\ \E o \in BOOLEAN : once' = [once EXCEPT ![c] = o]
  /\ phase' = [phase EXCEPT ![c] = "busy"]
  /\ UNCHANGED effects

(* The client turns the request down without asking the API.               *)
Reject(c) ==
  /\ phase[c] = "idle"
  /\ \E o \in BOOLEAN : once' = [once EXCEPT ![c] = o]
  /\ phase' = [phase EXCEPT ![c] = "refused"]
  /\ UNCHANGED effects

CarryOut(c) ==
  /\ phase[c] # "idle"
  /\ once[c] => effects[c] = 0 /\ phase[c] \in {"busy", "failed"}
  /\ effects' = [effects EXCEPT ![c] = @ + 1]
  /\ UNCHANGED <<phase, once>>

Tell(c, outcome) ==
  /\ phase[c] = "busy"
  /\ outcome = "ok" => effects[c] > 0
  /\ outcome = "refused" /\ once[c] => effects[c] = 0
  /\ phase' = [phase EXCEPT ![c] = outcome]
  /\ UNCHANGED <<once, effects>>

Next == \E c \in Calls :
  \/ Ask(c)
  \/ Reject(c)
  \/ CarryOut(c)
  \/ \E outcome \in {"ok", "refused", "failed"} : Tell(c, outcome)

Spec == Init /\ [][Next]_vars
=============================================================================
