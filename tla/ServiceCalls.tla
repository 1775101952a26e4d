---------------------------- MODULE ServiceCalls ----------------------------
(***************************************************************************)
(* Users of one account calling the operations of a service on the same    *)
(* resource through the HTTP core, each user one call after the other.     *)
(* The core appears with what its retry loop leaves to the outside: GET,   *)
(* PUT and DELETE are sent again when the answer is lost or is a 5xx, a    *)
(* POST is not, and a request that was given up may arrive at any time     *)
(* later, after the call has ended and even if it ended well.  Retries     *)
(* after 401 and 429 are left out: the API has not executed anything.      *)
(***************************************************************************)
EXTENDS AccountServices, Naturals

CONSTANTS
  Services,
  Fields,       \* the fields of each service's resource
  Operations,   \* the operations of each service
  Initial,      \* the states a resource may have at first
  Values,       \* what a field may hold
  Users,
  Calls,        \* numbers: a user makes them one after the other
  Plans,        \* who makes which of the calls, for each service
  MaxTries      \* the attempts of a repeatable request

Nobody == "nobody"   \* makes the calls that are left out

ASSUME ServiceAssumption ==
  /\ Inputs \cup {None, Ready, InProcess} \subseteq Values
  /\ Calls \subseteq Nat
  /\ MaxTries \in Nat \ {0}
  /\ \A s \in Services :
       /\ Initial[s] \subseteq [Fields[s] -> Values]
       /\ Plans[s] \subseteq [Calls -> Users \cup {Nobody}]
       /\ \A o \in Operations[s] :
            /\ o.needs \in {"absent", "present", "settled"} => o.key \in Fields[s]
            /\ DOMAIN o.form \subseteq Fields[s]
            /\ \A f \in DOMAIN o.form : o.form[f] \in Values \cup {Generated}

VARIABLES
  service,    \* the service this behaviour is about
  user,       \* who makes each call
  resource,   \* what Robot has
  pc,         \* "idle", "sent", "answered", "done"
  op,         \* the operation of each call
  tries,      \* the requests sent
  reply,      \* what the API said last
  result,     \* what the caller was told
  answer,     \* the generated value the caller was told, if any
  late,       \* requests given up by the client and still on their way
  effects,    \* history: how often the operation has been carried out
  seen        \* history: whether its requirement held, during the call

vars == <<service, user, resource, pc, op, tries, reply, result, answer, late, effects, seen>>

NoOp == Rejected("none", "none")

NoReply == [kind |-> "none", value |-> None]

Results == {"pending", "ok", "conflict", "refused", "rejected", "failed"}

-----------------------------------------------------------------------------
(* What the API requires, and what it does.                                *)
Needs(o, r) ==
  CASE o.needs = "absent"  -> r[o.key] = None
    [] o.needs = "present" -> r[o.key] # None
    [] o.needs = "settled" -> r[o.key] # InProcess
    [] OTHER               -> TRUE

Generates(o) == \E f \in DOMAIN o.form : o.form[f] = Generated

After(o, r, value) ==
  [f \in DOMAIN r |->
     IF f \notin DOMAIN o.form THEN r[f]
     ELSE IF o.form[f] = Generated THEN value ELSE o.form[f]]

(* The calls in progress notice every state of the resource.               *)
Observe(r) ==
  seen' = [c \in Calls |-> IF pc[c] \in {"sent", "answered"}
                           THEN seen[c] \cup {Needs(op[c], r)} ELSE seen[c]]

Init ==
  /\ service \in Services
  /\ user \in Plans[service]
  /\ resource \in Initial[service]
  /\ pc = [c \in Calls |-> "idle"]
  /\ op = [c \in Calls |-> NoOp]
  /\ tries = [c \in Calls |-> 0]
  /\ reply = [c \in Calls |-> NoReply]
  /\ result = [c \in Calls |-> "pending"]
  /\ answer = [c \in Calls |-> None]
  /\ late = [c \in Calls |-> 0]
  /\ effects = [c \in Calls |-> 0]
  /\ seen = [c \in Calls |-> {}]

Previous(c) == {d \in Calls : user[d] = user[c] /\ d < c}

Tell(c, r) == /\ pc' = [pc EXCEPT ![c] = "done"]
              /\ result' = [result EXCEPT ![c] = r]
              /\ reply' = [reply EXCEPT ![c] = NoReply]

Begin(c, o) ==
  /\ pc[c] = "idle" /\ user[c] # Nobody
  /\ \A d \in Previous(c) : pc[d] = "done"
  /\ op' = [op EXCEPT ![c] = o]
  /\ IF o.verb = "none"
     THEN /\ Tell(c, "rejected")
          /\ UNCHANGED <<tries, seen>>
     ELSE /\ pc' = [pc EXCEPT ![c] = "sent"]
          /\ tries' = [tries EXCEPT ![c] = 1]
          /\ seen' = [seen EXCEPT ![c] = {Needs(o, resource)}]
          /\ UNCHANGED <<result, reply>>
  /\ UNCHANGED <<service, user, resource, answer, late, effects>>

-----------------------------------------------------------------------------
(* The operation is carried out, by a request in time or a late one.       *)
CarryOut(c, value) ==
  /\ Needs(op[c], resource)
  /\ resource' = After(op[c], resource, value)
  /\ effects' = [effects EXCEPT ![c] = @ + 1]
  /\ Observe(resource')

Say(c, kind, value) ==
  /\ pc' = [pc EXCEPT ![c] = "answered"]
  /\ reply' = [reply EXCEPT ![c] = [kind |-> kind,
                                    value |-> IF Generates(op[c]) THEN value ELSE None]]

ApiExecutes(c, value) ==
  /\ pc[c] = "sent"
  /\ CarryOut(c, value)
  /\ Say(c, "ok", value)
  /\ UNCHANGED <<service, user, op, tries, result, answer, late>>

(* Robot turns a request down for the state of the resource, or for        *)
(* another reason.  WaitForVSwitchReady polls on while the vSwitch is in   *)
(* process.                                                                *)
ApiDeclines(c) ==
  /\ pc[c] = "sent"
  /\ \/ /\ ~Needs(op[c], resource)
        /\ op[c].name # "WaitForVSwitchReady"
        /\ Say(c, "conflict", None)
     \/ Say(c, "refused", None)
  /\ UNCHANGED <<service, user, resource, op, tries, result, answer, late, effects, seen>>

LateArrives(c, value) ==
  /\ late[c] > 0
  /\ late' = [late EXCEPT ![c] = @ - 1]
  /\ \/ CarryOut(c, value)
     \/ ~Needs(op[c], resource) /\ UNCHANGED <<resource, effects, seen>>
  /\ UNCHANGED <<service, user, pc, op, tries, reply, result, answer>>

(* Robot finishes what is in process.                                      *)
Settle ==
  /\ \E f \in DOMAIN resource :
       /\ resource[f] = InProcess
       /\ resource' = [resource EXCEPT ![f] = Ready]
  /\ Observe(resource')
  /\ UNCHANGED <<service, user, pc, op, tries, reply, result, answer, late, effects>>

-----------------------------------------------------------------------------
(* The request, or the answer to it, does not come through in time, or the *)
(* answer is a 5xx, which says nothing of the request.  It is sent again,  *)
(* or the call is given up.                                                *)
RepeatsAlways(o, n) == n < MaxTries

RepeatsUnlimited(o, n) == o.verb # "POST"

Repeats(o, n) == o.verb # "POST" /\ n < MaxTries

Lost(c) ==
  /\ pc[c] \in {"sent", "answered"}
  /\ IF Repeats(op[c], tries[c])
     THEN /\ pc' = [pc EXCEPT ![c] = "sent"]
          /\ tries' = [tries EXCEPT ![c] = @ + 1]
          /\ reply' = [reply EXCEPT ![c] = NoReply]
          /\ UNCHANGED result
     ELSE Tell(c, "failed") /\ UNCHANGED tries
  /\ \/ UNCHANGED late
     \/ pc[c] = "sent" /\ late' = [late EXCEPT ![c] = @ + 1]
  /\ UNCHANGED <<service, user, resource, op, answer, effects, seen>>

(* The answer is the result.  A success may come without a body, and then  *)
(* without the generated value.                                            *)
OutcomeLenient(o, kind, body) ==
  IF kind = "conflict" /\ o.verb = "DELETE" THEN "ok"
  ELSE IF kind = "ok" /\ ~body THEN EmptyAnswer(o.name) ELSE kind

Outcome(o, kind, body) == IF kind = "ok" /\ ~body THEN EmptyAnswer(o.name) ELSE kind

Receive(c, body) ==
  /\ pc[c] = "answered"
  /\ Tell(c, Outcome(op[c], reply[c].kind, body))
  /\ answer' = [answer EXCEPT ![c] = IF body THEN reply[c].value ELSE None]
  /\ UNCHANGED <<service, user, resource, op, tries, late, effects, seen>>

(* Everybody is done and nothing is on its way.                            *)
Finished ==
  /\ \A c \in Calls : (pc[c] = "done" /\ late[c] = 0) \/ user[c] = Nobody
  /\ \A f \in DOMAIN resource : resource[f] # InProcess
  /\ UNCHANGED vars

Next ==
  \/ \E c \in Calls :
       \/ \E o \in Operations[service] : Begin(c, o)
       \/ \E value \in Inputs : ApiExecutes(c, value)
       \/ ApiDeclines(c)
       \/ \E value \in Inputs : LateArrives(c, value)
       \/ Lost(c)
       \/ \E body \in BOOLEAN : Receive(c, body)
  \/ Settle
  \/ Finished

Spec == Init /\ [][Next]_vars

-----------------------------------------------------------------------------
TypeOK ==
  /\ service \in Services
  /\ user \in [Calls -> Users \cup {Nobody}]
  /\ resource \in [Fields[service] -> Values]
  /\ pc \in [Calls -> {"idle", "sent", "answered", "done"}]
  /\ op \in [Calls -> Operations[service] \cup {NoOp}]
  /\ tries \in [Calls -> 0..MaxTries]
  /\ reply \in [Calls -> [kind : {"none", "ok", "conflict", "refused"},
                          value : Inputs \cup {None}]]
  /\ result \in [Calls -> Results]
  /\ answer \in [Calls -> Inputs \cup {None}]
  /\ late \in [Calls -> Nat]
  /\ effects \in [Calls -> Nat]
  /\ seen \in [Calls -> SUBSET BOOLEAN]

(***************************************************************************)
(* A call whose outcome tells its caller what became of it: it was         *)
(* answered, and it was sent once, as every POST is.                       *)
(***************************************************************************)
Clear(c) ==
  /\ pc[c] = "done"
  /\ result[c] # "failed"
  /\ op[c].verb = "POST" \/ tries[c] <= 1

Told(c, f) == IF op[c].form[f] = Generated THEN answer[c] ELSE op[c].form[f]

(***************************************************************************)
(* What a caller has set is there, and a value that Robot generated (a     *)
(* password, a MAC, a name) is the one the caller was told: for a field    *)
(* that only this user names, all of whose calls on it were clear, however *)
(* other users' calls on other fields of the same resource overlap, fail   *)
(* or arrive late ("callers can update individual flags without having to  *)
(* read-modify-write", storagebox.go:99; "the password that is now in      *)
(* effect", storagebox.go:192).                                            *)
(***************************************************************************)
Naming(f) == {c \in Calls : pc[c] # "idle" /\ f \in op[c].names}

SuccessIsKnown ==
  \A f \in Fields[service] : \A c \in Naming(f) :
    /\ result[c] = "ok"
    /\ \A d \in Naming(f) : user[d] = user[c] /\ Clear(d)
    /\ \A d \in Naming(f) : d > c => result[d] # "ok"
    /\ Told(c, f) # None \/ op[c].form[f] # Generated
    => resource[f] = Told(c, f)

(***************************************************************************)
(* An answer is about a moment of the call, whichever attempt it belongs   *)
(* to: what was done was possible, and a conflict (the entry exists, or    *)
(* does not, or is in process) was one, at some moment after the call      *)
(* began.  So whoever gets a conflict from a creation or a deletion knows  *)
(* that the goal was reached, though not by whom.                          *)
(***************************************************************************)
AnswerIsOfTheCall ==
  \A c \in Calls :
    /\ result[c] = "ok" => TRUE \in seen[c]
    /\ result[c] = "conflict" => FALSE \in seen[c]

(***************************************************************************)
(* A user who is alone, all of whose calls were clear, and who has waited  *)
(* for the vSwitch ("the API returns VSWITCH_IN_PROCESS errors if          *)
(* operations are attempted while the vSwitch is processing",              *)
(* vswitch.go:185) is not turned down for what is in process.              *)
(***************************************************************************)
JustWaited(c) ==
  /\ op[c].needs = "settled"
  /\ \E d \in Previous(c) : /\ d = c - 1
                            /\ op[d].name = "WaitForVSwitchReady"
                            /\ result[d] = "ok"

ReadyMeansAccepted ==
  \A c \in Calls :
    /\ JustWaited(c)
    /\ \A d \in Calls : pc[d] # "idle" => user[d] = user[c] /\ Clear(d)
    => result[c] # "conflict"

(***************************************************************************)
(* "Create creates a new reverse DNS entry for an IP address. Returns an   *)
(* error if an entry already exists." (rdns.go:63): the error means that   *)
(* there was an entry already, and not that this call has just made it.    *)
(***************************************************************************)
CreateConflictIsReal ==
  \A c \in Calls :
    op[c].name = "Create" /\ result[c] = "conflict" => effects[c] = 0

(***************************************************************************)
(* Every call of a service is one remote call with its promises.           *)
(***************************************************************************)
Abstract == INSTANCE RemoteCall WITH
  phase <- [c \in Calls |->
              IF pc[c] = "idle" THEN "idle"
              ELSE IF pc[c] # "done" THEN "busy"
              ELSE IF result[c] \in {"ok", "failed"} THEN result[c] ELSE "refused"],
  once <- [c \in Calls |-> op[c].verb = "POST"]

ImplementsRemoteCall == Abstract!Spec
=============================================================================
