------------------------- MODULE ServiceCallsProofs -------------------------
(***************************************************************************)
(* ServiceCalls, for any services, operations, users and plans, and any    *)
(* number of attempts.                                                     *)
(***************************************************************************)
EXTENDS ServiceCalls, TLAPS

(* A step of a call.                                                       *)
CallStep(c) ==
  \/ \E o \in Operations[service] : Begin(c, o)
  \/ \E value \in Inputs : ApiExecutes(c, value)
  \/ ApiDeclines(c)
  \/ \E value \in Inputs : LateArrives(c, value)
  \/ Lost(c)
  \/ \E body \in BOOLEAN : Receive(c, body)

LEMMA NextIsCallStep ==
  [Next]_vars <=> (\E c \in Calls : CallStep(c)) \/ Settle \/ UNCHANGED vars
BY DEF Next, CallStep, Finished

(***************************************************************************)
(* The inductive invariant.  Neither TypeOK nor the properties are         *)
(* inductive: that there is a result to tell rests on the answer of a call *)
(* that has one (Control); that it is true rests on what has been seen of  *)
(* the resource, and done to it, since the call began (Witnessed, Carried);*)
(* and that a POST is carried out once rests on nothing of it being on its *)
(* way while its caller waits (Once).                                      *)
(***************************************************************************)
Busy(c) == pc[c] \in {"sent", "answered"}

Control(c) ==
  /\ pc[c] # "done" => result[c] = "pending"
  /\ pc[c] = "idle" => effects[c] = 0 /\ late[c] = 0
  /\ pc[c] = "answered" <=> reply[c].kind # "none"

Witnessed(c) ==
  /\ Busy(c) => Needs(op[c], resource) \in seen[c]
  /\ "ok" \in {reply[c].kind, result[c]} => TRUE \in seen[c]
  /\ "conflict" \in {reply[c].kind, result[c]} => FALSE \in seen[c]

Carried(c) == "ok" \in {reply[c].kind, result[c]} => effects[c] > 0

Once(c) ==
  op[c].verb = "POST" =>
    /\ pc[c] = "sent" => effects[c] = 0 /\ late[c] = 0
    /\ pc[c] = "answered" =>
         /\ late[c] = 0 /\ effects[c] <= 1
         /\ reply[c].kind # "ok" => effects[c] = 0
    /\ pc[c] = "done" => effects[c] + late[c] <= 1
    /\ pc[c] = "done" /\ result[c] \notin {"ok", "failed"} => effects[c] + late[c] = 0

CallInv(c) == Control(c) /\ Witnessed(c) /\ Carried(c) /\ Once(c)

IInv == TypeOK /\ \A c \in Calls : CallInv(c)

-----------------------------------------------------------------------------
(* The states of a resource stay states of a resource.                     *)
LEMMA AfterIsState ==
  ASSUME TypeOK, NEW c \in Calls, NEW value \in Inputs
  PROVE  After(op[c], resource, value) \in [Fields[service] -> Values]
<1>1. resource \in [Fields[service] -> Values]
  BY DEF TypeOK
<1>2. ASSUME NEW f \in Fields[service], f \in DOMAIN op[c].form
      PROVE  op[c].form[f] \in Values \cup {Generated}
  <2>1. CASE op[c] \in Operations[service]
    BY <1>2, <2>1, ServiceAssumption DEF TypeOK
  <2>2. CASE op[c] = NoOp
    BY <1>2, <2>2 DEF NoOp, Rejected, Op
  <2>. QED  BY <2>1, <2>2 DEF TypeOK
<1>3. value \in Values
  BY ServiceAssumption
<1>. QED  BY <1>1, <1>2, <1>3 DEF After

LEMMA NeedsIsBoolean == \A o, r : Needs(o, r) \in BOOLEAN
BY DEF Needs

LEMMA OutcomeIsResult ==
  ASSUME NEW o, NEW kind \in {"ok", "conflict", "refused"}, NEW body \in BOOLEAN
  PROVE  /\ Outcome(o, kind, body) \in Results
         /\ Outcome(o, kind, body) # "pending"
         /\ Outcome(o, kind, body) = "ok" => kind = "ok"
         /\ Outcome(o, kind, body) # "failed" => Outcome(o, kind, body) = kind
BY DEF Outcome, EmptyAnswer, Results

LEMMA TellTyped ==
  ASSUME TypeOK, NEW c \in Calls, NEW r \in Results, Tell(c, r)
  PROVE  /\ pc' \in [Calls -> {"idle", "sent", "answered", "done"}]
         /\ result' \in [Calls -> Results]
         /\ reply' \in [Calls -> [kind : {"none", "ok", "conflict", "refused"},
                                  value : Inputs \cup {None}]]
BY DEF TypeOK, Tell, NoReply

LEMMA InvInitially == Init => IInv
<1>. SUFFICES ASSUME Init PROVE IInv
  OBVIOUS
<1>1. TypeOK
  <2>1. resource \in [Fields[service] -> Values] /\ user \in [Calls -> Users \cup {Nobody}]
    BY ServiceAssumption DEF Init
  <2>. QED  BY <2>1, ServiceAssumption DEF Init, TypeOK, NoReply, Results
<1>2. ASSUME NEW c \in Calls PROVE CallInv(c)
  BY DEF Init, CallInv, Control, Witnessed, Carried, Once, Busy, NoReply, NoOp, Rejected, Op
<1>. QED  BY <1>1, <1>2 DEF IInv

LEMMA ObserveTyped ==
  ASSUME TypeOK, NEW r, Observe(r)
  PROVE  seen' \in [Calls -> SUBSET BOOLEAN]
BY NeedsIsBoolean DEF TypeOK, Observe

LEMMA CarryOutTyped ==
  ASSUME TypeOK, NEW c \in Calls, NEW value \in Inputs, CarryOut(c, value)
  PROVE  /\ resource' \in [Fields[service] -> Values]
         /\ effects' \in [Calls -> Nat]
         /\ seen' \in [Calls -> SUBSET BOOLEAN]
BY AfterIsState, ObserveTyped DEF TypeOK, CarryOut

LEMMA SayTyped ==
  ASSUME TypeOK, NEW c \in Calls, NEW kind \in {"ok", "conflict", "refused"},
         NEW value \in Inputs \cup {None}, Say(c, kind, value)
  PROVE  /\ pc' \in [Calls -> {"idle", "sent", "answered", "done"}]
         /\ reply' \in [Calls -> [kind : {"none", "ok", "conflict", "refused"},
                                  value : Inputs \cup {None}]]
<1>1. (IF Generates(op[c]) THEN value ELSE None) \in Inputs \cup {None}
  OBVIOUS
<1>. QED  BY <1>1 DEF TypeOK, Say

LEMMA TypePreserved == IInv /\ [Next]_vars => TypeOK'
<1>. SUFFICES ASSUME IInv, [Next]_vars PROVE TypeOK'
  OBVIOUS
<1>. USE DEF TypeOK, IInv
<1>1. CASE UNCHANGED vars
  BY <1>1 DEF vars
<1>2. ASSUME NEW c \in Calls, NEW o \in Operations[service], Begin(c, o) PROVE TypeOK'
  <2>1. "rejected" \in Results
    BY DEF Results
  <2>2. op' \in [Calls -> Operations[service] \cup {NoOp}]
    BY <1>2 DEF Begin
  <2>3. CASE o.verb = "none"
    BY <1>2, <2>1, <2>2, <2>3, TellTyped DEF Begin
  <2>4. CASE o.verb # "none"
    <3>1. 1 \in 0..MaxTries
      BY ServiceAssumption
    <3>2. seen' \in [Calls -> SUBSET BOOLEAN]
      BY <1>2, <2>4, NeedsIsBoolean DEF Begin
    <3>. QED  BY <1>2, <2>2, <2>4, <3>1, <3>2 DEF Begin
  <2>. QED  BY <2>3, <2>4
<1>3. ASSUME NEW c \in Calls, NEW value \in Inputs, ApiExecutes(c, value) PROVE TypeOK'
  BY <1>3, CarryOutTyped, SayTyped DEF ApiExecutes
<1>4. ASSUME NEW c \in Calls, ApiDeclines(c) PROVE TypeOK'
  BY <1>4, SayTyped DEF ApiDeclines
<1>5. ASSUME NEW c \in Calls, NEW value \in Inputs, LateArrives(c, value) PROVE TypeOK'
  BY <1>5, CarryOutTyped DEF LateArrives
<1>6. ASSUME NEW c \in Calls, Lost(c) PROVE TypeOK'
  <2>1. late' \in [Calls -> Nat]
    BY <1>6 DEF Lost
  <2>2. "failed" \in Results
    BY DEF Results
  <2>3. CASE Repeats(op[c], tries[c])
    <3>1. tries[c] + 1 \in 0..MaxTries
      BY <2>3, ServiceAssumption DEF Repeats
    <3>2. NoReply \in [kind : {"none", "ok", "conflict", "refused"}, value : Inputs \cup {None}]
      BY DEF NoReply
    <3>3. reply' \in [Calls -> [kind : {"none", "ok", "conflict", "refused"},
                                value : Inputs \cup {None}]]
      BY <1>6, <2>3, <3>2 DEF Lost
    <3>4. tries' \in [Calls -> 0..MaxTries]
      BY <1>6, <2>3, <3>1 DEF Lost
    <3>. QED  BY <1>6, <2>1, <2>3, <3>3, <3>4 DEF Lost
  <2>4. CASE ~Repeats(op[c], tries[c])
    BY <1>6, <2>1, <2>2, <2>4, TellTyped DEF Lost
  <2>. QED  BY <2>3, <2>4
<1>7. ASSUME NEW c \in Calls, NEW body \in BOOLEAN, Receive(c, body) PROVE TypeOK'
  <2>1. reply[c].kind \in {"ok", "conflict", "refused"}
    BY <1>7 DEF Receive, CallInv, Control
  <2>2. Outcome(op[c], reply[c].kind, body) \in Results
    BY <2>1, OutcomeIsResult
  <2>3. answer' \in [Calls -> Inputs \cup {None}]
    BY <1>7 DEF Receive
  <2>. QED  BY <1>7, <2>2, <2>3, TellTyped DEF Receive
<1>8. CASE Settle
  <2>1. resource' \in [Fields[service] -> Values] /\ seen' \in [Calls -> SUBSET BOOLEAN]
    BY <1>8, ObserveTyped, ServiceAssumption DEF Settle
  <2>. QED  BY <1>8, <2>1 DEF Settle
<1>. QED  BY <1>1, <1>2, <1>3, <1>4, <1>5, <1>6, <1>7, <1>8, NextIsCallStep DEF CallStep

-----------------------------------------------------------------------------
(* Nothing of call d has changed, but what it has seen may have grown.     *)
SameAt(d) ==
  /\ pc'[d] = pc[d] /\ op'[d] = op[d] /\ reply'[d] = reply[d]
  /\ result'[d] = result[d] /\ late'[d] = late[d] /\ effects'[d] = effects[d]

(* The calls in progress have seen what the resource is now.               *)
Sees(d) ==
  /\ seen[d] \subseteq seen'[d]
  /\ Busy(d) => Needs(op[d], resource') \in seen'[d]

LEMMA ObserveSees ==
  ASSUME TypeOK, NEW d \in Calls, Observe(resource')
  PROVE  Sees(d)
BY DEF TypeOK, Observe, Sees, Busy

(* What a resource has been seen to be, if it has not changed.             *)
LEMMA UnchangedSees ==
  ASSUME NEW d \in Calls, Control(d), Witnessed(d), UNCHANGED resource, seen'[d] = seen[d]
  PROVE  Sees(d)
BY DEF Sees, Witnessed

LEMMA SameStateSameInv ==
  ASSUME NEW d \in Calls, CallInv(d), SameAt(d), Sees(d)
  PROVE  CallInv(d)'
<1>1. Needs(op[d], resource') = Needs(op'[d], resource')
  BY DEF SameAt
<1>. QED
  BY <1>1 DEF SameAt, Sees, CallInv, Control, Witnessed, Carried, Once, Busy

LEMMA StepSees ==
  ASSUME IInv, NEW d \in Calls,
         Settle \/ \E c \in Calls : c # d /\ CallStep(c)
  PROVE  Sees(d)
<1>0. TypeOK /\ Control(d) /\ Witnessed(d)
  BY DEF IInv, CallInv
<1>1. CASE Settle
  BY <1>0, <1>1, ObserveSees DEF Settle
<1>2. ASSUME NEW c \in Calls, c # d, CallStep(c) PROVE Sees(d)
  <2>1. ASSUME NEW o \in Operations[service], Begin(c, o) PROVE Sees(d)
    BY <1>0, <1>2, <2>1, UnchangedSees DEF Begin, TypeOK
  <2>2. ASSUME NEW value \in Inputs, ApiExecutes(c, value) PROVE Sees(d)
    BY <1>0, <2>2, ObserveSees DEF ApiExecutes, CarryOut
  <2>3. CASE ApiDeclines(c)
    BY <1>0, <2>3, UnchangedSees DEF ApiDeclines
  <2>4. ASSUME NEW value \in Inputs, LateArrives(c, value) PROVE Sees(d)
    BY <1>0, <2>4, ObserveSees, UnchangedSees DEF LateArrives, CarryOut
  <2>5. CASE Lost(c)
    BY <1>0, <2>5, UnchangedSees DEF Lost
  <2>6. ASSUME NEW body \in BOOLEAN, Receive(c, body) PROVE Sees(d)
    BY <1>0, <2>6, UnchangedSees DEF Receive
  <2>. QED  BY <1>2, <2>1, <2>2, <2>3, <2>4, <2>5, <2>6 DEF CallStep
<1>. QED  BY <1>1, <1>2

LEMMA OthersKeepTheirState ==
  ASSUME TypeOK, NEW d \in Calls,
         Settle \/ \E c \in Calls : c # d /\ CallStep(c)
  PROVE  SameAt(d)
<1>. USE DEF TypeOK, SameAt, Tell
<1>1. CASE Settle
  BY <1>1 DEF Settle
<1>2. ASSUME NEW c \in Calls, c # d, CallStep(c) PROVE SameAt(d)
  <2>1. ASSUME NEW o \in Operations[service], Begin(c, o) PROVE SameAt(d)
    BY <1>2, <2>1 DEF Begin
  <2>2. ASSUME NEW value \in Inputs, ApiExecutes(c, value) PROVE SameAt(d)
    BY <1>2, <2>2 DEF ApiExecutes, CarryOut, Say
  <2>3. CASE ApiDeclines(c)
    BY <1>2, <2>3 DEF ApiDeclines, Say
  <2>4. ASSUME NEW value \in Inputs, LateArrives(c, value) PROVE SameAt(d)
    BY <1>2, <2>4 DEF LateArrives, CarryOut
  <2>5. CASE Lost(c)
    BY <1>2, <2>5 DEF Lost
  <2>6. ASSUME NEW body \in BOOLEAN, Receive(c, body) PROVE SameAt(d)
    BY <1>2, <2>6 DEF Receive
  <2>. QED  BY <1>2, <2>1, <2>2, <2>3, <2>4, <2>5, <2>6 DEF CallStep
<1>. QED  BY <1>1, <1>2

(* Carrying the operation out is seen by the call itself.                  *)
LEMMA CarryOutIsSeen ==
  ASSUME TypeOK, NEW c \in Calls, NEW value \in Inputs, CarryOut(c, value), Busy(c)
  PROVE  /\ seen[c] \subseteq seen'[c]
         /\ Needs(op[c], resource') \in seen'[c]
BY ObserveSees DEF CarryOut, Sees

LEMMA OwnInv ==
  ASSUME IInv, NEW c \in Calls, CallStep(c)
  PROVE  CallInv(c)'
<1>0. CallInv(c)
  BY DEF IInv
<1>. USE <1>0 DEF IInv, TypeOK, CallInv, Busy
<1>1. ASSUME NEW o \in Operations[service], Begin(c, o) PROVE CallInv(c)'
  <2>1. effects[c] = 0 /\ late[c] = 0 /\ result[c] = "pending"
    BY <1>1 DEF Begin, Control
  <2>2. CASE o.verb = "none"
    <3>1. /\ op'[c] = o /\ pc'[c] = "done" /\ result'[c] = "rejected"
          /\ reply'[c].kind = "none" /\ effects'[c] = 0 /\ late'[c] = 0
      BY <1>1, <2>1, <2>2 DEF Begin, Tell, NoReply
    <3>. QED  BY <2>2, <3>1 DEF Control, Witnessed, Carried, Once
  <2>3. CASE o.verb # "none"
    <3>1. seen'[c] = {Needs(o, resource)}
      BY <1>1, <2>3 DEF Begin
    <3>2. op'[c] = o /\ pc'[c] = "sent" /\ resource' = resource
      BY <1>1, <2>3 DEF Begin
    <3>3. reply'[c] = reply[c] /\ result'[c] = "pending" /\ effects'[c] = 0 /\ late'[c] = 0
      BY <1>1, <2>1, <2>3 DEF Begin
    <3>4. reply[c].kind = "none"
      BY <1>1 DEF Begin, Control
    <3>. QED  BY <3>1, <3>2, <3>3, <3>4 DEF Control, Witnessed, Carried, Once
  <2>. QED  BY <2>2, <2>3
<1>2. ASSUME NEW value \in Inputs, ApiExecutes(c, value) PROVE CallInv(c)'
  <2>1. /\ pc[c] = "sent" /\ pc'[c] = "answered" /\ reply'[c].kind = "ok"
        /\ effects'[c] = effects[c] + 1 /\ late'[c] = late[c]
        /\ op'[c] = op[c] /\ result'[c] = result[c]
    BY <1>2 DEF ApiExecutes, CarryOut, Say
  <2>2. Needs(op[c], resource)
    BY <1>2 DEF ApiExecutes, CarryOut
  <2>3. TRUE \in seen[c]
    BY <2>1, <2>2, NeedsIsBoolean DEF Witnessed
  <2>4. seen[c] \subseteq seen'[c] /\ Needs(op[c], resource') \in seen'[c]
    BY <1>2, <2>1, CarryOutIsSeen DEF ApiExecutes
  <2>5. result[c] = "pending"
    BY <2>1 DEF Control
  <2>6. Witnessed(c)'
    BY <2>1, <2>3, <2>4, <2>5 DEF Witnessed
  <2>. QED  BY <2>1, <2>5, <2>6 DEF Control, Carried, Once
<1>3. CASE ApiDeclines(c)
  <2>1. /\ pc[c] = "sent" /\ pc'[c] = "answered" /\ result[c] = "pending"
        /\ UNCHANGED <<resource, op, result, late, effects, seen>>
    BY <1>3 DEF ApiDeclines, Say, Control
  <2>2. /\ reply'[c].kind \in {"conflict", "refused"}
        /\ reply'[c].kind = "conflict" => ~Needs(op[c], resource)
    BY <1>3 DEF ApiDeclines, Say
  <2>3. Needs(op[c], resource) \in seen[c]
    BY <2>1 DEF Witnessed
  <2>4. reply'[c].kind = "conflict" => FALSE \in seen[c]
    <3>. SUFFICES ASSUME ~Needs(op[c], resource) PROVE FALSE \in seen[c]
      BY <2>2
    <3>1. Needs(op[c], resource) = FALSE
      BY NeedsIsBoolean
    <3>. QED  BY <2>3, <3>1
  <2>5. Witnessed(c)'
    BY <2>1, <2>2, <2>3, <2>4 DEF Witnessed
  <2>6. Control(c)' /\ Carried(c)' /\ Once(c)'
    BY <2>1, <2>2 DEF Control, Carried, Once
  <2>. QED  BY <2>5, <2>6
<1>4. ASSUME NEW value \in Inputs, LateArrives(c, value) PROVE CallInv(c)'
  <2>1. /\ UNCHANGED <<pc, op, reply, result>>
        /\ late[c] > 0 /\ late'[c] = late[c] - 1
        /\ effects'[c] \in {effects[c], effects[c] + 1}
    BY <1>4 DEF LateArrives, CarryOut
  <2>2. /\ seen[c] \subseteq seen'[c]
        /\ Busy(c) => Needs(op[c], resource') \in seen'[c]
    <3>1. CASE CarryOut(c, value)
      <4>1. Observe(resource')
        BY <3>1 DEF CarryOut
      <4>. QED  BY <4>1, ObserveSees DEF Sees
    <3>2. CASE UNCHANGED <<resource, effects, seen>>
      BY <3>2 DEF Witnessed
    <3>. QED  BY <1>4, <3>1, <3>2 DEF LateArrives
  <2>3. Witnessed(c)'
    BY <2>1, <2>2 DEF Witnessed
  <2>4. Control(c)' /\ Carried(c)'
    BY <2>1 DEF Control, Carried
  <2>5. Once(c)'
    BY <2>1 DEF Once, Control
  <2>. QED  BY <2>3, <2>4, <2>5
<1>5. CASE Lost(c)
  <2>1. /\ UNCHANGED <<resource, op, effects, seen>> /\ reply'[c].kind = "none"
        /\ Busy(c)
        /\ late'[c] \in {late[c], late[c] + 1}
        /\ late'[c] # late[c] => pc[c] = "sent"
    BY <1>5 DEF Lost, Tell, NoReply
  <2>2. \/ /\ op[c].verb # "POST" /\ pc'[c] = "sent" /\ result'[c] = result[c]
        \/ pc'[c] = "done" /\ result'[c] = "failed"
    BY <1>5 DEF Lost, Tell, Repeats
  <2>3. result[c] = "pending"
    BY <2>1 DEF Control
  <2>4. Control(c)' /\ Witnessed(c)' /\ Carried(c)'
    BY <2>1, <2>2, <2>3 DEF Control, Witnessed, Carried
  <2>5. Once(c)'
    BY <2>1, <2>2, <2>3 DEF Once
  <2>. QED  BY <2>4, <2>5
<1>6. ASSUME NEW body \in BOOLEAN, Receive(c, body) PROVE CallInv(c)'
  <2>1. reply[c].kind \in {"ok", "conflict", "refused"} /\ pc[c] = "answered"
    BY <1>6 DEF Receive, Control
  <2>2. /\ UNCHANGED <<resource, op, late, effects, seen>> /\ reply'[c].kind = "none"
        /\ pc'[c] = "done" /\ result'[c] = Outcome(op[c], reply[c].kind, body)
    BY <1>6 DEF Receive, Tell, NoReply
  <2>3. /\ result'[c] = "ok" => reply[c].kind = "ok"
        /\ result'[c] # "failed" => result'[c] = reply[c].kind
    <3>1. /\ Outcome(op[c], reply[c].kind, body) = "ok" => reply[c].kind = "ok"
          /\ Outcome(op[c], reply[c].kind, body) # "failed"
               => Outcome(op[c], reply[c].kind, body) = reply[c].kind
      BY ONLY <2>1, body \in BOOLEAN, OutcomeIsResult
    <3>. QED  BY <2>2, <3>1
  <2>4. Control(c)' /\ Witnessed(c)' /\ Carried(c)'
    BY <2>1, <2>2, <2>3 DEF Control, Witnessed, Carried
  <2>5. Once(c)'
    BY <2>1, <2>2, <2>3 DEF Once
  <2>. QED  BY <2>4, <2>5
<1>. QED  BY <1>1, <1>2, <1>3, <1>4, <1>5, <1>6 DEF CallStep

LEMMA InvPreserved == IInv /\ [Next]_vars => IInv'
<1>. SUFFICES ASSUME IInv, [Next]_vars, NEW d \in Calls PROVE CallInv(d)'
  BY TypePreserved DEF IInv
<1>1. CASE UNCHANGED vars
  BY <1>1 DEF vars, IInv, CallInv, Control, Witnessed, Carried, Once, Busy
<1>2. CASE CallStep(d)
  BY <1>2, OwnInv
<1>3. CASE Settle \/ \E c \in Calls : c # d /\ CallStep(c)
  BY <1>3, StepSees, OthersKeepTheirState, SameStateSameInv DEF IInv
<1>. QED  BY <1>1, <1>2, <1>3, NextIsCallStep

LEMMA Invariance == Spec => []IInv
BY InvInitially, InvPreserved, PTL DEF Spec

(* Every variable keeps its type.                                          *)
THEOREM TypeCorrect == Spec => []TypeOK
<1>1. IInv => TypeOK
  BY DEF IInv
<1>. QED  BY <1>1, Invariance, PTL

(* What the caller is told is true of a moment of the call.                *)
THEOREM AnswersAreTrue == Spec => []AnswerIsOfTheCall
<1>1. IInv => AnswerIsOfTheCall
  BY DEF IInv, CallInv, Witnessed, AnswerIsOfTheCall
<1>. QED  BY <1>1, Invariance, PTL

-----------------------------------------------------------------------------
(***************************************************************************)
(* Refinement: every step of a call, of Robot or of a request that is late *)
(* is a step of RemoteCall for the same call, or leaves what RemoteCall    *)
(* sees alone.                                                             *)
(***************************************************************************)
PhaseOf(c) ==
  IF pc[c] = "idle" THEN "idle"
  ELSE IF pc[c] # "done" THEN "busy"
  ELSE IF result[c] \in {"ok", "failed"} THEN result[c] ELSE "refused"

Phase == [c \in Calls |-> PhaseOf(c)]

OnceMap == [c \in Calls |-> op[c].verb = "POST"]

LEMMA OnlyOwnPhase ==
  ASSUME TypeOK, TypeOK', NEW c \in Calls, CallStep(c)
  PROVE  /\ Phase' = [Phase EXCEPT ![c] = PhaseOf(c)']
         /\ effects' = [effects EXCEPT ![c] = effects'[c]]
         /\ OnceMap' = [OnceMap EXCEPT ![c] = (op'[c].verb = "POST")]
<1>1. \A d \in Calls : d # c => SameAt(d)
  BY OthersKeepTheirState
<1>2. \A d \in Calls : d # c => PhaseOf(d)' = PhaseOf(d)
  BY <1>1 DEF SameAt, PhaseOf
<1>3. Phase' = [Phase EXCEPT ![c] = PhaseOf(c)']
  BY <1>2 DEF Phase
<1>4. effects' = [effects EXCEPT ![c] = effects'[c]]
  BY <1>1 DEF SameAt, TypeOK
<1>5. OnceMap' = [OnceMap EXCEPT ![c] = (op'[c].verb = "POST")]
  BY <1>1 DEF SameAt, OnceMap
<1>. QED  BY <1>3, <1>4, <1>5

LEMMA LateUsesUp ==
  \A e, n \in Nat : /\ n > 0 /\ e + n <= 1 => e = 0
                   /\ e + n = 0 => e = 0
OBVIOUS

(* What a step of call c does to what its caller can see.                  *)
LEMMA StepKinds ==
  ASSUME IInv, IInv', NEW c \in Calls, CallStep(c)
  PROVE  \/ /\ PhaseOf(c) = "idle" /\ effects'[c] = effects[c]
            /\ PhaseOf(c)' \in {"busy", "refused"}
         \/ /\ PhaseOf(c)' = PhaseOf(c) /\ op'[c] = op[c]
            /\ effects'[c] = effects[c]
         \/ /\ PhaseOf(c)' = PhaseOf(c) /\ op'[c] = op[c]
            /\ PhaseOf(c) # "idle" /\ effects'[c] = effects[c] + 1
            /\ op[c].verb = "POST" => effects[c] = 0 /\ PhaseOf(c) \in {"busy", "failed"}
         \/ /\ PhaseOf(c) = "busy" /\ op'[c] = op[c] /\ effects'[c] = effects[c]
            /\ PhaseOf(c)' \in {"ok", "refused", "failed"}
            /\ PhaseOf(c)' = "ok" => effects[c] > 0
            /\ PhaseOf(c)' = "refused" /\ op[c].verb = "POST" => effects[c] = 0
<1>0. TypeOK /\ CallInv(c) /\ CallInv(c)'
  BY DEF IInv
<1>. USE <1>0 DEF TypeOK, CallInv
<1>1. ASSUME NEW o \in Operations[service], Begin(c, o)
      PROVE  /\ PhaseOf(c) = "idle" /\ effects'[c] = effects[c]
             /\ PhaseOf(c)' \in {"busy", "refused"}
  BY <1>1 DEF Begin, Tell, PhaseOf
<1>2. ASSUME NEW value \in Inputs, ApiExecutes(c, value)
      PROVE  /\ PhaseOf(c)' = PhaseOf(c) /\ op'[c] = op[c]
             /\ PhaseOf(c) = "busy" /\ effects'[c] = effects[c] + 1
             /\ op[c].verb = "POST" => effects[c] = 0
  <2>1. pc[c] = "sent" /\ pc'[c] = "answered" /\ op'[c] = op[c]
        /\ effects'[c] = effects[c] + 1
    BY <1>2 DEF ApiExecutes, CarryOut, Say
  <2>. QED  BY <2>1 DEF PhaseOf, Once
<1>3. CASE ApiDeclines(c)
  <2>1. pc[c] = "sent" /\ pc'[c] = "answered" /\ op'[c] = op[c] /\ effects'[c] = effects[c]
    BY <1>3 DEF ApiDeclines, Say
  <2>. QED  BY <2>1 DEF PhaseOf
<1>4. ASSUME NEW value \in Inputs, LateArrives(c, value)
      PROVE  /\ PhaseOf(c)' = PhaseOf(c) /\ op'[c] = op[c]
             /\ \/ effects'[c] = effects[c]
                \/ /\ PhaseOf(c) # "idle" /\ effects'[c] = effects[c] + 1
                   /\ op[c].verb = "POST"
                        => effects[c] = 0 /\ PhaseOf(c) \in {"busy", "failed"}
  <2>1. /\ pc'[c] = pc[c] /\ op'[c] = op[c] /\ result'[c] = result[c] /\ late[c] > 0
        /\ effects'[c] \in {effects[c], effects[c] + 1}
    BY <1>4 DEF LateArrives, CarryOut
  <2>2. pc[c] # "idle"
    BY <2>1 DEF Control
  <2>3. ASSUME op[c].verb = "POST" PROVE effects[c] = 0 /\ PhaseOf(c) \in {"busy", "failed"}
    <3>1. pc[c] = "done" /\ effects[c] + late[c] <= 1
      BY <2>1, <2>2, <2>3 DEF Once
    <3>2. effects[c] = 0
      <4>1. effects[c] \in Nat /\ late[c] \in Nat
        OBVIOUS
      <4>. HIDE <1>0 DEF TypeOK, CallInv
      <4>. QED  BY <2>1, <3>1, <4>1, LateUsesUp
    <3>3. result[c] = "failed"
      BY <2>1, <2>3, <3>1, <3>2 DEF Once, Carried
    <3>. QED  BY <3>1, <3>2, <3>3 DEF PhaseOf
  <2>. QED  BY <2>1, <2>2, <2>3 DEF PhaseOf
<1>5. ASSUME Lost(c)
      PROVE  /\ PhaseOf(c) = "busy" /\ op'[c] = op[c] /\ effects'[c] = effects[c]
             /\ PhaseOf(c)' \in {"busy", "failed"}
  BY <1>5 DEF Lost, Tell, PhaseOf
<1>6. ASSUME NEW body \in BOOLEAN, Receive(c, body)
      PROVE  /\ PhaseOf(c) = "busy" /\ op'[c] = op[c] /\ effects'[c] = effects[c]
             /\ PhaseOf(c)' \in {"ok", "refused", "failed"}
             /\ PhaseOf(c)' = "ok" => effects[c] > 0
             /\ PhaseOf(c)' = "refused" /\ op[c].verb = "POST" => effects[c] = 0
  <2>1. pc[c] = "answered" /\ pc'[c] = "done" /\ op'[c] = op[c] /\ effects'[c] = effects[c]
    BY <1>6 DEF Receive, Tell
  <2>2. PhaseOf(c)' = "ok" => effects[c] > 0
    <3>1. PhaseOf(c)' = "ok" => result'[c] = "ok"
      BY <2>1 DEF PhaseOf
    <3>. QED  BY <2>1, <3>1 DEF Carried
  <2>3. PhaseOf(c)' = "refused" /\ op[c].verb = "POST" => effects[c] = 0
    <3>1. PhaseOf(c)' = "refused" => result'[c] \notin {"ok", "failed"}
      BY <2>1 DEF PhaseOf
    <3>2. effects'[c] \in Nat /\ late'[c] \in Nat
      BY DEF IInv
    <3>. QED  BY <2>1, <3>1, <3>2, LateUsesUp DEF Once
  <2>. QED  BY <2>1, <2>2, <2>3 DEF PhaseOf
<1>. QED  BY <1>1, <1>2, <1>3, <1>4, <1>5, <1>6 DEF CallStep

LEMMA PromiseInitially == Init => Abstract!Init
<1>. SUFFICES ASSUME Init PROVE Abstract!Init
  OBVIOUS
<1>1. NoOp.verb # "POST"
  BY DEF NoOp, Rejected, Op
<1>2. \A c \in Calls : pc[c] = "idle" /\ op[c] = NoOp
  BY DEF Init
<1>3. effects = [c \in Calls |-> 0]
  BY DEF Init
<1>. QED  BY <1>1, <1>2, <1>3, Zenon DEF Abstract!Init

(* Putting back what was there changes nothing.                            *)
LEMMA PutBack ==
  ASSUME NEW f, f = [d \in Calls |-> f[d]], NEW c \in Calls
  PROVE  [f EXCEPT ![c] = f[c]] = f
OBVIOUS

LEMMA PromiseStep ==
  ASSUME IInv, IInv', [Next]_vars
  PROVE  [Abstract!Next]_(Abstract!vars)
<1>. USE DEF Phase, OnceMap, PhaseOf
<1>1. CASE UNCHANGED vars \/ Settle
  <2>1. UNCHANGED <<pc, op, result, effects>>
    BY <1>1 DEF vars, Settle
  <2>. QED  BY <2>1 DEF Abstract!vars
<1>2. ASSUME NEW c \in Calls, CallStep(c) PROVE [Abstract!Next]_(Abstract!vars)
  <2>1. /\ Phase' = [Phase EXCEPT ![c] = PhaseOf(c)']
        /\ effects' = [effects EXCEPT ![c] = effects'[c]]
        /\ OnceMap' = [OnceMap EXCEPT ![c] = (op'[c].verb = "POST")]
    BY <1>2, OnlyOwnPhase DEF IInv
  <2>2. /\ Phase[c] = PhaseOf(c)
        /\ OnceMap[c] = (op[c].verb = "POST")
        /\ effects \in [Calls -> Nat]
        /\ Phase = [d \in Calls |-> Phase[d]]
        /\ OnceMap = [d \in Calls |-> OnceMap[d]]
        /\ effects = [d \in Calls |-> effects[d]]
    BY DEF IInv, TypeOK
  <2>. HIDE DEF Phase, OnceMap, PhaseOf
  <2>3. CASE /\ PhaseOf(c) = "idle" /\ effects'[c] = effects[c]
             /\ PhaseOf(c)' \in {"busy", "refused"}
    <3>1. UNCHANGED effects
      BY <2>1, <2>2, <2>3, PutBack
    <3>2. Abstract!Ask(c) \/ Abstract!Reject(c)
      BY <2>1, <2>2, <2>3, <3>1 DEF Abstract!Ask, Abstract!Reject, Phase, OnceMap, PhaseOf
    <3>. QED  BY <3>2 DEF Abstract!Next
  <2>4. CASE PhaseOf(c)' = PhaseOf(c) /\ op'[c] = op[c] /\ effects'[c] = effects[c]
    <3>0. /\ Phase' = [Phase EXCEPT ![c] = Phase[c]]
          /\ OnceMap' = [OnceMap EXCEPT ![c] = OnceMap[c]]
          /\ effects' = [effects EXCEPT ![c] = effects[c]]
      BY ONLY <2>1, <2>2, <2>4
    <3>1. UNCHANGED <<Phase, OnceMap, effects>>
      BY ONLY <2>2, <3>0, PutBack
    <3>. QED  BY <3>1 DEF Abstract!vars, Phase, OnceMap, PhaseOf
  <2>5. CASE /\ PhaseOf(c)' = PhaseOf(c) /\ op'[c] = op[c]
             /\ PhaseOf(c) # "idle" /\ effects'[c] = effects[c] + 1
             /\ op[c].verb = "POST" => effects[c] = 0 /\ PhaseOf(c) \in {"busy", "failed"}
    <3>1. UNCHANGED <<Phase, OnceMap>>
      BY ONLY <2>1, <2>2, <2>5, PutBack
    <3>2. Abstract!CarryOut(c)
      BY <2>1, <2>2, <2>5, <3>1 DEF Abstract!CarryOut, Phase, OnceMap, PhaseOf
    <3>. QED  BY <3>2 DEF Abstract!Next
  <2>6. CASE /\ PhaseOf(c) = "busy" /\ op'[c] = op[c] /\ effects'[c] = effects[c]
             /\ PhaseOf(c)' \in {"ok", "refused", "failed"}
             /\ PhaseOf(c)' = "ok" => effects[c] > 0
             /\ PhaseOf(c)' = "refused" /\ op[c].verb = "POST" => effects[c] = 0
    <3>1. UNCHANGED <<effects, OnceMap>>
      BY ONLY <2>1, <2>2, <2>6, PutBack
    <3>2. ASSUME NEW outcome \in {"ok", "refused", "failed"}, PhaseOf(c)' = outcome
          PROVE  Abstract!Tell(c, outcome)
      BY <2>1, <2>2, <2>6, <3>1, <3>2 DEF Abstract!Tell, Phase, OnceMap, PhaseOf
    <3>. QED  BY <2>6, <3>2 DEF Abstract!Next
  <2>. QED  BY <1>2, <2>3, <2>4, <2>5, <2>6, StepKinds
<1>. QED  BY <1>1, <1>2, NextIsCallStep

(* Every operation of every service keeps what RemoteCall promises.        *)
THEOREM Refinement == Spec => ImplementsRemoteCall
BY PromiseInitially, PromiseStep, Invariance, PTL DEF Spec, ImplementsRemoteCall, Abstract!Spec

-----------------------------------------------------------------------------
(***************************************************************************)
(* What a user of the services may conclude from answers, for any services *)
(* whose operations mean what they name, any users, plans and attempts.    *)
(***************************************************************************)

(***************************************************************************)
(* A call of which nothing is unknown so far: its one request is on its    *)
(* way, or answered, or has had its outcome told.  No request of it was    *)
(* given up, so none can arrive late, and it is carried out when its       *)
(* answer says so and not before.                                          *)
(***************************************************************************)
Clean(c) ==
  /\ pc[c] # "idle"
  /\ pc[c] = "done" => result[c] # "failed"
  /\ op[c].verb = "POST" \/ tries[c] <= 1

Tidy(c) ==
  /\ Busy(c) => tries[c] >= 1
  /\ Clean(c) => late[c] = 0
  /\ Clean(c) /\ pc[c] = "sent" => effects[c] = 0

(* A user makes one call after the other.                                  *)
OneAtATime ==
  \A c, d \in Calls : pc[c] # "idle" /\ user[d] = user[c] /\ d < c => pc[d] = "done"

OrderInv == OneAtATime /\ \A c \in Calls : Tidy(c)

(* Of another call's step, a call sees no more than a new resource.        *)
Untouched(d) == SameAt(d) /\ tries'[d] = tries[d] /\ answer'[d] = answer[d]

LEMMA OthersUntouched ==
  ASSUME TypeOK, NEW d \in Calls,
         Settle \/ \E c \in Calls : c # d /\ CallStep(c)
  PROVE  Untouched(d)
<1>1. SameAt(d)
  BY OthersKeepTheirState
<1>2. tries'[d] = tries[d] /\ answer'[d] = answer[d]
  <2>. USE DEF TypeOK
  <2>1. CASE Settle
    BY <2>1 DEF Settle
  <2>2. ASSUME NEW c \in Calls, c # d, CallStep(c)
        PROVE  tries'[d] = tries[d] /\ answer'[d] = answer[d]
    BY <2>2 DEF CallStep, Begin, ApiExecutes, ApiDeclines, LateArrives, Lost, Receive
  <2>. QED  BY <2>1, <2>2
<1>. QED  BY <1>1, <1>2 DEF Untouched

LEMMA AccountStays ==
  ASSUME [Next]_vars
  PROVE  service' = service /\ user' = user
BY NextIsCallStep
   DEF CallStep, Begin, ApiExecutes, ApiDeclines, LateArrives, Lost, Receive, Settle, vars

-----------------------------------------------------------------------------
(***************************************************************************)
(* What each step does to its own call and to the resource.                *)
(***************************************************************************)
Began(c) ==
  /\ pc[c] = "idle" /\ pc'[c] \in {"sent", "done"}
  /\ pc'[c] = "done" => result'[c] = "rejected"
  /\ pc'[c] = "sent" => tries'[c] = 1 /\ result'[c] = "pending"
  /\ reply'[c].kind = "none" /\ late'[c] = 0 /\ effects'[c] = 0
  /\ op'[c] \in Operations[service]
  /\ \A d \in Previous(c) : pc[d] = "done"
  /\ resource' = resource

Executes(c) ==
  /\ pc[c] = "sent" /\ pc'[c] = "answered" /\ reply'[c].kind = "ok"
  /\ result'[c] = "pending"
  /\ Generates(op[c]) => reply'[c].value \in Inputs
  /\ UNCHANGED <<op, tries, late>> /\ effects'[c] = effects[c] + 1
  /\ Needs(op[c], resource)
  /\ \E value \in Inputs : /\ Generates(op[c]) => value = reply'[c].value
                           /\ resource' = After(op[c], resource, value)

Declines(c) ==
  /\ pc[c] = "sent" /\ pc'[c] = "answered" /\ reply'[c].kind \in {"conflict", "refused"}
  /\ reply'[c].kind = "conflict" => ~Needs(op[c], resource)
  /\ result'[c] = "pending"
  /\ UNCHANGED <<resource, op, tries, late, effects>>

Arrives(c) ==
  /\ late[c] > 0
  /\ UNCHANGED <<pc, op, tries, reply, result, answer>>
  /\ late'[c] < late[c]
  /\ \/ resource' = resource
     \/ \E value \in Inputs : resource' = After(op[c], resource, value)

Loses(c) ==
  /\ Busy(c) /\ pc'[c] \in {"sent", "done"} /\ reply'[c].kind = "none"
  /\ pc'[c] = "sent" => op[c].verb # "POST" /\ tries'[c] = tries[c] + 1
                        /\ result'[c] = "pending"
  /\ pc'[c] = "done" => result'[c] = "failed"
  /\ UNCHANGED <<resource, op>>

Receives(c) ==
  /\ pc[c] = "answered" /\ pc'[c] = "done" /\ reply'[c].kind = "none"
  /\ result'[c] # "failed" => result'[c] = reply[c].kind
  /\ answer'[c] \in {reply[c].value, None}
  /\ UNCHANGED <<resource, op, tries, late, effects>>

LEMMA StepMeans ==
  ASSUME IInv, NEW c \in Calls, CallStep(c)
  PROVE  \/ Began(c) \/ Executes(c) \/ Declines(c)
         \/ Arrives(c) \/ Loses(c) \/ Receives(c)
<1>0. TypeOK /\ Control(c)
  BY DEF IInv, CallInv
<1>. USE <1>0 DEF TypeOK, Control
<1>1. ASSUME NEW o \in Operations[service], Begin(c, o) PROVE Began(c)
  BY <1>1 DEF Begin, Began, Tell, NoReply
<1>2. ASSUME NEW value \in Inputs, ApiExecutes(c, value) PROVE Executes(c)
  BY <1>2 DEF ApiExecutes, Executes, CarryOut, Say
<1>3. CASE ApiDeclines(c)
  BY <1>3 DEF ApiDeclines, Declines, Say
<1>4. ASSUME NEW value \in Inputs, LateArrives(c, value) PROVE Arrives(c)
  BY <1>4 DEF LateArrives, Arrives, CarryOut
<1>5. CASE Lost(c)
  BY <1>5 DEF Lost, Loses, Tell, Busy, NoReply, Repeats
<1>6. ASSUME NEW body \in BOOLEAN, Receive(c, body) PROVE Receives(c)
  <2>1. reply[c].kind \in {"ok", "conflict", "refused"}
    BY <1>6 DEF Receive
  <2>2. Outcome(op[c], reply[c].kind, body) # "failed"
          => Outcome(op[c], reply[c].kind, body) = reply[c].kind
    <3>1. body \in BOOLEAN
      BY <1>6
    <3>. QED  BY ONLY <2>1, <3>1, OutcomeIsResult
  <2>. QED  BY <1>6, <2>2 DEF Receive, Receives, Tell, NoReply
<1>. QED  BY <1>1, <1>2, <1>3, <1>4, <1>5, <1>6 DEF CallStep

LEMMA OrderInitially == Init => OrderInv
BY DEF Init, OrderInv, OneAtATime, Tidy, Clean, Busy

LEMMA OwnTidy ==
  ASSUME IInv, NEW c \in Calls, Tidy(c), CallStep(c)
  PROVE  Tidy(c)' /\ (pc[c] = "done" => pc'[c] = "done")
<1>0. /\ pc[c] \in {"idle", "sent", "answered", "done"}
      /\ late[c] \in Nat /\ tries[c] \in Nat
  BY DEF IInv, TypeOK
<1>. USE <1>0 DEF Tidy, Clean, Busy
<1>1. CASE Began(c)
  BY <1>1 DEF Began
<1>2. CASE Executes(c)
  BY <1>2 DEF Executes
<1>3. CASE Declines(c)
  BY <1>3 DEF Declines
<1>4. CASE Arrives(c)
  BY <1>4 DEF Arrives
<1>5. CASE Loses(c)
  BY <1>5 DEF Loses
<1>6. CASE Receives(c)
  BY <1>6 DEF Receives
<1>. QED  BY <1>1, <1>2, <1>3, <1>4, <1>5, <1>6, StepMeans

LEMMA OrderPreserved == IInv /\ OrderInv /\ [Next]_vars => OrderInv'
<1>. SUFFICES ASSUME IInv, OrderInv, [Next]_vars PROVE OrderInv'
  OBVIOUS
<1>0. TypeOK /\ service' = service /\ user' = user
  BY AccountStays DEF IInv
<1>1. CASE UNCHANGED vars
  BY <1>1 DEF vars, OrderInv, OneAtATime, Tidy, Clean, Busy
<1>2. CASE Settle
  <2>1. \A d \in Calls : Untouched(d)
    BY <1>0, <1>2, OthersUntouched
  <2>. QED
    BY <1>0, <2>1 DEF OrderInv, OneAtATime, Tidy, Clean, Busy, Untouched, SameAt
<1>3. ASSUME NEW c \in Calls, CallStep(c) PROVE OrderInv'
  <2>1. \A d \in Calls : d # c => Untouched(d)
    BY <1>0, <1>3, OthersUntouched
  <2>2. Tidy(c)' /\ (pc[c] = "done" => pc'[c] = "done")
    BY <1>3, OwnTidy DEF OrderInv
  <2>3. \A d \in Calls : Tidy(d)'
    <3>1. ASSUME NEW d \in Calls, d # c PROVE Tidy(d)'
      BY <2>1, <3>1 DEF OrderInv, Untouched, SameAt, Tidy, Clean, Busy
    <3>. QED  BY <2>2, <3>1
  <2>4. pc[c] = "idle" /\ pc'[c] # "idle" => \A d \in Previous(c) : pc[d] = "done"
    BY <1>3, StepMeans
       DEF Began, Executes, Declines, Arrives, Loses, Receives, Busy, IInv, CallInv, Control
  <2>5. OneAtATime'
    <3>. SUFFICES ASSUME NEW e \in Calls, NEW d \in Calls,
                         pc'[e] # "idle", user[d] = user[e], d < e
                  PROVE  pc'[d] = "done"
      BY <1>0 DEF OneAtATime
    <3>1. pc[d] = "done"
      <4>1. CASE pc[e] # "idle"
        BY <4>1 DEF OrderInv, OneAtATime
      <4>2. CASE pc[e] = "idle"
        BY <2>1, <2>4, <4>2 DEF Untouched, SameAt, Previous
      <4>. QED  BY <4>1, <4>2
    <3>. QED  BY <2>1, <2>2, <3>1 DEF Untouched, SameAt
  <2>. QED  BY <2>3, <2>5 DEF OrderInv
<1>. QED  BY <1>1, <1>2, <1>3, NextIsCallStep

-----------------------------------------------------------------------------
(***************************************************************************)
(* What is set is known.  Operations mean what they name: what is named is *)
(* set, to something other than the passing status "in process", and no    *)
(* operation sets it without naming it.                                    *)
(***************************************************************************)
NamesAreSet(operations) ==
  \A o \in operations : \A f \in o.names :
    /\ f \in DOMAIN o.form /\ o.form[f] # InProcess
    /\ \A p \in operations : f \in DOMAIN p.form => f \in p.names

NamingIsSetting ==
  /\ InProcess \notin Inputs
  /\ \A s \in Services : NamesAreSet(Operations[s])

(* The call has been carried out, as far as its answers say.               *)
Executed(c) == "ok" \in {reply[c].kind, result[c]}

(* The value of a field that the answer has, or will be told from.         *)
Expected(c, f) ==
  IF op[c].form[f] # Generated THEN op[c].form[f]
  ELSE IF pc[c] = "done" THEN answer[c] ELSE reply[c].value

(* Call c is the last to have set f, and everything about f is known.      *)
LastWord(c, f) ==
  /\ c \in Naming(f)
  /\ \A d \in Naming(f) : user[d] = user[c] /\ Clean(d)
  /\ Executed(c)
  /\ \A d \in Naming(f) : d > c => ~Executed(d)
  /\ pc[c] = "done" => answer[c] # None \/ op[c].form[f] # Generated

KnownInv ==
  \A f \in Fields[service], c \in Calls : LastWord(c, f) => resource[f] = Expected(c, f)

LEMMA NamesMean ==
  ASSUME NamingIsSetting, TypeOK, NEW c \in Calls, NEW f \in op[c].names
  PROVE  /\ f \in DOMAIN op[c].form /\ op[c].form[f] # InProcess
         /\ \A d \in Calls : f \in DOMAIN op[d].form => f \in op[d].names
<1>1. NoOp.names = {} /\ DOMAIN NoOp.form = {}
  BY DEF NoOp, Rejected, Op
<1>2. op[c] \in Operations[service] /\ service \in Services
  BY <1>1 DEF TypeOK
<1>3. \A d \in Calls : op[d] \in Operations[service] \/ op[d] = NoOp
  BY DEF TypeOK
<1>. QED  BY <1>1, <1>2, <1>3 DEF NamingIsSetting, NamesAreSet

(* A step after which c has the last word, seen from before the step.      *)
LEMMA OwnKnown ==
  ASSUME NamingIsSetting, IInv, IInv', OrderInv, OrderInv', NEW c \in Calls, CallStep(c),
         NEW f \in Fields[service], LastWord(c, f)', KnownInv,
         user' = user, \A d \in Calls : d # c => Untouched(d)
  PROVE  resource'[f] = Expected(c, f)'
<1>0. TypeOK /\ c \in Naming(f)' /\ Clean(c)' /\ Executed(c)'
  BY DEF IInv, LastWord
<1>. USE DEF Clean, Executed
<1>1. CASE Began(c)
  <2>. QED  BY <1>0, <1>1 DEF Began
<1>2. CASE Executes(c)
  <2>1. f \in op[c].names
    BY <1>0, <1>2 DEF Executes, Naming
  <2>2. f \in DOMAIN op[c].form /\ f \in DOMAIN resource
    BY <1>0, <2>1, NamesMean DEF TypeOK
  <2>3. PICK value \in Inputs : /\ Generates(op[c]) => value = reply'[c].value
                                /\ resource' = After(op[c], resource, value)
    BY <1>2 DEF Executes
  <2>4. op[c].form[f] = Generated => resource'[f] = reply'[c].value
    BY <2>2, <2>3 DEF After, Generates
  <2>5. op[c].form[f] # Generated => resource'[f] = op[c].form[f]
    BY <2>2, <2>3 DEF After
  <2>. QED  BY <1>2, <2>4, <2>5 DEF Executes, Expected
<1>3. CASE Declines(c)
  BY <1>0, <1>3 DEF Declines
<1>4. CASE Loses(c)
  <2>1. tries[c] >= 1 /\ tries[c] \in Nat
    BY <1>4 DEF Loses, OrderInv, Tidy, IInv, TypeOK
  <2>. QED  BY <1>0, <1>4, <2>1 DEF Loses
<1>5. CASE Arrives(c)
  <2>1. late[c] = 0
    BY <1>0, <1>5 DEF Arrives, OrderInv, Tidy
  <2>. QED  BY <1>5, <2>1 DEF Arrives
<1>6. CASE Receives(c)
  <2>1. reply[c].kind = "ok" /\ pc[c] # "done"
    BY <1>0, <1>6 DEF Receives
  <2>2. \A d \in Naming(f) : user[d] = user[c] /\ Clean(d)
    BY <1>6 DEF LastWord, Naming, Receives, Untouched, SameAt
  <2>3. \A d \in Naming(f) : d > c => ~Executed(d)
    BY ServiceAssumption DEF LastWord, Naming, Untouched, SameAt
  <2>4. c \in Naming(f)
    BY <1>0, <1>6 DEF Receives, Naming
  <2>5. LastWord(c, f)
    BY <2>1, <2>2, <2>3, <2>4 DEF LastWord
  <2>6. resource[f] = Expected(c, f)
    BY <2>5 DEF KnownInv
  <2>7. Expected(c, f)' = Expected(c, f)
    BY <1>6, <2>1 DEF Receives, Expected, LastWord
  <2>. QED  BY <1>6, <2>6, <2>7 DEF Receives
<1>. QED  BY <1>1, <1>2, <1>3, <1>4, <1>5, <1>6, StepMeans

LEMMA OthersKnown ==
  ASSUME NamingIsSetting, IInv, IInv', OrderInv, OrderInv', NEW c \in Calls, CallStep(c),
         NEW f \in Fields[service], NEW e \in Calls, e # c, LastWord(e, f)', KnownInv,
         user' = user, \A d \in Calls : d # c => Untouched(d)
  PROVE  resource'[f] = Expected(e, f)'
<1>0. TypeOK /\ e \in Naming(f)' /\ Clean(e)' /\ Untouched(e)
  BY DEF IInv, LastWord
<1>1. Expected(e, f)' = Expected(e, f) /\ f \in op[e].names
  BY <1>0 DEF Untouched, SameAt, Expected, Naming
<1>2. f \in DOMAIN op[c].form => f \in op[c].names
  BY <1>0, <1>1, NamesMean
<1>3. f \in DOMAIN resource
  BY <1>0 DEF TypeOK
<1>4. ASSUME c \in Naming(f)', pc[c] \in {"sent", "answered"}
      PROVE  c > e
  <2>1. user[e] = user[c] /\ pc[e] # "idle"
    BY <1>0, <1>4 DEF LastWord, Naming, Untouched, SameAt
  <2>2. ~(c < e)
    BY <1>4, <2>1 DEF OrderInv, OneAtATime
  <2>. QED  BY <2>2, ServiceAssumption
<1>5. ASSUME resource'[f] = resource[f],
             c \in Naming(f) => c \in Naming(f)' /\ (Clean(c)' => Clean(c)),
             c \in Naming(f) => (Executed(c) => Executed(c)')
      PROVE  resource'[f] = Expected(e, f)'
  <2>1. \A d \in Naming(f) : d # c => d \in Naming(f)' /\ Clean(d)' = Clean(d)
                                   /\ Executed(d)' = Executed(d)
    BY DEF Naming, Untouched, SameAt, Clean, Executed
  <2>2. e \in Naming(f) /\ Executed(e)
    BY <1>0 DEF LastWord, Naming, Untouched, SameAt, Executed
  <2>3. \A d \in Naming(f) : user[d] = user[e] /\ Clean(d)
    BY <1>5, <2>1 DEF LastWord
  <2>4. \A d \in Naming(f) : d > e => ~Executed(d)
    BY <1>5, <2>1 DEF LastWord
  <2>5. pc[e] = "done" => answer[e] # None \/ op[e].form[f] # Generated
    BY <1>0 DEF LastWord, Untouched, SameAt
  <2>6. LastWord(e, f)
    BY <2>2, <2>3, <2>4, <2>5 DEF LastWord
  <2>. QED  BY <1>1, <1>5, <2>6 DEF KnownInv
<1>. USE DEF Clean, Executed
<1>6. CASE Began(c)
  BY <1>5, <1>6 DEF Began, Naming
<1>7. CASE Executes(c)
  <2>1. CASE f \in op[c].names
    <3>1. c \in Naming(f)' /\ Executed(c)'
      BY <1>7, <2>1 DEF Executes, Naming
    <3>2. c > e
      BY <1>4, <1>7, <3>1 DEF Executes
    <3>. QED  BY <3>1, <3>2 DEF LastWord
  <2>2. CASE f \notin op[c].names
    <3>1. resource'[f] = resource[f]
      BY <1>2, <1>3, <1>7, <2>2 DEF Executes, After
    <3>. QED  BY <1>5, <2>2, <3>1 DEF Naming
  <2>. QED  BY <2>1, <2>2
<1>8. CASE Declines(c)
  <2>1. c \in Naming(f) => c \in Naming(f)'
    BY <1>8 DEF Declines, Naming
  <2>2. reply[c].kind = "none" /\ result[c] = "pending"
    BY <1>8 DEF Declines, IInv, CallInv, Control, TypeOK
  <2>. QED  BY <1>5, <1>8, <2>1, <2>2 DEF Declines
<1>9. CASE Arrives(c)
  <2>1. CASE f \in op[c].names
    <3>1. pc[c] # "idle"
      BY <1>9 DEF Arrives, IInv, CallInv, Control
    <3>2. c \in Naming(f)' /\ Clean(c)'
      BY <1>9, <2>1, <3>1 DEF Arrives, Naming, LastWord
    <3>3. late[c] = 0
      BY <1>9, <3>2 DEF Arrives, OrderInv, Tidy
    <3>. QED  BY <1>9, <3>3 DEF Arrives
  <2>2. CASE f \notin op[c].names
    <3>1. resource'[f] = resource[f]
      BY <1>2, <1>3, <1>9, <2>2 DEF Arrives, After
    <3>. QED  BY <1>5, <2>2, <3>1 DEF Naming
  <2>. QED  BY <2>1, <2>2
<1>10. CASE Loses(c)
  <2>1. CASE f \in op[c].names
    <3>1. c \in Naming(f)' /\ Clean(c)'
      BY <1>10, <2>1 DEF Loses, Naming, LastWord, Busy
    <3>2. tries[c] >= 1 /\ tries[c] \in Nat
      BY <1>10 DEF Loses, OrderInv, Tidy, IInv, TypeOK
    <3>. QED  BY <1>10, <3>1, <3>2 DEF Loses
  <2>2. CASE f \notin op[c].names
    BY <1>5, <1>10, <2>2 DEF Loses, Naming
  <2>. QED  BY <2>1, <2>2
<1>11. CASE Receives(c)
  <2>1. CASE f \in op[c].names
    <3>1. c \in Naming(f)' /\ Clean(c)' /\ c \in Naming(f)
      BY <1>11, <2>1 DEF Receives, Naming, LastWord
    <3>2. result'[c] = reply[c].kind /\ result[c] = "pending"
      BY <1>11, <3>1 DEF Receives, IInv, CallInv, Control
    <3>. QED  BY <1>5, <1>11, <3>1, <3>2 DEF Receives
  <2>2. CASE f \notin op[c].names
    BY <1>5, <1>11, <2>2 DEF Receives, Naming
  <2>. QED  BY <2>1, <2>2
<1>. QED  BY <1>6, <1>7, <1>8, <1>9, <1>10, <1>11, StepMeans

(* What is known is not in process, so that settling leaves it alone.      *)
LEMMA ExpectedIsSettled ==
  ASSUME NamingIsSetting, TypeOK, NEW c \in Calls, NEW f \in op[c].names
  PROVE  Expected(c, f) # InProcess
<1>1. op[c].form[f] # InProcess
  BY NamesMean
<1>2. answer[c] # InProcess /\ reply[c].value # InProcess
  BY DEF TypeOK, NamingIsSetting, None, InProcess
<1>. QED  BY <1>1, <1>2 DEF Expected

LEMMA KnownInitially == Init => KnownInv
BY DEF Init, KnownInv, LastWord, Naming

LEMMA KnownPreserved ==
  ASSUME NamingIsSetting, IInv, OrderInv, KnownInv, [Next]_vars
  PROVE  KnownInv'
<1>0. TypeOK /\ service' = service /\ user' = user
  BY AccountStays DEF IInv
<1>1. CASE UNCHANGED vars
  BY <1>1 DEF vars, KnownInv, LastWord, Naming, Clean, Executed, Expected
<1>2. CASE Settle
  <2>. SUFFICES ASSUME NEW f \in Fields[service], NEW c \in Calls, LastWord(c, f)'
                PROVE  resource'[f] = Expected(c, f)'
    BY <1>0 DEF KnownInv
  <2>1. \A d \in Calls : Untouched(d)
    BY <1>0, <1>2, OthersUntouched
  <2>2. LastWord(c, f) /\ Expected(c, f)' = Expected(c, f)
    BY <1>0, <2>1 DEF LastWord, Naming, Clean, Executed, Expected, Untouched, SameAt
  <2>3. resource[f] = Expected(c, f)
    BY <2>2 DEF KnownInv
  <2>4. resource[f] # InProcess
    BY <1>0, <2>2, <2>3, ExpectedIsSettled DEF LastWord, Naming
  <2>5. resource'[f] = resource[f]
    BY <1>2, <2>4 DEF Settle
  <2>. QED  BY <2>2, <2>3, <2>5
<1>3. ASSUME NEW c \in Calls, CallStep(c) PROVE KnownInv'
  <2>1. \A d \in Calls : d # c => Untouched(d)
    BY <1>0, <1>3, OthersUntouched
  <2>2. IInv' /\ OrderInv'
    BY InvPreserved, OrderPreserved
  <2>. SUFFICES ASSUME NEW f \in Fields[service], NEW e \in Calls, LastWord(e, f)'
                PROVE  resource'[f] = Expected(e, f)'
    BY <1>0 DEF KnownInv
  <2>3. CASE e = c
    BY <1>0, <1>3, <2>1, <2>2, <2>3, OwnKnown
  <2>4. CASE e # c
    BY <1>0, <1>3, <2>1, <2>2, <2>4, OthersKnown
  <2>. QED  BY <2>3, <2>4
<1>. QED  BY <1>1, <1>2, <1>3, NextIsCallStep

(* At the end of the calls on a field, the last word is the last success.  *)
LEMMA KnownMeans == IInv /\ KnownInv => SuccessIsKnown
<1>. SUFFICES ASSUME IInv, KnownInv, NEW f \in Fields[service], NEW c \in Naming(f),
                     result[c] = "ok",
                     \A d \in Naming(f) : user[d] = user[c] /\ Clear(d),
                     \A d \in Naming(f) : d > c => result[d] # "ok",
                     Told(c, f) # None \/ op[c].form[f] # Generated
              PROVE  resource[f] = Told(c, f)
  BY DEF SuccessIsKnown
<1>1. \A d \in Naming(f) : d \in Calls /\ pc[d] = "done" /\ Clean(d)
  BY DEF Naming, Clear, Clean
<1>2. \A d \in Naming(f) : reply[d].kind = "none"
  BY <1>1 DEF IInv, CallInv, Control, TypeOK
<1>3. \A d \in Naming(f) : Executed(d) <=> result[d] = "ok"
  BY <1>2 DEF Executed
<1>4. Told(c, f) = Expected(c, f) /\ (answer[c] # None \/ op[c].form[f] # Generated)
  BY <1>1 DEF Told, Expected
<1>5. LastWord(c, f)
  BY <1>1, <1>3, <1>4 DEF LastWord
<1>. QED  BY <1>1, <1>4, <1>5 DEF KnownInv

(* What a caller has set, by calls whose outcome is clear, is there, and a *)
(* password or a name that Robot generated is the one the caller was told, *)
(* whatever calls on other fields of the same resource overlap, fail or    *)
(* arrive late: for any services whose operations set what they name.      *)
THEOREM SuccessStaysKnown ==
  ASSUME NamingIsSetting
  PROVE  Spec => []SuccessIsKnown
<1>1. Init => KnownInv
  BY KnownInitially
<1>2. IInv /\ OrderInv /\ KnownInv /\ [Next]_vars => KnownInv'
  BY KnownPreserved
<1>3. IInv /\ KnownInv => SuccessIsKnown
  BY KnownMeans
<1>. QED
  BY <1>1, <1>2, <1>3, Invariance, OrderInitially, OrderPreserved, PTL DEF Spec

-----------------------------------------------------------------------------
(***************************************************************************)
(* Who has waited is not turned down.  Waiting reads, and what it waits    *)
(* for is what every operation of the service needs that needs something   *)
(* to be settled.                                                          *)
(***************************************************************************)
WaitsRead(operations) ==
  \A o \in operations :
    o.name = "WaitForVSwitchReady" =>
      /\ o.needs = "settled" /\ DOMAIN o.form = {}
      /\ \A p \in operations : p.needs = "settled" => p.key = o.key

WaitingIsReading == \A s \in Services : WaitsRead(Operations[s])

(* Nobody else has called, and nothing of the calls is unknown.            *)
Alone(c) == \A e \in Calls : pc[e] # "idle" => user[e] = user[c] /\ Clean(e)

(* What was found ready stays so until a later call is carried out.        *)
StaysReady(d) ==
  /\ op[d].name = "WaitForVSwitchReady" /\ Executed(d) /\ Alone(d)
  /\ \A e \in Calls : e > d => effects[e] = 0
  => resource[op[d].key] # InProcess

Accepted(c) == JustWaited(c) /\ Alone(c) => "conflict" \notin {reply[c].kind, result[c]}

ReadyInv == \A c \in Calls : StaysReady(c) /\ Accepted(c)

(* While a user is alone, only answers in time change what is known.       *)
LEMMA AloneSteps ==
  ASSUME IInv, OrderInv, NEW c \in Calls, CallStep(c), NEW d \in Calls, Alone(d)',
         user' = user, \A e \in Calls : e # c => Untouched(e)
  PROVE  Alone(d) /\ (Began(c) \/ Executes(c) \/ Declines(c) \/ Receives(c))
<1>. USE DEF Alone, Clean
<1>1. ~Arrives(c)
  <2>. SUFFICES ASSUME Arrives(c) PROVE FALSE
    OBVIOUS
  <2>1. pc[c] # "idle"
    BY DEF Arrives, IInv, CallInv, Control
  <2>2. Clean(c)
    BY <2>1 DEF Arrives
  <2>. QED  BY <2>2 DEF Arrives, OrderInv, Tidy
<1>2. ~Loses(c)
  <2>1. Loses(c) => tries[c] >= 1 /\ tries[c] \in Nat
    BY DEF Loses, OrderInv, Tidy, IInv, TypeOK
  <2>. QED  BY <2>1 DEF Loses
<1>3. Began(c) \/ Executes(c) \/ Declines(c) \/ Receives(c)
  BY <1>1, <1>2, StepMeans
<1>4. \A e \in Calls : e # c /\ pc[e] # "idle" => user[e] = user[d] /\ Clean(e)
  BY DEF Untouched, SameAt
<1>5. pc[c] # "idle" => user[c] = user[d] /\ Clean(c)
  BY <1>3 DEF Began, Executes, Declines, Receives
<1>. QED  BY <1>3, <1>4, <1>5

LEMMA WaitMeans ==
  ASSUME WaitingIsReading, TypeOK, NEW d \in Calls, op[d].name = "WaitForVSwitchReady"
  PROVE  /\ op[d].needs = "settled" /\ DOMAIN op[d].form = {}
         /\ op[d].key \in Fields[service]
         /\ \A c \in Calls : op[c].needs = "settled" => op[c].key = op[d].key
<1>1. NoOp.name # "WaitForVSwitchReady" /\ NoOp.needs # "settled"
  BY DEF NoOp, Rejected, Op
<1>2. op[d] \in Operations[service] /\ service \in Services
  BY <1>1 DEF TypeOK
<1>3. \A c \in Calls : op[c] \in Operations[service] \/ op[c] = NoOp
  BY DEF TypeOK
<1>4. op[d].needs = "settled" => op[d].key \in Fields[service]
  BY <1>2, ServiceAssumption
<1>. QED  BY <1>1, <1>2, <1>3, <1>4 DEF WaitingIsReading, WaitsRead

(* Who has been answered has begun.                                        *)
LEMMA ExecutedBegan ==
  ASSUME IInv, NEW d \in Calls, Executed(d)
  PROVE  pc[d] # "idle"
BY DEF IInv, CallInv, Control, Executed

LEMMA StaysReadyKept ==
  ASSUME WaitingIsReading, IInv, OrderInv, ReadyInv, NEW c \in Calls, CallStep(c),
         NEW d \in Calls, service' = service, user' = user,
         \A e \in Calls : e # c => Untouched(e)
  PROVE  StaysReady(d)'
<1>. SUFFICES ASSUME op'[d].name = "WaitForVSwitchReady", Executed(d)', Alone(d)',
                     \A e \in Calls : e > d => effects'[e] = 0
              PROVE  resource'[op'[d].key] # InProcess
  BY DEF StaysReady
<1>0. TypeOK /\ Alone(d) /\ StaysReady(d)
  BY AloneSteps DEF IInv, ReadyInv
<1>1. ASSUME op'[d] = op[d], Executed(d), effects[c] = 0 \/ effects'[c] = effects[c],
             resource' = resource
      PROVE  resource'[op'[d].key] # InProcess
  <2>1. \A e \in Calls : e > d => effects[e] = 0
    BY <1>1 DEF Untouched, SameAt
  <2>. QED  BY <1>0, <1>1, <2>1 DEF StaysReady
<1>2. d # c => op'[d] = op[d] /\ Executed(d)
  BY DEF Untouched, SameAt, Executed
<1>3. CASE Began(c)
  <2>1. d # c
    BY <1>3 DEF Began, Executed
  <2>2. effects[c] = 0
    BY <1>3 DEF Began, IInv, CallInv, Control
  <2>. QED  BY <1>1, <1>2, <1>3, <2>1, <2>2 DEF Began
<1>4. CASE Executes(c)
  <2>1. CASE c = d
    <3>1. op'[d] = op[d]
      BY <1>4, <2>1 DEF Executes
    <3>2. /\ op[d].needs = "settled" /\ DOMAIN op[d].form = {}
          /\ op[d].key \in DOMAIN resource
      BY <1>0, <3>1, WaitMeans DEF TypeOK
    <3>3. resource[op[d].key] # InProcess
      BY <1>4, <2>1, <3>2 DEF Executes, Needs
    <3>4. resource'[op[d].key] = resource[op[d].key]
      BY <1>4, <2>1, <3>2 DEF Executes, After
    <3>. QED  BY <3>1, <3>3, <3>4
  <2>2. CASE c # d
    <3>1. pc[c] = "sent" /\ effects'[c] = effects[c] + 1 /\ effects[c] \in Nat
      BY <1>0, <1>4 DEF Executes, TypeOK
    <3>2. ~(c > d)
      BY <3>1
    <3>3. pc[d] # "idle" /\ user[c] = user[d]
      BY <1>0, <1>2, <2>2, <3>1, ExecutedBegan DEF Alone
    <3>4. ~(c < d)
      BY <3>1, <3>3 DEF OrderInv, OneAtATime
    <3>. QED  BY <2>2, <3>2, <3>4, ServiceAssumption
  <2>. QED  BY <2>1, <2>2
<1>5. CASE Declines(c)
  <2>1. c = d => ~Executed(d)'
    BY <1>5 DEF Declines, Executed
  <2>. QED  BY <1>1, <1>2, <1>5, <2>1 DEF Declines
<1>6. CASE Receives(c)
  <2>1. c = d => Executed(d)
    BY <1>6 DEF Receives, Executed
  <2>. QED  BY <1>1, <1>2, <1>6, <2>1 DEF Receives
<1>. QED  BY <1>3, <1>4, <1>5, <1>6, AloneSteps

LEMMA AcceptedKept ==
  ASSUME WaitingIsReading, IInv, OrderInv, ReadyInv, NEW c \in Calls, CallStep(c),
         NEW e \in Calls, service' = service, user' = user,
         \A d \in Calls : d # c => Untouched(d)
  PROVE  Accepted(e)'
<1>. SUFFICES ASSUME JustWaited(e)', Alone(e)', "conflict" \in {reply'[e].kind, result'[e]}
              PROVE  FALSE
  BY DEF Accepted
<1>0. TypeOK /\ Control(e) /\ Accepted(e) /\ Alone(e)
  BY AloneSteps DEF IInv, ReadyInv, CallInv
<1>1. PICK d \in Previous(e) : /\ d = e - 1 /\ op'[d].name = "WaitForVSwitchReady"
                               /\ result'[d] = "ok" /\ op'[e].needs = "settled"
  BY DEF JustWaited, Previous
<1>2. d \in Calls /\ d < e /\ user[d] = user[e] /\ d # e
  BY <1>1, ServiceAssumption DEF Previous
<1>3. pc[e] # "idle" => pc[d] = "done"
  BY <1>2 DEF OrderInv, OneAtATime
<1>4. pc[e] # "idle" => op'[d] = op[d] /\ result'[d] = result[d]
  <2>1. CASE c # d
    BY <1>2, <2>1 DEF Untouched, SameAt
  <2>2. CASE c = d
    BY <1>3, <2>2, AloneSteps DEF Began, Executes, Declines, Receives
  <2>. QED  BY <2>1, <2>2
<1>5. ASSUME pc[e] # "idle", op'[e] = op[e]
      PROVE  JustWaited(e) /\ "conflict" \notin {reply[e].kind, result[e]}
  <2>1. op[d].name = "WaitForVSwitchReady" /\ result[d] = "ok" /\ op[e].needs = "settled"
    BY <1>1, <1>4, <1>5
  <2>2. JustWaited(e)
    BY <1>1, <2>1 DEF JustWaited
  <2>. QED  BY <1>0, <2>2 DEF Accepted
<1>6. CASE c # e
  <2>1. Untouched(e) /\ pc[e] # "idle"
    BY <1>0, <1>6 DEF Untouched, SameAt, Control, TypeOK
  <2>. QED  BY <1>5, <2>1 DEF Untouched, SameAt
<1>7. CASE c = e /\ Began(c)
  BY <1>7 DEF Began
<1>8. CASE c = e /\ Executes(c)
  BY <1>8 DEF Executes
<1>9. CASE c = e /\ Receives(c)
  BY <1>5, <1>9 DEF Receives
<1>10. CASE c = e /\ Declines(c)
  <2>1. pc[e] = "sent" /\ op'[e] = op[e] /\ ~Needs(op[e], resource)
    BY <1>10 DEF Declines
  <2>2. op[d].name = "WaitForVSwitchReady" /\ result[d] = "ok" /\ op[e].needs = "settled"
    BY <1>1, <1>4, <2>1
  <2>3. \A x \in Calls : x > d => effects[x] = 0
    <3>1. effects[e] = 0
      BY <1>0, <2>1 DEF Alone, OrderInv, Tidy
    <3>2. ASSUME NEW x \in Calls, x > e PROVE effects[x] = 0
      <4>1. pc[x] = "idle"
        BY <1>0, <2>1, <3>2, ServiceAssumption DEF Alone, OrderInv, OneAtATime
      <4>. QED  BY <4>1 DEF IInv, CallInv, Control
    <3>3. \A x \in Calls : x > d => x = e \/ x > e
      BY <1>1, <1>2, ServiceAssumption
    <3>. QED  BY <3>1, <3>2, <3>3
  <2>4. Alone(d) /\ Executed(d)
    BY <1>0, <1>2, <2>2 DEF Alone, Executed
  <2>5. resource[op[d].key] # InProcess
    BY <1>2, <2>2, <2>3, <2>4 DEF ReadyInv, StaysReady
  <2>6. op[e].key = op[d].key
    BY <1>0, <1>2, <2>2, WaitMeans
  <2>. QED  BY <2>1, <2>2, <2>5, <2>6 DEF Needs
<1>. QED  BY <1>6, <1>7, <1>8, <1>9, <1>10, AloneSteps

LEMMA ReadyInitially == Init => ReadyInv
BY DEF Init, ReadyInv, StaysReady, Accepted, Executed, NoReply

LEMMA ReadyPreserved ==
  ASSUME WaitingIsReading, IInv, OrderInv, ReadyInv, [Next]_vars
  PROVE  ReadyInv'
<1>0. TypeOK /\ service' = service /\ user' = user
  BY AccountStays DEF IInv
<1>. USE DEF StaysReady, Accepted, JustWaited, Previous, Executed, Alone, Clean
<1>1. CASE UNCHANGED vars
  BY <1>1 DEF vars, ReadyInv
<1>2. CASE Settle
  <2>1. \A d \in Calls : Untouched(d)
    BY <1>0, <1>2, OthersUntouched
  <2>2. \A f \in DOMAIN resource : resource[f] # InProcess => resource'[f] # InProcess
    BY <1>2 DEF Settle, Ready, InProcess
  <2>3. ASSUME NEW d \in Calls, op[d].name = "WaitForVSwitchReady"
        PROVE  op[d].key \in DOMAIN resource
    BY <1>0, <2>3, WaitMeans DEF TypeOK
  <2>4. ASSUME NEW d \in Calls PROVE StaysReady(d)'
    BY <1>0, <2>1, <2>2, <2>3 DEF ReadyInv, Untouched, SameAt
  <2>5. ASSUME NEW c \in Calls PROVE Accepted(c)'
    BY <1>0, <2>1 DEF ReadyInv, Untouched, SameAt
  <2>. QED  BY <2>4, <2>5 DEF ReadyInv
<1>3. ASSUME NEW c \in Calls, CallStep(c) PROVE ReadyInv'
  <2>. HIDE DEF StaysReady, Accepted
  <2>1. \A d \in Calls : d # c => Untouched(d)
    BY <1>0, <1>3, OthersUntouched
  <2>2. ASSUME NEW d \in Calls PROVE StaysReady(d)'
    BY <1>0, <1>3, <2>1, StaysReadyKept
  <2>3. ASSUME NEW d \in Calls PROVE Accepted(d)'
    BY <1>0, <1>3, <2>1, AcceptedKept
  <2>. QED  BY <2>2, <2>3 DEF ReadyInv
<1>. QED  BY <1>1, <1>2, <1>3, NextIsCallStep

LEMMA ReadyMeans == ReadyInv => ReadyMeansAccepted
BY DEF ReadyInv, Accepted, ReadyMeansAccepted, Alone, Clean, Clear

(* A user who is alone, all of whose calls were clear, and who has waited  *)
(* for the vSwitch is not turned down for what is in process: for any      *)
(* services in which waiting reads what the other operations need.         *)
THEOREM WaitedIsAccepted ==
  ASSUME WaitingIsReading
  PROVE  Spec => []ReadyMeansAccepted
<1>1. Init => ReadyInv
  BY ReadyInitially
<1>2. IInv /\ OrderInv /\ ReadyInv /\ [Next]_vars => ReadyInv'
  BY ReadyPreserved
<1>. QED
  BY <1>1, <1>2, ReadyMeans, Invariance, OrderInitially, OrderPreserved, PTL DEF Spec

-----------------------------------------------------------------------------
(***************************************************************************)
(* The services of the account are such services.                          *)
(***************************************************************************)
ProperInputs == Inputs \cap {None, Nil, InProcess, Generated} = {}

(* An operation that sets some fields to some values, and names them all.  *)
LEMMA SettersName ==
  ASSUME NEW operations,
         \A o \in operations :
           o.names = DOMAIN o.form /\ \A f \in o.names : o.form[f] # InProcess
  PROVE  NamesAreSet(operations)
BY DEF NamesAreSet

(* The operations whose form is what they name.                            *)
Plain(o) == /\ o.names = DOMAIN o.form
            /\ \A f \in o.names : o.form[f] # InProcess
            /\ o.name # "WaitForVSwitchReady"

LEMMA PlainMeans ==
  ASSUME NEW operations, \A o \in operations : Plain(o)
  PROVE  NamesAreSet(operations) /\ WaitsRead(operations)
BY SettersName DEF Plain, WaitsRead

LEMMA OpIsPlain ==
  ASSUME NEW name, name # "WaitForVSwitchReady", NEW verb, NEW key, NEW needs, NEW form,
         \A f \in DOMAIN form : form[f] # InProcess
  PROVE  Plain(Op(name, verb, key, needs, form))
BY DEF Plain, Op

LEMMA GetIsPlain ==
  ASSUME NEW name, name # "WaitForVSwitchReady", NEW key, NEW needs
  PROVE  Plain(Get(name, key, needs)) /\ Plain(Rejected(name, key))
<1>1. \A f \in DOMAIN <<>> : <<>>[f] # InProcess
  OBVIOUS
<1>. QED  BY <1>1, OpIsPlain DEF Get, Rejected

LEMMA UnsetIsPlain ==
  ASSUME NEW name, name # "WaitForVSwitchReady", NEW verb, NEW key, NEW needs
  PROVE  /\ Plain(Op(name, verb, key, needs, [f \in {key} |-> None]))
         /\ Plain(Unset(name, key)) /\ Plain(Generate(name, verb, key, needs))
<1>1. None # InProcess /\ Generated # InProcess
  BY DEF None, Generated, InProcess
<1>. QED  BY <1>1, OpIsPlain DEF Unset, Generate

LEMMA SetIsPlain ==
  ASSUME ProperInputs, NEW name, name # "WaitForVSwitchReady", NEW verb, NEW key, NEW needs
  PROVE  \A o \in Set(name, verb, key, needs) : Plain(o)
<1>1. ASSUME NEW v \in Inputs
      PROVE  Plain(Op(name, verb, key, needs, [f \in {key} |-> v]))
  <2>1. v # InProcess
    BY DEF ProperInputs
  <2>. QED  BY <2>1, OpIsPlain
<1>. QED  BY <1>1 DEF Set

LEMMA ResetPasswordIsPlain ==
  ASSUME ProperInputs, NEW name, name # "WaitForVSwitchReady", NEW key, NEW needs
  PROVE  \A o \in ResetPassword(name, key, needs) : Plain(o)
<1>1. ASSUME NEW p \in Inputs \cup {Generated}
      PROVE  Plain(Op(name, "POST", key, needs, [password |-> p]))
  <2>1. p # InProcess
    BY DEF ProperInputs, Generated, InProcess
  <2>. QED  BY <2>1, OpIsPlain
<1>. QED  BY <1>1 DEF ResetPassword

(* A structure whose fields are sent when they are not nil.                *)
LEMMA StructuredIsPlain ==
  ASSUME ProperInputs, NEW name, name # "WaitForVSwitchReady", NEW verb, NEW key, NEW needs,
         NEW fields, NEW in \in PartialInputs(fields)
  PROVE  /\ Plain(Structured(name, verb, key, needs, in, NonNil(in)))
         /\ \A f \in DOMAIN NonNil(in) : NonNil(in)[f] # InProcess
<1>1. DOMAIN in = fields /\ \A f \in fields : in[f] \in Inputs \cup {Nil}
  BY DEF PartialInputs
<1>2. \A f \in DOMAIN NonNil(in) : NonNil(in)[f] # InProcess
  BY <1>1 DEF NonNil, Restrict, ProperInputs, Nil, InProcess
<1>3. Plain(Op(name, verb, key, needs, NonNil(in)))
  BY <1>2, OpIsPlain
<1>4. Op(name, verb, key, needs, NonNil(in)).names = DOMAIN NonNil(in)
  BY DEF Op
<1>5. Structured(name, verb, key, needs, in, NonNil(in)) = Op(name, verb, key, needs, NonNil(in))
  BY <1>4 DEF Structured, Op
<1>. QED  BY <1>2, <1>3, <1>5

LEMMA ModeIsPlain ==
  ASSUME NEW mode
  PROVE  \A o \in Mode(mode) : Plain(o)
<1>1. ASSUME NEW given PROVE Plain(Activate(mode, given))
  BY GetIsPlain, UnsetIsPlain DEF Activate
<1>2. Plain(Deactivate(mode)) /\ Plain(Get("Get", mode, "any"))
  BY GetIsPlain, UnsetIsPlain DEF Deactivate
<1>. QED  BY <1>1, <1>2 DEF Mode

LEMMA PlanFormIsSettled ==
  ASSUME ProperInputs, NEW status \in Inputs, NEW max \in Inputs,
         NEW times \in PartialInputs({"minute"})
  PROVE  \A f \in DOMAIN PlanForm(status, max, times) :
           PlanForm(status, max, times)[f] # InProcess
<1>1. \A f \in DOMAIN NonNil(times) : times[f] # InProcess
  BY DEF NonNil, Restrict, PartialInputs, ProperInputs, Nil, InProcess
<1>. QED  BY <1>1 DEF PlanForm, ProperInputs

LEMMA PlainServices ==
  ASSUME ProperInputs,
         NEW o \in UNION {Rdns, Failover, Key, Ip, Subnet, Server, Reset, Wol, Rescue, Windows,
                          Linux, VNC, StorageBox, Snapshots, SnapshotPlan, SubAccount, Template}
  PROVE  Plain(o)
<1>1. CASE o \in Rdns
  BY <1>1, SetIsPlain, UnsetIsPlain, GetIsPlain DEF Rdns
<1>2. CASE o \in Failover
  <2>1. Plain(Op("Delete", "DELETE", "active_server_ip", "any", [active_server_ip |-> None]))
    <3>1. None # InProcess
      BY DEF None, InProcess
    <3>2. \A f \in DOMAIN [active_server_ip |-> None] : [active_server_ip |-> None][f] # InProcess
      BY ONLY <3>1
    <3>. QED  BY <3>2, OpIsPlain
  <2>. QED  BY <1>2, <2>1, SetIsPlain, GetIsPlain DEF Failover
<1>3. CASE o \in Key
  BY <1>3, SetIsPlain, UnsetIsPlain, GetIsPlain DEF Key
<1>4. CASE o \in Ip
  BY <1>4, SetIsPlain, UnsetIsPlain, GetIsPlain DEF Ip
<1>5. CASE o \in Subnet
  <2>1. Plain(Op("DeleteMAC", "DELETE", "mac", "any", [mac |-> None]))
    <3>1. None # InProcess
      BY DEF None, InProcess
    <3>2. \A f \in DOMAIN [mac |-> None] : [mac |-> None][f] # InProcess
      BY ONLY <3>1
    <3>. QED  BY <3>2, OpIsPlain
  <2>. QED  BY <1>5, <2>1, SetIsPlain, UnsetIsPlain, GetIsPlain DEF Subnet
<1>6. CASE o \in Server
  BY <1>6, SetIsPlain, UnsetIsPlain, GetIsPlain DEF Server
<1>7. CASE o \in Reset \cup Wol
  BY <1>7, SetIsPlain, GetIsPlain DEF Reset, Wol
<1>8. CASE o \in Rescue \cup Windows \cup Linux \cup VNC
  BY <1>8, ModeIsPlain DEF Rescue, Windows, Linux, VNC
<1>9. CASE o \in StorageBox
  BY <1>9, StructuredIsPlain, ResetPasswordIsPlain, GetIsPlain DEF StorageBox, UpdateForm
<1>10. CASE o \in Snapshots
  <2>1. Plain(Op("RestoreSnapshot", "POST", "snapshot", "present", <<>>))
    BY OpIsPlain
  <2>. QED  BY <1>10, <2>1, SetIsPlain, UnsetIsPlain, GetIsPlain DEF Snapshots
<1>11. CASE o \in SnapshotPlan
  BY <1>11, PlanFormIsSettled, OpIsPlain, GetIsPlain DEF SnapshotPlan
<1>12. CASE o \in SubAccount
  BY <1>12, StructuredIsPlain, ResetPasswordIsPlain, UnsetIsPlain, GetIsPlain
     DEF SubAccount, SubAccountForm
<1>13. CASE o \in Template
  BY <1>13, SetIsPlain, UnsetIsPlain, GetIsPlain DEF Template
<1>. QED
  BY <1>1, <1>2, <1>3, <1>4, <1>5, <1>6, <1>7, <1>8, <1>9, <1>10, <1>11, <1>12, <1>13

(* Attaching a server puts the vSwitch in process without naming that.     *)
Attaches(o) == o.names = {"server"} /\ \E v \in Inputs \cup {None} : o.form = Attach(v)

SetsOther(o) == Plain(o) /\ o.names \subseteq {"newest", "cancelled", "name"}

Reads(o) == o.names = {} /\ DOMAIN o.form = {}

LEMMA VSwitchMeans ==
  ASSUME ProperInputs
  PROVE  NamesAreSet(VSwitch) /\ WaitsRead(VSwitch)
<1>1. ASSUME NEW o \in VSwitch
      PROVE  /\ SetsOther(o) \/ Attaches(o) \/ Reads(o)
             /\ o.needs = "settled" => o.key = "status"
             /\ o.name = "WaitForVSwitchReady" => o = WaitForVSwitchReady
  <2>1. CASE o \in Set("Create", "POST", "newest", "any")
    <3>1. Plain(o)
      BY <2>1, SetIsPlain
    <3>. QED  BY <2>1, <3>1 DEF Set, Op, SetsOther
  <2>2. CASE o \in Set("Delete", "DELETE", "cancelled", "absent")
    <3>1. Plain(o)
      BY <2>2, SetIsPlain
    <3>. QED  BY <2>2, <3>1 DEF Set, Op, SetsOther
  <2>3. ASSUME NEW v \in Inputs, o = Op("Update", "POST", "status", "settled", [name |-> v])
        PROVE  Plain(o) /\ o.names = {"name"} /\ o.key = "status" /\ o.name = "Update"
    <3>1. \A f \in DOMAIN [name |-> v] : [name |-> v][f] # InProcess
      BY DEF ProperInputs
    <3>2. Plain(o)
      BY <2>3, <3>1, OpIsPlain
    <3>. QED  BY <2>3, <3>2 DEF Op
  <2>4. ASSUME NEW v \in Inputs,
               o = [Op("AddServers", "POST", "status", "settled", Attach(v))
                      EXCEPT !.names = {"server"}]
        PROVE  /\ o.names = {"server"} /\ o.form = Attach(v)
               /\ o.key = "status" /\ o.name = "AddServers"
    BY <2>4 DEF Op
  <2>5. ASSUME o = [Op("RemoveServers", "DELETE", "status", "settled", Attach(None))
                      EXCEPT !.names = {"server"}]
        PROVE  /\ o.names = {"server"} /\ o.form = Attach(None)
               /\ o.key = "status" /\ o.name = "RemoveServers"
    BY <2>5 DEF Op
  <2>6. CASE o \in {WaitForVSwitchReady, Get("Get", "status", "any")}
    BY <2>6 DEF WaitForVSwitchReady, Get, Op, Reads
  <2>. QED  BY <2>1, <2>2, <2>3, <2>4, <2>5, <2>6 DEF VSwitch, SetsOther, Attaches
<1>2. \A v : DOMAIN Attach(v) = {"server", "status"} /\ Attach(v)["server"] = v
  BY DEF Attach
<1>3. \A v \in Inputs \cup {None} : v # InProcess
  BY DEF ProperInputs, None, InProcess
<1>4. NamesAreSet(VSwitch)
  BY <1>1, <1>2, <1>3 DEF NamesAreSet, Plain, SetsOther, Attaches, Reads
<1>5. WaitForVSwitchReady.needs = "settled" /\ DOMAIN WaitForVSwitchReady.form = {}
  BY DEF WaitForVSwitchReady, Get, Op
<1>6. WaitsRead(VSwitch)
  BY <1>1, <1>5 DEF WaitsRead
<1>. QED  BY <1>4, <1>6

(* Every service of the account, and any part of one, has operations that  *)
(* set what they name, and waits by reading what the others need.          *)
THEOREM ServicesMeanWhatTheyName ==
  ASSUME ProperInputs,
         NEW whole \in {Rdns, Failover, Key, Ip, Subnet, Server, Reset, Wol, Rescue \cup Windows,
                          Linux \cup VNC, StorageBox, Snapshots, SnapshotPlan, SubAccount,
                          Template, VSwitch},
         NEW operations \in SUBSET whole
  PROVE  NamesAreSet(operations) /\ WaitsRead(operations)
<1>1. CASE whole = VSwitch
  <2>1. NamesAreSet(VSwitch) /\ WaitsRead(VSwitch)
    BY VSwitchMeans
  <2>. QED  BY <1>1, <2>1 DEF NamesAreSet, WaitsRead
<1>2. CASE whole # VSwitch
  <2>1. whole \subseteq UNION {Rdns, Failover, Key, Ip, Subnet, Server, Reset, Wol, Rescue,
                              Windows, Linux, VNC, StorageBox, Snapshots, SnapshotPlan,
                              SubAccount, Template}
    BY <1>2
  <2>2. \A o \in operations : Plain(o)
    BY <2>1, PlainServices
  <2>. QED  BY <2>2, PlainMeans
<1>. QED  BY <1>1, <1>2
=============================================================================
