------------------------------ MODULE Responses ------------------------------
(***************************************************************************)
(* What the client makes of a response body (client.go, errors.go): the    *)
(* envelope that unwrapResponse strips from a successful one, and the      *)
(* error that errorFromResponse reads from any other.                      *)
(*                                                                         *)
(* A JSON value is a scalar, an object (a function from its keys) or an    *)
(* array.  json.RawMessage starts at the first byte of the value, so the   *)
(* tests of that byte in the code are tests of the type.                   *)
(***************************************************************************)
EXTENDS Integers, Sequences, FiniteSets

Scalar == [type |-> "scalar"]

Object(fields) == [type |-> "object", fields |-> fields]

Array(items) == [type |-> "array", items |-> items]

Composite(v) == v.type \in {"object", "array"}

-----------------------------------------------------------------------------
(* An object whose only field holds an object or an array, and that field. *)
HasOneField(v) == v.type = "object" /\ Cardinality(DOMAIN v.fields) = 1

OnlyKey(v) == CHOOSE k \in DOMAIN v.fields : TRUE

Inner(v) == v.fields[OnlyKey(v)]

IsObjectWrapper(v) == HasOneField(v) /\ Inner(v).type = "object"

IsWrapper(v) == HasOneField(v) /\ Composite(Inner(v))

UnwrapObject(v) ==
  IF "id" \notin DOMAIN v.fields /\ IsWrapper(v) THEN Inner(v) ELSE v

(* A list is unwrapped if all of its elements are wrappers with one key.   *)
WrappedList(items) ==
  /\ \A i \in DOMAIN items : IsWrapper(items[i])
  /\ \A i, j \in DOMAIN items : OnlyKey(items[i]) = OnlyKey(items[j])

UnwrapArray(v) ==
  IF v.items # <<>> /\ WrappedList(v.items)
  THEN Array([i \in DOMAIN v.items |-> Inner(v.items[i])])
  ELSE v

(* unwrapResponse, of a body that is valid JSON without leading blanks.    *)
Unwrap(v) == CASE v.type = "object" -> UnwrapObject(v)
               [] v.type = "array"  -> UnwrapArray(v)
               [] v.type = "scalar" -> v

-----------------------------------------------------------------------------
(***************************************************************************)
(* The body of an answer that is not 2xx, by what the decoder meets:       *)
(*   invalid    not JSON, or JSON that is neither an object nor null       *)
(*   noError    an object without the key error, or null                   *)
(*   null       the error is null                                          *)
(*   wrong      the error is not an object, or its status or message has   *)
(*              the wrong type                                             *)
(*   detail     an object with a code and a status (0 when left out)       *)
(* A code is a string, or absent, null, or of another type ("other").      *)
(***************************************************************************)
Absent == "absent"
NullCode == "null"
OtherType == "other"

Unknown == "UNKNOWN"    \* ErrUnknown
NoCode == "noCode"      \* the empty ErrorCode

(* APIErrorDetail.UnmarshalJSON, of the code.  A JSON null decodes into    *)
(* the empty string without an error.                                      *)
DecodeCode(code) == CASE code \in {Absent, OtherType} -> Unknown
                      [] code = NullCode              -> NoCode
                      [] OTHER                        -> code

ErrorKept(code, status, httpStatus) == [code |-> code, status |-> status]

Error(code, status, httpStatus) ==
  [code |-> code, status |-> IF status = 0 THEN httpStatus ELSE status]

(* The Alias pattern decodes null into the pointer aux, which is then      *)
(* dereferenced.                                                           *)
Panic == [code |-> "panic", status |-> 0]

ErrorFromResponse(httpStatus, body) ==
  CASE body.form \in {"invalid", "wrong"} -> Error(Unknown, 0, httpStatus)
    [] body.form = "noError"              -> Error(NoCode, 0, httpStatus)
    [] body.form = "null"                 -> Panic
    [] body.form = "detail"               -> Error(DecodeCode(body.code), body.status, httpStatus)

-----------------------------------------------------------------------------
(***************************************************************************)
(* The two predicates that accept the same code from the client's own      *)
(* checks as from the API; the others ask for the API.                     *)
(***************************************************************************)
IsUnauthorizedError(kind, error) == error.code = "UNAUTHORIZED"

IsFirewallRuleLimitExceededError(kind, error) ==
  error.code = "FIREWALL_RULE_LIMIT_EXCEEDED"

(* validateCredentials and validateInputRuleCount.                         *)
CredentialsError == [code |-> "UNAUTHORIZED", status |-> 401]

RuleLimitError == [code |-> "FIREWALL_RULE_LIMIT_EXCEEDED", status |-> 409]
=============================================================================
