-------------------------- MODULE AccountServices --------------------------
(***************************************************************************)
(* What the services of the account ask of the API, as data: for each      *)
(* service the operations a caller has, with the verb that carries them,   *)
(* what the API requires of the resource (the 404 and 409 answers of       *)
(* spec/robot.yaml) and the fields the request sets.  A field that is not  *)
(* set has the value None: the entry, the route, the cancellation or the   *)
(* MAC is absent.  Of fields that are treated alike one or two stand for   *)
(* the rest.                                                               *)
(***************************************************************************)
EXTENDS Functions

CONSTANT Inputs   \* the values a caller may pass, and Robot may generate

None == "none"
Generated == "generated"   \* the value is chosen by Robot and is in the answer
Nil == "nil"               \* a nil pointer in an input structure
InProcess == "in process"
Ready == "ready"

(***************************************************************************)
(* form is what the request sets, and names the fields its caller meant to *)
(* set.                                                                    *)
(***************************************************************************)
Op(name, verb, key, needs, form) ==
  [name |-> name, verb |-> verb, key |-> key, needs |-> needs, form |-> form,
   names |-> DOMAIN form]

Get(name, key, needs) == Op(name, "GET", key, needs, <<>>)

Unset(name, key) == Op(name, "DELETE", key, "present", [f \in {key} |-> None])

Set(name, verb, key, needs) ==
  {Op(name, verb, key, needs, [f \in {key} |-> v]) : v \in Inputs}

Generate(name, verb, key, needs) == Op(name, verb, key, needs, [f \in {key} |-> Generated])

(* Turned down by the client before anything is sent: a policy stub, or an *)
(* input that misses something.                                            *)
Rejected(name, key) == Op(name, "none", key, "any", <<>>)

(* The fields of an input structure that are not nil.                      *)
NonNil(in) == Restrict(in, {f \in DOMAIN in : in[f] # Nil})

PartialInputs(fields) == [fields -> Inputs \cup {Nil}]

-----------------------------------------------------------------------------
Rdns ==
  Set("Create", "PUT", "ptr", "absent") \cup Set("Update", "POST", "ptr", "any")
    \cup {Unset("Delete", "ptr"), Get("Get", "ptr", "present"), Get("List", "ptr", "any")}

(* Deleting the routing of an address that has none is not an error.       *)
Failover ==
  Set("Update", "POST", "active_server_ip", "any")
    \cup {Op("Delete", "DELETE", "active_server_ip", "any", [active_server_ip |-> None]),
          Get("Get", "active_server_ip", "any")}

Key ==
  Set("Create", "POST", "name", "absent") \cup Set("Rename", "POST", "name", "present")
    \cup {Unset("Delete", "name"), Get("Get", "name", "present")}

(* CancelIP is disallowed by policy; an address of the wrong length is     *)
(* rejected by every method that takes one.                                *)
Ip ==
  Set("SetTrafficWarnings", "POST", "traffic_warnings", "any")
    \cup {Generate("SetMAC", "PUT", "mac", "absent"), Unset("DeleteMAC", "mac"),
          Get("GetMAC", "mac", "present"), Unset("WithdrawIPCancellation", "cancellation"),
          Rejected("CancelIP", "cancellation")}

(* Update sends its four fields always, so one value stands for them.  The *)
(* subnet's MAC has a default to which DeleteMAC reverts.                  *)
Subnet ==
  Set("Update", "POST", "traffic", "any") \cup Set("SetMAC", "PUT", "mac", "any")
    \cup {Op("DeleteMAC", "DELETE", "mac", "any", [mac |-> None]),
          Unset("WithdrawCancellation", "cancellation"), Rejected("Cancel", "cancellation"),
          Get("GetMAC", "mac", "any")}

Server ==
  Set("SetName", "POST", "server_name", "any")
    \cup {Unset("WithdrawCancellation", "cancellation"),
          Rejected("RequestCancellation", "cancellation"), Get("Get", "server_name", "any")}

(* A reset and a magic packet happen; the field remembers the last one.    *)
Reset == Set("Execute", "POST", "reset", "any") \cup {Get("Get", "reset", "any")}

Wol == Set("Send", "POST", "packet", "any") \cup {Get("Get", "packet", "any")}

-----------------------------------------------------------------------------
(* What each way to boot cannot do without.                                *)
Required(mode) ==
  CASE mode = "rescue"          -> {"os"}
    [] mode \in {"linux", "vnc"} -> {"dist", "lang"}
    [] mode = "windows"         -> {"lang", "os"}

(* The answer to an activation has the password.                           *)
Activate(mode, given) ==
  IF Required(mode) \subseteq given
  THEN Generate("Activate", "POST", mode, "any")
  ELSE Rejected("Activate", mode)

Deactivate(mode) == Op("Deactivate", "DELETE", mode, "any", [f \in {mode} |-> None])

Mode(m) == {Activate(m, given) : given \in SUBSET {"os", "dist", "lang"}}
             \cup {Deactivate(m), Get("Get", m, "any")}

Rescue == Mode("rescue")
Linux == Mode("linux")
VNC == Mode("vnc")
Windows == Mode("windows")

-----------------------------------------------------------------------------
(* Update: "Pointer fields are only sent when non-nil".                    *)
UpdateFormZeroes(in) == [f \in DOMAIN in |-> IF in[f] = Nil THEN None ELSE in[f]]

UpdateForm(in) == NonNil(in)

(* A request whose form is built from a structure: its caller names what   *)
(* is not nil.                                                             *)
Structured(name, verb, key, needs, in, form) ==
  [Op(name, verb, key, needs, form) EXCEPT !.names = DOMAIN NonNil(in)]

(* An empty password lets Robot generate one.                              *)
ResetPassword(name, key, needs) ==
  {Op(name, "POST", key, needs, [password |-> p]) : p \in Inputs \cup {Generated}}

StorageBox ==
  {Structured("Update", "POST", "samba", "any", in, UpdateForm(in))
     : in \in PartialInputs({"samba", "webdav"})}
    \cup ResetPassword("ResetPassword", "password", "any") \cup {Get("Get", "samba", "any")}

(* The comment of a snapshot that is there, and the name of the newest one *)
(* Restoring changes the content of the box, which is left out.            *)
Snapshots ==
  Set("SetSnapshotComment", "POST", "snapshot", "present")
    \cup {Generate("CreateSnapshot", "POST", "newest", "any"),
          Unset("DeleteSnapshot", "snapshot"),
          Op("RestoreSnapshot", "POST", "snapshot", "present", <<>>),
          Get("ListSnapshots", "newest", "any")}

(* Nil time fields are left out; status and max_snapshots are always sent. *)
PlanForm(status, max, times) ==
  [f \in {"status", "max_snapshots"} \cup DOMAIN NonNil(times) |->
     CASE f = "status" -> status
       [] f = "max_snapshots" -> max
       [] OTHER -> times[f]]

SnapshotPlan ==
  {Op("SetSnapshotPlan", "POST", "status", "any", PlanForm(s, m, t))
     : s \in Inputs, m \in Inputs, t \in PartialInputs({"minute"})}
    \cup {Get("GetSnapshotPlan", "status", "any")}

(* The answer of both is a list with the plan; an empty one is an error.   *)
EmptyAnswer(name) == IF name \in {"SetSnapshotPlan", "GetSnapshotPlan"} THEN "failed" ELSE "ok"

SubAccountForm(in) == NonNil(in)

(* Robot chooses the user name of a new sub-account; the others are about  *)
(* one that is there, and a password of the input is ignored by Update.    *)
SubAccount ==
  {Structured("UpdateSubAccount", "PUT", "homedirectory", "present", in, SubAccountForm(in))
     : in \in PartialInputs({"readonly", "comment"})}
    \cup ResetPassword("ResetSubAccountPassword", "homedirectory", "present")
    \cup {Generate("CreateSubAccount", "POST", "newest", "any"),
          Unset("DeleteSubAccount", "homedirectory"), Get("ListSubAccounts", "newest", "any")}

-----------------------------------------------------------------------------
(* A template of firewall rules is replaced whole; one with too many rules *)
(* is not sent.                                                            *)
Template ==
  Set("UpdateTemplate", "POST", "template", "present")
    \cup {Generate("CreateTemplate", "POST", "newest", "any"),
          Rejected("CreateTemplate", "newest"), Rejected("UpdateTemplate", "template"),
          Unset("DeleteTemplate", "template"), Get("GetTemplate", "template", "present")}

-----------------------------------------------------------------------------
(***************************************************************************)
(* A vSwitch and one server of it.  Its name and VLAN are always sent      *)
(* together.  "The API returns VSWITCH_IN_PROCESS errors if operations are *)
(* attempted while the vSwitch is processing" (vswitch.go:185), and adding *)
(* or removing a server makes it process.                                  *)
(***************************************************************************)
Attach(v) == [server |-> v, status |-> InProcess]

WaitForVSwitchReadyHasty == Get("WaitForVSwitchReady", "status", "any")

WaitForVSwitchReady == Get("WaitForVSwitchReady", "status", "settled")

VSwitch ==
  Set("Create", "POST", "newest", "any") \cup Set("Delete", "DELETE", "cancelled", "absent")
    \cup {Op("Update", "POST", "status", "settled", [name |-> v]) : v \in Inputs}
    \cup {[Op("AddServers", "POST", "status", "settled", Attach(v)) EXCEPT !.names = {"server"}]
          : v \in Inputs}
    \cup {[Op("RemoveServers", "DELETE", "status", "settled", Attach(None))
             EXCEPT !.names = {"server"}],
          WaitForVSwitchReady, Get("Get", "status", "any")}
=============================================================================
