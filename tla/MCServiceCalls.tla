--------------------------- MODULE MCServiceCalls ---------------------------
(* Small instances of ServiceCalls: every service with its operations.     *)
EXTENDS ServiceCalls

MCValues == Inputs \cup {None, Ready, InProcess}

MCOperations ==
  [rdns |-> Rdns, failover |-> Failover, key |-> Key, ip |-> Ip, subnet |-> Subnet,
   server |-> Server, reset |-> Reset, wol |-> Wol, rescue |-> Rescue \cup Windows,
   install |-> Linux \cup VNC,
   storagebox |-> StorageBox, snapshots |-> Snapshots, snapshotplan |-> SnapshotPlan,
   subaccount |-> SubAccount, template |-> Template, vswitch |-> VSwitch,
   vswitchready |-> {o \in VSwitch : \/ o.form = Attach("x")
                                     \/ o.name = "WaitForVSwitchReady"}]

MCFields ==
  [rdns |-> {"ptr"}, failover |-> {"active_server_ip"}, key |-> {"name"},
   ip |-> {"mac", "traffic_warnings", "cancellation"},
   subnet |-> {"mac", "traffic", "cancellation"}, server |-> {"server_name", "cancellation"},
   reset |-> {"reset"}, wol |-> {"packet"}, rescue |-> {"rescue", "windows"},
   install |-> {"linux", "vnc"},
   storagebox |-> {"samba", "webdav", "password"},
   snapshots |-> {"newest", "snapshot"},
   snapshotplan |-> {"status", "minute", "max_snapshots"},
   subaccount |-> {"homedirectory", "readonly", "comment", "password", "newest"},
   template |-> {"template", "newest"},
   vswitch |-> {"name", "server", "cancelled", "newest", "status"},
   vswitchready |-> {"server", "status"}]

(* A resource is there or not; a vSwitch has a status.                     *)
MCInitial ==
  [s \in Services |->
     {[f \in MCFields[s] |-> IF f = "status" /\ s # "snapshotplan" THEN Ready ELSE v]
        : v \in {None, CHOOSE i \in Inputs : TRUE}}]

(* One user making two calls, or two users making one each; three calls of *)
(* one user for a few operations of the vSwitch.                           *)
Plan(a, b, c) == [i \in Calls |-> CASE i = 1 -> a [] i = 2 -> b [] i = 3 -> c]

MCPlans ==
  [s \in Services |-> IF s = "vswitchready" THEN {Plan("u", "u", "u")}
                      ELSE {Plan("u", "u", Nobody), Plan("u", "v", Nobody)}]
=============================================================================
