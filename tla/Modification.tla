---------------------------- MODULE Modification ----------------------------
(***************************************************************************)
(* The kinds whose update is more than the tags and one call.  Those that  *)
(* tie an object to objects of others: subnet, internet gateway, DHCP      *)
(* options and network ACL.  And an instance, changed one attribute at a   *)
(* time; a launch template, changed by new versions; a managed prefix      *)
(* list, changed under a version lock; a capacity reservation, changed in  *)
(* two calls.  The CR is of one of these kinds.                            *)
(***************************************************************************)
EXTENDS Subnet, InternetGateway, DHCPOptions, NetworkACL,
        Instance, LaunchTemplate, ManagedPrefixList, CapacityReservation

\* What a spec lists is finite, and it has the attributes of its kind.
ASSUME ModificationAssumption ==
  \A s \in Specs :
    /\ s.kind \in {"subnet", "internet_gateway"} => IsFiniteSet(s.tables)
    /\ s.kind = "dhcp_options" => IsFiniteSet(s.vpcs)
    /\ s.kind = "network_acl" => IsFiniteSet(s.entries) /\ IsFiniteSet(s.subnets)
    /\ s.kind = "subnet" => s.attrs \subseteq SubnetAttributes
    /\ s.kind = "instance" =>
         DOMAIN s.attrs = {InstanceAttributes[i] : i \in DOMAIN InstanceAttributes}

Reconcile ==
  \/ RuntimeStep
  \/ cr.spec.kind \in {"subnet", "internet_gateway"} /\ RouteTableAssociationStep
  \/ cr.spec.kind = "subnet" /\ SubnetStep
  \/ cr.spec.kind = "internet_gateway" /\ InternetGatewayStep
  \/ cr.spec.kind = "dhcp_options" /\ DHCPOptionsStep
  \/ cr.spec.kind = "network_acl" /\ NetworkACLStep
  \/ cr.spec.kind = "instance" /\ InstanceStep
  \/ cr.spec.kind = "launch_template" /\ LaunchTemplateStep
  \/ cr.spec.kind = "managed_prefix_list" /\ ManagedPrefixListStep
  \/ cr.spec.kind = "capacity_reservation" /\ CapacityReservationStep

\* EC2 goes on with what it was told.
Settle(i) ==
  \/ cr.spec.kind = "instance" /\ ec2[i] # Gone /\ InstanceSettles(i)
  \/ cr.spec.kind = "managed_prefix_list" /\ ec2[i].live /\ ManagedPrefixListSettles(i)

Fails ==
  \E i \in Live : cr.spec.kind = "managed_prefix_list" /\ ManagedPrefixListFails(i)

Drift ==
  \E i \in Live :
    \/ cr.spec.kind = "subnet" /\ SubnetDrift(i)
    \/ cr.spec.kind = "internet_gateway" /\ InternetGatewayDrift(i)
    \/ cr.spec.kind = "dhcp_options" /\ DHCPOptionsDrift(i)
    \/ cr.spec.kind = "network_acl" /\ NetworkACLDrift(i)
    \/ cr.spec.kind = "instance" /\ InstanceDrift(i)
    \/ cr.spec.kind = "launch_template" /\ LaunchTemplateDrift(i)
    \/ cr.spec.kind = "managed_prefix_list" /\ ManagedPrefixListDrift(i)
    \/ cr.spec.kind = "capacity_reservation" /\ CapacityReservationDrift(i)

Next == Reconcile \/ WorldStep \/ Drift \/ (\E i \in Ids : Settle(i)) \/ Fails

Spec     == Init /\ [][Next]_vars

\* Every CR is requeued, after an error and on the resync period; EC2 completes
\* what is pending.
FairSpec == Spec /\ WF_vars(Reconcile) /\ WF_vars(\E i \in Ids : Settle(i))

----------------------------------------------------------------------------
Exact(obj, spec) ==
  CASE spec.kind = "subnet"               -> SubnetIs(obj, spec)
    [] spec.kind = "internet_gateway"     -> InternetGatewayIs(obj, spec)
    [] spec.kind = "dhcp_options"         -> DHCPOptionsAre(obj, spec)
    [] spec.kind = "network_acl"          -> NetworkACLIs(obj, spec)
    [] spec.kind = "instance"             -> InstanceIs(obj, spec)
    [] spec.kind = "launch_template"      -> LaunchTemplateIs(obj, spec)
    [] spec.kind = "managed_prefix_list"  -> ManagedPrefixListIs(obj, spec)
    [] spec.kind = "capacity_reservation" -> CapacityReservationIs(obj, spec)

\* An update that reports success leaves what was declared, unless another
\* client interfered, an error was dropped or an outdated version read: although
\* an instance takes one attribute a pass, and a list changes later.
SyncedIsExact ==
  At("synced") /\ w.mode = "update" /\ ~w.interfered /\ ~w.blind =>
    Obj # Gone /\ Exact(Obj, w.spec)

\* What the spec of a pass declares and EC2 has, the pass does not take away:
\* a route table, the attached VPC, a VPC's options, an ACL's entry or subnet.
Ties(obj) ==
  IF ~obj.live THEN {}
  ELSE CASE w.spec.kind = "subnet"           -> obj.tables
         [] w.spec.kind = "internet_gateway" ->
              obj.tables \X {"table"} \cup ({obj.vpc} \ {NoVPC}) \X {"vpc"}
         [] w.spec.kind = "dhcp_options"     -> obj.vpcs
         [] w.spec.kind = "network_acl"      ->
              obj.entries \X {"entry"} \cup obj.subnets \X {"subnet"}
         [] OTHER                            -> {}

Declared ==
  CASE w.spec.kind = "subnet"           -> w.spec.tables
    [] w.spec.kind = "internet_gateway" ->
         w.spec.tables \X {"table"} \cup {w.spec.vpc} \X {"vpc"}
    [] w.spec.kind = "dhcp_options"     -> w.spec.vpcs
    [] w.spec.kind = "network_acl"      ->
         w.spec.entries \X {"entry"} \cup w.spec.subnets \X {"subnet"}
    [] OTHER                            -> {}

DeclaredTieStays ==
  [][ drifts' = drifts /\ w.mode = "update" /\ w.id # 0 =>
        Ties(Obj) \cap Declared \subseteq Ties(ec2'[w.id]) ]_vars

\* The comment of customUpdateInstance, taken at its word: without an error
\* "desired.Spec (now updated.Spec) reflects the latest resource state".
SuccessReflectsSpec ==
  At("synced") /\ w.mode = "update" /\ ~w.interfered => Obj.attrs = w.spec.attrs

\* A version of a launch template that repeats the one before has cost a fault
\* or another client's change: sdkFind reads back what sdkUpdate wrote.
NoNeedlessVersion ==
  cr.spec.kind = "launch_template" =>
    \A i \in Live :
      Cardinality({v \in 2 .. Len(ec2[i].data) : ec2[i].data[v] = ec2[i].data[v - 1]})
        <= faults + drifts

\* The version read locks a prefix list: a change of the controller that EC2
\* accepts leads to exactly the declared entries, whatever other clients did to
\* the list between the reads and the call.  It is no lock while EC2 makes the
\* list, for version 1 is then the version without and the one with its entries.
ChangeIsLocked ==
  [][ /\ Kind("managed_prefix_list") /\ Doing("modifyList")
      /\ w.seen.state # "create-in-progress" /\ drifts' = drifts
      /\ Obj.state # "modify-in-progress" /\ ec2'[w.id].state = "modify-in-progress"
      => ec2'[w.id].next = w.spec.entries ]_vars

\* What EC2 grants: a new type to an instance that is stopped only, a default
\* version that exists, and a name that no forgotten template has; a list either
\* new entries or a new size; to a cancelled reservation nothing.
Granted(spec) ==
  cr.id # 0 =>
    LET obj == ec2[cr.id]
    IN  CASE spec.kind = "instance" ->
               obj # Gone => obj.attrs.InstanceType = spec.attrs.InstanceType
          [] spec.kind = "launch_template" -> spec.default \in DOMAIN obj.data
          [] spec.kind = "managed_prefix_list" ->
               spec.entries = obj.entries \/ spec.max = obj.max
          [] spec.kind = "capacity_reservation" -> obj.live
          [] OTHER -> TRUE

\* Two entries of one number are refused by the controller, in every update.
Accepted(spec) == spec.kind = "network_acl" => Numbered(spec.entries)

\* After the last fault, edit and drift the object is as declared and the CR says
\* so, if controller and EC2 grant it and no template was lost with the reply of its
\* creation.  That holds although errors are dropped and reads taken for empty, for
\* a later pass sees the difference, and although a changed entry of an ACL, and a
\* subnet that leaves one, cost a failed pass each.
Converges ==
  <>[](/\ cr.phase = "live" /\ Granted(cr.spec) /\ Accepted(cr.spec)
       /\ cr.spec.kind = "launch_template" => Live \subseteq recorded
       => cr.synced /\ cr.id # 0 /\ ec2[cr.id] # Gone /\ Exact(ec2[cr.id], cr.spec))
=============================================================================
