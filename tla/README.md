# EC2 controller: specifications, model checking and proofs

The EC2 controller of AWS Controllers for Kubernetes (ACK) watches custom
resources (CRs) such as `SecurityGroup`, `RouteTable` or `VPC` and drives EC2 to
what they declare. This directory specifies its reconcilers in TLA+, checks them
with TLC on small instances, and proves the main results with TLAPS for every
instance. Paths below are relative to `src/`.

## 1. The system

### 1.1 Parts and state

| Part | Where | State | Operations |
|---|---|---|---|
| resource manager, one per kind | `pkg/resource/<kind>/{sdk,hooks,manager}.go` | none of its own: the CR (spec, status, conditions, finalizer) in the API server, the object in EC2, the locals of the running pass | `ReadOne`/`sdkFind`, `Create`/`sdkCreate`, `Update`/`customUpdate*`, `Delete`/`sdkDelete`, `onError`/`onSuccess` |
| tags | `pkg/tags/sync.go` | none | `ComputeTagsDelta`, `Sync` |
| delta | `pkg/resource/<kind>/delta.go` and the `customPre/PostCompare` hooks | none | field-by-field comparison of desired and latest |
| references | `pkg/resource/<kind>/references.go` | none | replaces `*Ref` fields by the ids found in other CRs |
| registry, flags, types | `pkg/resource/registry.go`, `cmd/controller`, `apis` | fixed at start-up | registration |
| ACK runtime | not in this repository | work queue | finalizer, call order, status patch, requeue, resync |
| EC2 | not in this repository | the objects | the calls in `sdkapi` |

The twenty kinds differ a lot in how much logic is their own. `security_group`
(rules as sets that EC2 normalises), `vpc` (CIDR associations that EC2 works on
in the background, default rules of another object), `route_table`,
`network_acl`, `instance`, `subnet` and `internet_gateway` (associations),
`launch_template`, `managed_prefix_list`, `vpc_peering_connection`,
`vpc_endpoint` and `vpc_endpoint_service_configuration` have logic in
`hooks.go`; `nat_gateway`, `transit_gateway`, `transit_gateway_vpc_attachment`
wait for a state; `dhcp_options` associates with VPCs; `capacity_reservation`
is changed by two calls; `egress_only_internet_gateway`, `elastic_ip_address`
and `flow_log` are generated code with hardly a hook. Every kind is modelled.

### 1.2 How the parts interact

A pass of the reconciler over one CR:

1. the runtime resolves references and calls `ReadOne`, which describes the
   object by the id in the status (the security group also by name);
2. `NotFound` leads to `Create`, after the finalizer was put on the CR, or, for a
   CR that is being deleted, to the removal of the finalizer;
3. otherwise the delta of desired and latest decides whether `Update` is called,
   and `Update` turns the parts that differ into AWS calls, one after another;
4. at the end, in success and in failure, the status of the object in hand is
   patched into the CR. `onError` is given the object the operation returned
   or, if it returned nil, the one the runtime called it with.

There are no locks and no shared memory between passes over one CR, since one
worker serves a CR at a time. What runs concurrently is everything else: the
passes over other CRs, which this one may refer to, users who edit and delete the CR, other AWS clients that change the object, EC2, which finishes
what it accepted, and the controller itself, which stops at any point and begins
again from what the API server and EC2 hold.

### 1.3 What is hard

- **Crash and lost replies.** An object exists in EC2 before its id is recorded.
  A kind without a unique name (route table, VPC, gateway) cannot find it again.
- **One of several calls fails.** Every update is a list of calls with an early
  return; the next pass must be able to plan from what is there.
- **Read, then act.** The plan is made from one read and carried out over many
  calls, in which the object may change.
- **Errors that are dropped.** Several helpers shadow or swallow an error, and
  what was not read is taken for absent.
- **EC2's own form of the data.** What is read back is not what was sent.
- **Order.** Delete before create, or the call is refused; never delete what stays.
- **Retry and wait.** Requeue while EC2 works; a pass must not end as synced early.

PROJECT.json lists these hazards line by line, with the properties that state
that they do not bite (or runs that show that they do).

### 1.4 What makes each part correct

| Part | Correctness |
|---|---|
| every kind | no object outlives its CR; never two objects; the finalizer goes last; a deleted CR goes away; a live one comes to what it declares and says so |
| security_group | a pass that ends synced leaves exactly the declared permissions and tags; nothing is authorized twice; respelled rules cause no traffic |
| route_table | the same for routes; a route that stays is never taken away; the local and AWS-managed routes are never touched |
| vpc | the same for CIDRs and attributes; a declared CIDR is never disassociated; the default rules go only on demand; not synced before EC2 is done |
| network_acl | every rule number at most once per direction; a changed entry is replaced, not lost; a subnet is moved back to the default ACL, never left without one |
| subnet, internet_gateway | at most one association per subnet; the plan converges after any prefix of its calls |
| instance | every attribute is set in the end, one per pass; a terminated instance is replaced once |
| managed_prefix_list | entries are changed only against the version read |
| launch_template | a default version is never set to one that was not created |
| dhcp_options | every declared VPC uses the options in the end, no other one does |
| capacity_reservation | what the two calls change is as declared after a success |
| gateways, attachments, peerings, endpoints, services | success is not reported early where the code means to wait; waiting ends; a deletion is not lost in it |
| references | CRs that name one another do not wait for ever, whether they come or go |
| tags | after `Sync` the tags are those desired, after a part of it a second `Sync` completes them |

## 2. Modules

| Module | Models | Built on |
|---|---|---|
| `Lifecycle` | what any resource manager promises of one CR and its AWS object | – |
| `SecurityGroup` | `security_group/{hooks,sdk}.go` | implements `Lifecycle` |
| `SecurityGroup_proofs` | theorems about `SecurityGroup` | extends it and TLAPS |
| `RouteTable` | `route_table/{hooks,sdk}.go` | implements `Lifecycle` |
| `VPC` | `vpc/{hooks,sdk}.go` | implements `Lifecycle` |
| `Controller` | the frame of the other kinds: CR, objects, worker, outcomes of a call, `manager.go`, runtime, user | implements `Lifecycle` |
| `RouteTableAssociation` | what `subnet` and `internet_gateway` share | `Controller` |
| `Subnet`, `InternetGateway` | `subnet`, `internet_gateway` | `RouteTableAssociation` |
| `DHCPOptions`, `NetworkACL`, `Instance`, `LaunchTemplate`, `ManagedPrefixList`, `CapacityReservation` | the kind of that name | `Controller` |
| `AwaitedObject` | objects that EC2 makes, changes and deletes in its own time | `Controller` |
| `PendingGateway` | `nat_gateway`, `transit_gateway` | `AwaitedObject` |
| `TransitGatewayVPCAttachment`, `VPCPeeringConnection`, `VPCEndpoint`, `VPCEndpointServiceConfiguration` | the kind of that name | `AwaitedObject` |
| `PlainObject` | `elastic_ip_address`, `egress_only_internet_gateway`, `flow_log` | `Controller` |
| `Modification` | composes the kinds whose update is the difficulty, with their properties | the eight kinds from `Subnet` to `CapacityReservation` |
| `Provisioning` | composes the kinds that EC2 provides in its own time, and the plain ones | the nine others |
| `References` | several CRs that refer to one another, a worker each | implements `Lifecycle` for each CR |
| `References_proofs`, `RouteTable_proofs`, `VPC_proofs` | theorems about the module of that name | extends it and TLAPS |
| `Controller_proofs` | lemmas about the frame, for whatever kind | extends `Controller` and TLAPS |
| `Modification_proofs`, `Provisioning_proofs` | theorems about the kinds composed there | extend that module and `Controller_proofs` |
| `Versions_proofs` | theorems about the versions of a launch template and of a managed prefix list, what an update leaves, and types, for all eight kinds | `Modification_proofs` |
| `MC*` | instances for TLC | extend the module they instantiate |

### 2.1 Conventions

All reconcilers have the same frame.

- `cr` is the CR as the API server has it: `phase`, `managed` (the finalizer),
  `id` (in the status), `synced` (the condition), and its spec.
- `w` is the worker; `w.pc` says where in the code the pass stands, the other
  fields are the locals that survive from one AWS call to the next. The desired
  object is copied into `w` when the pass begins, so that an edit of the CR
  during a pass is not seen before the next one.
- **One action is one AWS call, or one write to the API server**, with the local
  code that leads to the next call. Actions carry the names of the Go functions
  or of the AWS calls. Where a name occurs in every kind (`sdkFind`), the kind is
  appended (`sdkFindSubnet`).
- `Call` is a call EC2 accepts. It has three outcomes: it takes effect, it is
  refused for a passing reason and has none, or it takes effect and the reply is
  lost. The last two count as faults. A call that EC2 refuses because of its
  state fails every time and is no fault.
- `Crash` drops the worker: the controller stops, or its last status patch is
  lost. `ReadFails` or `Unread` is a failed describe call.
- `EditSpec`, `DeleteCR`, `RecreateCR` are the user; `*Drift` (and `Attach` in
  `SecurityGroup`) are other AWS clients, `*Settles` and `*Fails` EC2 itself.
- `w.interfered` (another client changed the object during this pass) and
  `w.blind` (the pass dropped an error or used something out of date) are history
  variables that only properties read.
- `MissingIsError` chooses what describing a dead id does: an error code that
  `sdkFind` does not know (what EC2 does for these kinds), or an empty list.
- `Definition_suffix` with a comment `mutant of Definition` is the same
  definition with a plausible bug. It belongs to no specification; PROJECT.json
  pairs each property with one, to show that the property can fail.

### 2.2 SecurityGroup

A permission is a pair of a key (direction, protocol, ports) and a grant (CIDR,
prefix list or group). EC2 stores a set of permissions; a rule of the spec is a
key with a set of grants, in EC2's spelling or in another one. This keeps what
the code is careful about: the delta compares canonical forms
(`customPostCompare` → `RulesDiffer`), while `syncSGRules` plans with the raw
rules (`containsRule` → `toDelete`, `toAdd`), sends `BatchSize` of them per
call, ingress before egress and revocations before authorizations.
`DefaultPerm` is the egress permission of a fresh group; `RefGrant` a grant to
another group by `GroupRef`, which canonicalizes to a self-reference while it
is unresolved; `BadKeys` have a port outside int32, which stops the conversion
of a whole direction. `getSecurityGroupID` looks the group up by name.

Left out: `Status.Rules` (nothing reads it), immutable fields, lists in which a
permission occurs twice (EC2 refuses them whole), a delay between a change in
EC2 and its visibility to reads.

### 2.3 RouteTable

A route is a pair of a destination and a target. EC2 holds at most one route per
destination, refuses targets that do not exist (`BadTargets`), and keeps the
local route and the routes of gateway endpoints (`AWSPrefixes`) from deletion.
`tables` holds every table created for the CR and `recorded` the ids that ever
reached the status, since the id is all that ties a table to the CR.
`excludeFromLatest` and `excludeFromDesired` are the two look-ups of
`excludeAWSRoute`, of which each may fail unnoticed.

Left out: `Status.RouteStatuses`; specs in a form other than EC2's; the order of
routes. A table with an AWS-managed route has a delta in every pass, as in the
code, and an empty plan. `DeleteRouteTable` refused because of an association
is an ordinary failed call.

### 2.4 VPC

For every CIDR a VPC has one association that is `associating`, `associated` or
`disassociating`, or none, and possibly a dead entry that DescribeVpcs still
lists. `Settle` is EC2's background work. `rules` are the two rules of the
default security group. `setSpecCIDRs` reads every listed entry, dead or alive,
which `toAddOf` and `toDeleteOf` plan from; `readRules` is the end of `sdkFind`
with its requeue while a CIDR is in transition; `cidrsFailed` is the error that
`sdkCreate` drops and `customUpdateVPC` returns. `LateInitialize` (`manager.go`) reads
the VPC again after every create and update that went well. Of the fields in the module
it keeps none, but the requeue of that `sdkFind` sets the synced condition to false:
`AssociateVpcCidrBlock` answers before the association is done, and it is this second
read that waits for it.

Left out: IPv6 associations, the states `failing` and `failed`, the contents of
`Status.CIDRBlockAssociationSet` after an update (overwritten by the next read),
the order of the attributes. Whether EC2 accepts the disassociation of a dead
entry is left open: both happen.

### 2.5 Controller and the kinds built on it

Seventeen kinds differ only in their objects and in a few functions, and so do
their modules. In `Controller`, `ec2` maps ids to objects, `recorded` has the ids that
ever reached a status, and `w.plan` is the list of calls an update has still to
make, each an operation with an argument: `customUpdate*` of a kind computes it
from `w.spec` (desired) and `w.seen` (latest), one action per operation carries
out its head, `finish` ends the pass as `w.end` says. Where Go iterates over a
set whose order no property depends on, `ForEach` takes any order. `onError`
distinguishes the error of a create, reported on the CR as it was (the id is
lost), from that of an update, reported on the latest object.

| Module | What is kept of the kind |
|---|---|
| `RouteTableAssociation`, `Subnet`, `InternetGateway` | tables to associate and to leave, deletions first; a failed read taken for no associations; the attributes of a subnet (two for seven); attach and detach of a gateway |
| `DHCPOptions` | VPCs to associate and to give back to the default options, with the errors dropped by create, update and delete |
| `NetworkACL` | entries by number, two of one number refused, associations; the entry in both `toDelete` and `toUpdate`; the default ACL a subnet is given back to; the errors `sdkCreate` drops |
| `Instance` | EC2's states, four of ten attributes (never reported, changed only when stopped, set at launch, changed later), one attribute a pass, termination |
| `LaunchTemplate` | versions, the recorded latest version, the deferred change of the default version and the error it overwrites, the update that returns no object, the patch of the spec after a create |
| `ManagedPrefixList` | the version lock, the state EC2 works in, entries it applies later, tags that need no lock |
| `CapacityReservation` | the two modify calls, the information that is never reported, the cancelled reservation that is still described |
| `PendingGateway` | `sdkFind` while pending (neither object nor `NotFound`), failed and deleted gateways |
| `TransitGatewayVPCAttachment` | subnets to add and to remove, with `toRemove = append(toAdd, …)`; waits |
| `VPCPeeringConnection` | initiate, accept, options of either side that always differ, tags |
| `VPCEndpoint` | the subnets of a pending, available or failed endpoint; the security groups, read into the status and compared with themselves; the update that returns the desired object |
| `VPCEndpointServiceConfiguration` | principals, acceptance and tags, changed only when available |
| `PlainObject` | create, tags, delete; the flow log that is not made without an error |

Where one of several fields of the same call stands for all of them, the head of
the module says so.

### 2.6 References

Which kinds wait for which is read from each kind's `ResolveReferences`
(`AwaitedKinds`). Several CRs, each with a worker of its own, run at a time: a pass
resolves its references and goes on with the ids found, while the CRs they came
from are synced, deleted or made anew. `awaited` references have to be synced and
have an id (`getReferencedResourceState_VPC`); `groups`, the `GroupRef`s of a
security group's rules, have only to exist
(`getReferencedResourceState_SecurityGroup`), so that groups can name one
another. A failed resolution ends a pass, but not that of a CR being deleted:
its object is found by id, or, a security group without an id, by the name and the
VPC, if that resolved. EC2 refuses to delete what another object uses. What a pass
does inside one object is left to the other modules: a rule is the group it names.
One worker per CR is more than the controller's default of one per kind.

### 2.7 Lifecycle

Two variables: `claimed` (the finalizer) and `objects`. An object is made only
under the claim and only when there is none; the claim is released only when
there is none; objects may vanish. `SecurityGroup` implements it with the group
itself. All the others implement it for the objects whose id was
recorded: those whose id was lost are orphans, as the run `rt_orphan` shows, and no
specification with that promise would be true of them. `OrphanNeedsFault` bounds
their number for the kinds of `Controller`. (`sdkCreate` of `vpc` returns nil in
the same way when an attribute cannot be set.) In `References` the step part is
stated for all CRs in one formula.

## 3. Model checking

Symmetry is not used: the model values play different parts.

| Run | Result | Question |
|---|---|---|
| `security_group` | passes, 1.5 min | Does a pass that ends synced leave the declared state, without duplicates or needless changes, without orphans, as `Lifecycle` demands, and do CRs settle and go away? |
| `route_table` | passes, 0.5 min | The same for routes; the plan is permitted, routes that stay are not touched |
| `vpc` | passes, 489 000 states, 1.2 min | CIDRs, attributes, tags, default rules: exact when synced, and no CIDR in transition then; nothing declared is taken away; the CIDRs converge under EC2's background work; deletion completes |
| `modification` | passes, 651 000 states, 2.2 min | For the eight kinds of `Modification`: exact when synced, what is declared and in place stays, versions are not needless and lock, orphans cost a fault, the passes converge |
| `provisioning` | passes, 682 000 states, 2 min | For the nine kinds of `Provisioning`: the same while EC2 makes, changes, fails and forgets the object |
| `references` | passes, 547 000 states, 2 min | A VPC and two security groups that name one another: no circular wait, exact when synced, all come to exist and all go, in whatever order |
| `sg_delete_stuck` | violated | A deleted CR goes away: one lost reply leaves it in deletion for ever |
| `sg_unresolved_ref` | violated | An unresolved `GroupRef` is taken for a self-reference that is in place |
| `rt_orphan` | violated | A refused route makes every retry create another table |
| `vpc_rules_stuck` | violated | After a failure between the two revocations the ingress rule stays for ever |
| `instance_protected` | violated | The termination protection of an instance is never switched off, in a pass that succeeds |
| `attachment_subnets` | violated | Of two subnets that are to leave an attachment one stays, in a pass that succeeds |

Each violated run checks one sentence of a comment or a test of the repository,
quoted with its place in PROJECT.json under `findings`.

### 3.1 Properties

`SyncedIsExact` is the central one in every module: a pass that ends without an
error leaves in EC2 exactly what the pass started from, unless another client
interfered. Its exceptions name the holes of the code, each of which is needed:

- `SecurityGroup`: a reference is unresolved (`sg_unresolved_ref`), or the owner
  account is not in the status, as after a crash behind `CreateSecurityGroup`:
  the pass that finds the group by name skips the comparison and ends synced
  with the default rules; `Converges` shows that a later pass repairs them;
- `RouteTable`: a prefix-list look-up failed: routes to prefix lists vanish from
  one of the two lists, and a declared route may be deleted in a pass that succeeds;
- `VPC`: dead entries were read (a CIDR declared again soon after its removal is
  taken for associated), or `DescribeSecurityGroupRules`
  failed, which `hasSecurityGroupDefaultRules` takes for a group without rules.
  The property is about creates too: what they report synced has no CIDR in
  transition either, but may lack one whose association `sdkCreate` could not ask for;
- the kinds of `Controller`: `w.blind`, set where the code drops an error or a
  condition or relies on something out of date (a failed `DescribeRouteTables`, the
  dropped errors of `AssociateDhcpOptions`, a state recorded by an earlier pass, an
  endpoint that `sdkFind` found pending and an update reports synced, …). `Exact` leaves
  out what the code never reads: the termination protection of an instance
  (`instance_protected`), the additional information of a reservation, the security
  groups of an endpoint (`sdkFind` puts them in `Status.Groups` only, so an edit is
  compared with itself, never sent, and reported synced), the
  options of a peering, and the subnets of an attachment that need more than
  `compareSubnetIDs` can do (`attachment_subnets`) are not in the instance.

`NeverDuplicate` and `NeverCollide` say that the delete-before-create order never
lets EC2 refuse the second half. `NoSpuriousChange`, `DeclaredRouteStays`,
`DeclaredCIDRStays`, `DeclaredTieStays` say what a step may never do. A declared route
may be lost in one case: `DeleteRoute` names a destination only, so that when another
client has put the declared route in the place of the one that was read and is to go,
the controller deletes it unseen (and creates it again). It takes two changes by other
clients, one that puts the wrong route there before the read and one that corrects it
after, more than the run allows; the proof found it. `PlanIsPermitted` keeps the plan from calls that would fail every pass.
`NoNeedlessVersion` says that a launch template that does not change gets no
version, `ChangeIsLocked` that EC2 never applies entries planned from an older
version. `NoOrphan`, `OrphanNeedsFault` and `ImplementsLifecycle` tie the object to the CR. `NoCircularWait` is about the CRs
that wait for one another.

`Converges`, `CIDRsConverge`, `DeletionProceeds` and `DeletionCompletes` are the
liveness properties. `Granted` in `Modification` and `Provisioning` is what EC2 or
the code makes impossible and what a user would have to undo: an instance's type
changes only when it is stopped and blocks the attributes after it; new entries
and a new size of a prefix list together are refused for ever; a cancelled
reservation and a failed gateway are never made anew; a default version has to
exist. `Accepted` leaves out the ACL with two entries of one number, whose every update
is refused, although `sdkCreate` made it; the instance has one. `DeletionProceeds` excepts the CR whose object went first, since most
`sdkFind`s take the error code EC2 gives then for a failure (`sg_delete_stuck` shows
it for one kind). In `References` it further excepts that an object nobody knows
keeps another in use: a group whose creation lost its reply, and whose VPC no
longer resolves when the CR is deleted, is not looked up by name and left behind.

### 3.2 Bounds

- `MaxFaults = 1`: one failed call, lost reply or crash, at any point. The code
  keeps nothing between passes but the CR and EC2, so that a second fault meets a
  pass that began from a state the first one could have left. What is proved (section 4) has no such bound.
- `MaxEdits = 1`, `MaxDrifts = 1`: one change of the spec (or re-creation of the
  CR) and one change by another client, at any point, together with the fault.
  In `References` `MaxEvents = 1` allows one of a fault, an edit or a re-creation,
  with any number of deletions: three workers make the interleavings.
- `MaxTables = 5`, `MaxVPCs = 4`, `MaxObjects = 4`: creation does not stop for want
  of an id within these faults and edits, each of which costs at most one object.
  The runs that expect a violation use the smallest values that show it.
- Data: two or three rule lists, route lists, CIDR sets or specs of a kind that
  differ by an addition, a removal, a change or a respelling, and lists that EC2
  refuses. `BatchSize` is 2 (1 in the violated runs) instead of 1000, so that a
  list needs several calls and a fault can fall between two.
- In `References` a circle of two groups is the shortest, and a longer one adds no
  case: a pass looks at the CRs it names only. `MCSpecs` has no group that names
  itself besides, which `sg_unresolved_ref` is about.

### 3.3 Fairness

`WF(Reconcile)`, in `References` for each CR: the runtime requeues a CR after an
error and resyncs it periodically, and one worker takes it from the queue, so that a
step of a pass that can be taken is taken in the end. `WF(Settle)`: EC2
goes on with what it began, for one object after the other. `WF(Detach)` and `WF(RefBecomesReady)` in `SecurityGroup`:
what refers to a group is removed in the end, and the group a `GroupRef` names gets
an id; without them a deletion or a rule may rightly wait for ever; `References` has
no such assumption, since there the other CR has a worker. Users, other clients,
failures of EC2, faults and crashes have no fairness: they may happen or not, and by
their bounds stop in the end. Deadlock is not checked, because when the CR is gone
and no edit is left nothing remains to be done.

## 4. Proofs

### 4.1 SecurityGroup

`SecurityGroup_proofs`, for every set of keys, grants, tags and rule lists, every
batch size and any number of faults, edits and drifts:

| Theorem | Assuming | Says |
|---|---|---|
| `TypeCorrect` | – | `[]TypeOK` |
| `NoOrphanCorrect` | `MissingIsError` | `[]NoOrphan` |
| `LifecycleCorrect` | `MissingIsError` | `Spec => ImplementsLifecycle` |
| `NoSpuriousChangeCorrect` | – | permissions change in an update only if those read differ from those declared |
| `ExactCorrect` | – | `[]SyncedIsExact` |
| `NeverDuplicateCorrect` | – | `[]NeverDuplicate` |
| `PlanExact` (lemma) | – | the raw plan, from any permissions read and any well-formed list, removes and adds exactly what is needed, without overlap |

The assumptions on constants are `ConstantsAssumption`, which TLC evaluates in
every run. `MissingIsError` is needed for the ownership results: if a dead id
read as an empty list, a pass that starts from a stale id could take a live
group with another id for gone and release the CR.

*Ownership.* `NoOrphan` is not inductive: it says nothing of a pass between
`setResourceManaged` and the creation. `Ownership` adds that a worker about to
create holds the finalizer, and that one about to release it has seen the group
go. It also gives the step part of the refinement.

*Exactness.* `Inner` is the inductive invariant. `WorkerShape` says what lists and
modes belong to each point of a pass, whoever interferes. `Progress` says what
holds of EC2 while nobody does; its heart is that the permissions that remain
after the pending revocations and those still to be authorized are disjoint and
together are the declared ones. The plan establishes it (`PlanExact`, from
`ReadBack`: what EC2 reads back means what EC2 holds), each batch keeps it
(`WellFormedDisjoint`), and at the end of both lists it is `SyncedIsExact`; with
no revocation pending it is `NeverDuplicate`. If the comparison finds no
difference, `CanonicalExact` says that nothing had to be done.

*No needless change.* `Gated`: a pass in update mode that holds rules to send has
read permissions that differ from the declared ones, since equal permissions
are canonically equal (`EqualIsEqual`).

### 4.2 References

`References_proofs`, for every set of CRs of whatever kinds, all their specs and any
number of objects and events:

| Theorem | Assuming | Says |
|---|---|---|
| `TypeCorrect` | – | `[]TypeOK` |
| `NoCircularWaitCorrect` | `NoRouteTables`: no CR is a route table | `[]NoCircularWait` |
| `ExactCorrect` | `NoSelfReference`: no spec names its own group | `[]SyncedIsExact` |
| `LifecycleCorrect` | – | `Spec /\ [][RecreatedIsNew]_vars => ImplementsLifecycle` |
| `LifecycleOfOneEvent` | `MaxEvents <= 1` | `Spec => ImplementsLifecycle` |

`ReferencesAssumption` says that a spec refers to CRs of the kinds the code
knows of; TLC evaluates it. The other assumptions are needed: a gateway and a route
table that name one another do wait for ever, and with a self-reference in place an
unresolved one is not told from it (`sg_unresolved_ref`).
`RecreatedIsNew` says that no CR is made anew under a name for which a group still lives
that was lost: `getSecurityGroupID` would find it, and the pass take it over without a
finalizer (the ACK runtime refuses that, which is not modelled).

*No circular wait.* A CR in a circle of waiting CRs is live, so a `GroupRef` to it
does resolve, and only awaited references are left (`NoneWaits`). The kinds of the
CRs in the circle are then a set of kinds of which each awaits another
(`Circular`). `CirclesCorrect` goes through the kinds in an order, beginning with
those that await a VPC only, and finds that every such set contains `route_table`.

*Exactness.* Two invariants besides `TypeOK`. `Objects`: every id that a CR, a worker or
a resolved reference holds is older than the next one and, while its object lives,
belongs to the CR it was read from, so that no worker touches the object of another
(`OthersObjects`); and what a live object uses or names in a rule lives
(`IntactAfter`, from EC2's refusal to delete what is in use). `Exact`: while a pass
sends rules, those that EC2 has without the pending revocations and with the pending
authorizations are the declared ones, all of them resolved; and no group has a rule
to itself (`NoSelfRuleAfter`, from the ownership of the ids). The last part is what
makes the comparison of `customUpdateSecurityGroup` right although an
unresolved reference reads as the group itself (`UpdateFits`).

*Life cycle.* `Owned` relates a CR to its worker: the id in hand is the one on record,
unless that object does not live; a CR without the finalizer has no object at all, recorded or not; and a
pass that is about to create, or to release the CR, has seen that what is on record is gone. What the
workers of other CRs do cannot disturb it, since the ids belong to their CRs
(`Objects`). A CR made anew could: hence `RecreatedIsNew`. `Known` shows that it takes
two events, one to lose a group, when a reply is lost or a crash comes before
`PatchStatus`, and one to make the CR anew; before the first, every object that
lives is on record or in the hands of the worker. TLC checked `Owned`, `Known` and `RecreatedIsNew`
on the 547 000 states of `references` before they were proved.

Each worker's effect on the objects is first summed up as one of four kinds
(`EffectOf`), so that a step is looked at once and not once for every invariant.

### 4.3 RouteTable

`RouteTable_proofs`, for every set of destinations and targets, all specs without two
routes to one destination, and any number of tables, faults, edits and drifts:

| Theorem | Says |
|---|---|
| `TypeCorrect` | `[]TypeOK` |
| `ExactCorrect` | `[]SyncedIsExact` |
| `CollisionFree` | `[]NeverCollide` |
| `PlanCorrect` | `[]PlanIsPermitted` |
| `DeclaredRouteStaysCorrect` | `Spec => DeclaredRouteStays` |
| `LifecycleCorrect` | `Spec => ImplementsLifecycle` |

Assumed is `RouteTableAssumption` only: prefix lists are destinations, the local
route is to an existing target, every spec names a destination once and the local
route in full or not at all.

*Routes.* `RoutesInv` is the inductive invariant: `TablesOK` (a destination has one
route, and only the local one has its target), `WorkerOK` (what the lists of a pass
are at each point, whoever interferes: what is to go is never local or AWS-managed, nor,
unless a look-up of a prefix list failed, declared), and `SyncedOK`, which holds while no other client interferes: the table
in hand is what was read, without what has been deleted and with what has been
created. `PlanIsPermitted` is part of `WorkerOK`, `NeverCollide` follows from the
order of `syncRoutes`, deletions first, and `SyncedIsExact` is what is left when both
lists are empty.

*Ownership.* As in `SecurityGroup`, but for the tables whose id was recorded: `PassOK`
says that a pass about to create has none, and that one about to release the CR has
seen its table go. It holds for both values of `MissingIsError`, since an id is never
given twice.

TLC checked `RoutesInv` on 8.0 million states, with two drifts, and `Ownership` on
516 000 before they were proved.

### 4.4 VPC

`VPC_proofs`, for every set of CIDRs, attributes and tags, and any number of VPCs,
faults, edits and drifts, assuming `VPCAssumption` only (every spec has the primary
CIDR, which is a good one):

| Theorem | Says |
|---|---|
| `TypeCorrect` | `[]TypeOK` |
| `ExactCorrect` | `[]SyncedIsExact` |
| `DeclaredCIDRStaysCorrect` | `Spec => DeclaredCIDRStays` |
| `LifecycleCorrect` | `Spec => ImplementsLifecycle` |

*Exactness.* `PassInv` says of an undisturbed create or update what each point of it
has already made true, part by part (CIDRs, rules, attributes, tags: `InHandOK`). While
the CIDRs are being seen to, each is still to be taken away, still to be added, or as
declared (`OnTheWay`), afterwards as declared (`Held`), where one that is associating
counts as one that is there. EC2's background work changes nothing of this (`SettleIs`),
at whatever point it comes. That a CIDR is associated, and none on its way out, when the
pass reports synced, is due to `LateInitialize` alone: between its first read and the
report (`lateRules`) nothing is in transition, and EC2 begins nothing by itself.

*Declared CIDRs.* `toDeleteOf` plans nothing declared from any read, stale or not, and
nothing in a pass adds to its plan.

TLC checked `PassInv` on 4.6 million states, and `Ownership`, with three VPCs
and two faults, on 2.6 million.

### 4.5 The kinds of Controller

For any specs of the seventeen kinds, and any number of objects, faults, edits and
drifts:

| Theorem | Assuming | Says |
|---|---|---|
| `Provisioning_proofs!TypeCorrect` | – | `[]TypeOK` |
| `Provisioning_proofs!ExactCorrect` | `FixedConnectivity`, `OneLeaves` | `[]SyncedIsExact` |
| `Provisioning_proofs!LifecycleCorrect` | – | `Spec => ImplementsLifecycle` |
| `Provisioning_proofs!OrphanCorrect` | – | `[]OrphanNeedsFault` |
| `Modification_proofs!LifecycleCorrect` | – | `Spec => ImplementsLifecycle` |
| `Modification_proofs!OrphanCorrect` | `AtMostOneTable` | `[]OrphanNeedsFault` |
| `Modification_proofs!DeclaredTieStaysCorrect` | – | `Spec => DeclaredTieStays` |
| `Versions_proofs!TypeCorrect` | `PatchedAreSpecs` | `[]TypeOK` |
| `Versions_proofs!ExactCorrect` | – | `[]SyncedIsExact` |
| `Versions_proofs!NoNeedlessVersionCorrect` | – | `[]NoNeedlessVersion` |
| `Versions_proofs!ChangeIsLockedCorrect` | – | `Spec => ChangeIsLocked` |

`ControllerAssumption` says that there are specs and that each has a kind,
`ModificationAssumption` that what a spec lists is finite and that the attributes of a
subnet or an instance are those the code knows of.

*The frame.* `Frame` is well-formedness (of the CR, the worker and the objects, as
far as no kind matters) and ownership. `Controller_proofs` shows it once for all
kinds: every step is of one of four classes, and each class keeps `Frame`
(`KeepingFrame`, `StoppingFrame`, `ElsewhereFrame`, `CreatingFrame`):

- `Keeping`: a pass goes on with the object it has, which may cease to live;
- `Stopping`: it stops in the middle;
- `Elsewhere`: EC2 or another client changes objects without making one live;
- `Creating`: the `Create` call.

The steps of the runtime are looked at one by one. What is left for a kind is to
which class each of its actions belongs. The same classes say what
a step does to the objects of the CR (`LifecycleEffect`) and to the objects that are
in nobody's hands (`OrphanEffect`: they become one more at most, and only with one
more fault); `Sound` is all three.

*Orphans.* A create that fails after the `Create` call loses the object without a
fault: `onError` reports the CR as it was. So the calls that `sdkCreate` makes
afterwards must not be refused by EC2's state. In `Provisioning` there are none
(`CreatesAtOnce`). In `Modification` there are: `Completing` says of each such call,
by the operations still in the plan, that it cannot be refused (a new gateway is
attached to nothing), that the refusal is logged, or that the error is dropped.

`AtMostOneTable` is needed, and is a finding about `internet_gateway`. `sdkCreate`
returns nil and the error when `createRouteTableAssociations` fails
(`templates/hooks/internet_gateway/sdk_create_post_set_output.go.tpl`). With two
tables in the spec, if EC2 gives a gateway one table only, as the model has it, the
second association is refused, so that every retry makes, attaches and loses another gateway; TLC shows it when the
instance is given such a spec. The theorem is about specs with one table at most, which the
instance's are.

*Exactness while EC2 goes on.* `SyncedIsExact` of `Provisioning` speaks of the end of
an update. `Tracked` says what makes it true on the way. `ReadOK`: as long as nobody
interferes, what `sdkFind` read of the fields that an update sees to (`Watched`) is
what EC2 has, and the state has gone on only, so that what was available still is,
what was not pending does not become so, and what was accepted is not to
be accepted again. `PlanOK`: each such field is as read or
as declared, and as declared if no call of the plan is left for it (`CallsFor`);
`ComesTo` is that, of the object and the operations still planned, and with nothing
planned it is exactness (`ComesToExact`). Each step is then one of four: a read, the
plan of an update (`PlannedOK`: a field that differs has its call in the plan), a
call done (`PlanCallOK`), and what EC2 does meanwhile (`BackgroundOK`). A service
configuration needs its principals in between, which are read in a call of their own
after `sdkFind`'s; an attachment needs, in `AttachmentOK`, that its subnets have
always been those of some spec. `StageOK` has which operations the plan of a kind may
hold, so that none of another kind's is left.

The two hypotheses are about code that does less than the property asks for.
`FixedConnectivity`: whether a NAT gateway is public is not in the delta of an update,
so the specs have to agree on it. `OneLeaves`: `compareSubnetIDs` of
`transit_gateway_vpc_attachment` removes one of the subnets that are to go; that more
stay behind is what the run `attachment_subnets` shows. The instance of `provisioning`
satisfies both. `TypeOK` is not inductive: the version that a pass has in hand, of which it
says nothing, ends up in the CR. `WellTyped` adds it.

*What is declared stays tied.* A delete call says what it takes away, so `Spares` asks
of each call of a plan that this is not declared, and `PlanSpares` of every call that
is left. For route tables, VPCs, options and subnets that is all: a plan computed from
an old read may undo too little, but nothing that is declared. For the entries of a
network ACL it is not. `deleteNetworkAclEntry` and `updateNetworkAclEntry` name an
entry by its number, and what has that number may be another entry by now. `Orderly`
says which deletions are harmless: no declared entry in place has the number, and no
earlier call of the plan puts one there, since `syncEntries` creates an entry only if
nothing read has its number. It holds of a new plan because `SeenWhole` has every entry
in EC2 among those read: in the meantime other clients take entries away only. An
update of an entry replaces what has the number, which would be a declared entry if two
of them shared one; `syncEntries` refuses such a spec before it makes a call, so a plan
with an update in it is one of a spec without (`Numbered`, in `Spares`). `Healthy` (the
fields an object of a kind has, and that EC2 keeps one entry per number) completes the
invariant, `TieInv`.

*Versions of a launch template.* That a template has few versions that repeat the one
before says nothing of the next version. `TemplateInv` adds who may make one, and what
it may cost. `Affords` is the measure: whoever takes version v for the latest may
repeat the latest, unless the two have the same data, so one more repetition has to be
affordable, that is paid for by a fault or a drift that has made none yet. It holds of
the version on record (`RecordOK`), from which the next pass starts, of the version in
hand, and of what was read (`HandOK`). While a pass may still return the version it
started from (`OnRecord`: before it reads, when a read fails, before
`CreateLaunchTemplateVersion`), both have to be affordable. A plan has the new version
before the default version only (`NewVersionIsLast`), since what comes after it, the
deferred change of the default version, may fail and return the version just made. A
drift adds a version and pays for it; a lost reply adds one and pays with the fault.

*The lock of a prefix list.* `ListInv` says that the object in EC2 is `Later` than what
was read: its version is not smaller, and if it is the same so are the entries, unless
EC2 was still making the list when it was read, which is the exception that
`ChangeIsLocked` makes, too. `sdkFind` reads the version first and the entries
afterwards; the order is what makes `Later` hold between the two calls. It is
`AdvanceIs` that each step of EC2, of another client or of the pass moves a list to a
later state only.

*Exactness of an update.* `Following` follows a pass of `Modification` from `sdkFind` to
its end, while nobody interferes and no error has been dropped. `ReadIsThere`: between
the calls of `sdkFind` what is in hand is what EC2 has (of a prefix list only what the
first call reads, since its entries may be on the way). `FoundIsThere`: so is what
`sdkFind` returns, field by field. `PlanComes`: once the calls are planned, whatever is not
yet as declared has its call left, so that with no calls left the object is exact. It is said for sets (`SetComes`), so it does
not matter in which order an update adds and removes, and for single attributes. An
instance is the exception: the pass that changes an attribute ends with an error, so
one that succeeds has found everything as declared. `SyncedIsFinal`: EC2 is not about
to change a list that an update leaves. What each kind has to show is that its plan
covers the differences (`newResourceDelta` sees all of them) and that each call does
what it says and undoes nothing else: `TieInv` has that for what is declared, above
all for the entries of a network ACL, and `TemplateInv` what a template's numbers
stand for.

*Types.* The version on record comes from what was read or has just been made, so it
is a number only if that template is there: `TemplateInHand`. Beyond that the CR
gets the spec that `patchSpec` makes of one of a launch template, with the default
version 1. That this is one of the specs, too, is the hypothesis `PatchedAreSpecs`, which
the instance of `modification` satisfies.

TLC checked `IInv` and `Tracked` of `Provisioning_proofs` on 682 000 states, `IInv` and
`TieInv` of `Modification_proofs` and `Following` of `Versions_proofs` on 651 000, and
`TemplateInv` and `ListInv` of `Versions_proofs`, with two drifts, on 2 677 000.

### 4.6 What is not proved

- Liveness: fairness and ENABLED are beyond the prover.
- `ImplementsLifecycle` of `References` without `RecreatedIsNew`, which is false for two
  events (section 6). Every other safety property that a passing run checks is a theorem.
- Nothing is recursive over data in these modules.

## 5. Plan

Done: `SecurityGroup`, `RouteTable`, `VPC`, `References` and the kinds of `Controller`,
each with the proofs of its safety. Next, in order:

1. `TagSync`: keys with values, both calls, drift in between; shown to implement
   the single step that the other modules use.
2. `Conditions`: `updateConditions`, terminal and recoverable errors.

## 6. Not modelled

- Metrics, logging, the conversion between API and SDK types beyond what the
  properties tell apart, flags, registration, manifests, the generated types and
  deep copies of `apis` (half of the lines of the repository: they have no
  behaviour of their own). A kind's field-by-field copying is one value or record
  in the model and one line of the map's ranges in a hundred is a decision, the
  rest is copying.
- Of the ACK runtime, which is not in this repository: adoption, deletion policies,
  field exports, the patch of metadata
  and spec after an update; that it refuses to update the object of a CR without the
  finalizer. The last is why `ImplementsLifecycle` of `References` needs `RecreatedIsNew` beyond
  one event: with two, a group that was lost, and found by its name for a CR made anew
  under the same name, would be taken over without a claim. (The patch of the spec after the create of a launch
  template is modelled, since the default version depends on it.)
- What `LateInitialize` (`manager.go`) writes: the attribute of a VPC, the policy of an
  endpoint, the regions of a service and the two fields of an instance that a spec leaves
  open and EC2 has set. Its second read is modelled for `vpc`, where it decides what is
  reported. Three more kinds have one. What their `sdkFind` finds and sets as a condition
  (an endpoint that is pending) is set on a copy that `lateInitializeFromReadOneOutput`
  does not take conditions from, so that this read can only turn a success into a failed
  pass, when the Describe call fails or the object has just gone. (An instance
  without hibernation options in its spec would be incomplete, but `DescribeInstances`
  reports them.) The next pass starts from the same EC2 either way.
- The terminal and recoverable conditions; the namespaces of references, and
  references to CRs of other controllers.
- Two nil dereferences, which end a pass as a crash does: `syncAssociation` of
  `network_acl` on a create with associations by id (`hooks.go:265`), and
  `subnet`, which dereferences the subnet of every association of a table, of which the main
  one has none (`hooks.go:318`).
- Parts of a kind: the order of entries of a prefix list, the DNS options of a
  service network endpoint, the answer `Unsuccessful` of `DeleteVpcEndpoints`, the
  supported regions of a service, ClassicLink options, tags deleted by a stale value,
  a lost reply of `CreateLaunchTemplate` followed by a create under the same name
  (excepted in `Converges`).

PROJECT.json gives the status of each part.
