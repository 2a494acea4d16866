------------------------ MODULE Modification_proofs ------------------------
(***************************************************************************)
(* Theorems about Modification: the kinds whose update is more than the    *)
(* tags and one call implement Lifecycle, an orphan costs each of them a   *)
(* fault, and no update takes away what its spec declares.                 *)
(***************************************************************************)
EXTENDS Modification, Controller_proofs

----------------------------------------------------------------------------
(* The invariant.  A create may go on after the object is made: a plan     *)
(* that ties it to others.  A call of this plan that is refused would lose *)
(* the id of the object, without a fault; the second part says why there   *)
(* is none, or why it loses nothing.                                       *)

GatewayOps == {"attach", "associate"}

\* What sdkCreate does once the object is made.
TyingOps == GatewayOps \cup {"attachVPC", "upsert", "createEntry"}

\* The gateway that is being made has no VPC until the first call attaches it, and
\* no route table until the only call that associates one.
GatewayIsFree ==
  Ops(w.plan) \cap GatewayOps # {} =>
    /\ Kind("internet_gateway")
    /\ Obj.live => {"vpc", "tables"} \subseteq DOMAIN Obj
    /\ \A i \in DOMAIN w.plan :
         /\ w.plan[i][1] = "attach" => i = 1 /\ (Obj.live => Obj.vpc = NoVPC)
         /\ w.plan[i][1] = "associate" =>
              /\ Obj.live => Obj.tables = {}
              /\ \A j \in DOMAIN w.plan : w.plan[j][1] = "associate" => i = j

Completing ==
  w.mode = "create" =>
    /\ w.pc \in {"idle", "create", "patchSpec", "plan"} \cup Ends
    /\ At("plan") => IsPlan(w.plan, TyingOps) /\ GatewayIsFree

\* The specs of the CR and of the pass are among those a user may write, but for
\* the default version of a launch template.
SpecsOK ==
  /\ cr.spec.kind # "launch_template" => cr.spec \in Specs
  /\ ~At("idle") /\ w.spec.kind # "launch_template" => w.spec \in Specs

\* Frame is what every step of a pass keeps, whatever its kind.
IInv == Frame /\ SpecsOK /\ Completing

\* An internet gateway takes one route table.  With two in its spec the second call
\* of sdkCreate is refused in every pass, and each pass loses the gateway it made.
AtMostOneTable ==
  \A s \in Specs : s.kind = "internet_gateway" => \A a, b \in s.tables : a = b

----------------------------------------------------------------------------
(* The classes of the steps of a pass.                                     *)

LEMMA InHand ==
  ASSUME Frame, w.pc \in Working
  PROVE  /\ ~At("idle") /\ w.id \in Ids /\ w.id # 0 /\ DOMAIN w = WorkerFields
         /\ w.end \in Ends /\ w.spec.kind = cr.spec.kind /\ WellFormed(Obj, cr.spec.kind)
         /\ Kept(onError) /\ Missed([w EXCEPT !.pc = "release"])
         /\ \A calls : Kept(Plan(calls)) /\ Plan(calls).id = w.id
BY WorkerIs, WorkersKept DEF Working, At

\* The worker goes on without a call that changes anything.
LEMMA ReadKeeps ==
  ASSUME Frame, ~At("idle"), UNCHANGED <<cr, ec2, env>>, faults' \in {faults, faults + 1},
         Kept(w')
  PROVE  Keeping
BY UnchangedKeeps DEF Keeping

\* A call of a plan on the object in hand, or its refusal.
LEMMA PlanCallKeeps ==
  ASSUME Frame, At("plan"), NEW obj, NEW next, NEW failed, Kept(next), Kept(failed),
         Call(obj, next, failed) \/ Go(failed), Tame(obj, Obj)
  PROVE  Keeping
BY DoingIs, CallKeeps, GoKeeps

\* sdkCreate: the object, and the worker that goes on.
LEMMA CreateKeeps ==
  ASSUME Frame, At("create"), NEW obj, NEW next, CreateObject(obj, next),
         WellFormed(obj, cr.spec.kind), DOMAIN next = WorkerFields, next.mode = w.mode,
         next.spec = w.spec, next.end = w.end, next.pc \in {"plan", "patchSpec"} \cup Ends
  PROVE  Creating \/ (Keeping /\ FairDrop)
<1>1. next.end \in Ends
  BY WorkerIs DEF At
<1> QED BY <1>1, CreateObjectCreates DEF Ends

LEMMA PlannedIs ==
  ASSUME Frame, At("create"), NEW calls, NEW l, NEW v
  PROVE  /\ LET next == Plan(calls)
            IN  /\ DOMAIN next = WorkerFields /\ next.mode = w.mode /\ next.spec = w.spec
                /\ next.end = w.end /\ next.pc = "plan" /\ next.plan = calls
         /\ LET next == [w EXCEPT !.pc = l, !.version = v]
            IN  /\ DOMAIN next = WorkerFields /\ next.mode = w.mode /\ next.spec = w.spec
                /\ next.end = w.end /\ next.pc = l
         /\ LET next == [w EXCEPT !.pc = l]
            IN  /\ DOMAIN next = WorkerFields /\ next.mode = w.mode /\ next.spec = w.spec
                /\ next.end = w.end /\ next.pc = l
BY WorkerIs DEF At, Plan, WorkerFields

\* sdkFind: what is found, read on in the next step or not.
LEMMA FoundKeeps ==
  ASSUME Frame, At("describe"), w.id # 0, NEW l \in {"associations", "version", "entries"}
  PROVE  /\ Kept(Found) /\ Kept([Found EXCEPT !.pc = l])
         /\ WellFormed(Obj, cr.spec.kind) /\ w.spec.kind = cr.spec.kind
         /\ DOMAIN w = WorkerFields /\ w.end \in Ends
<1>1. DOMAIN w = WorkerFields /\ w.id \in Ids /\ w.spec.kind = cr.spec.kind /\ ~At("idle")
      /\ w.end \in Ends
  BY WorkerIs DEF At
<1>2. Kept(Found)
  BY <1>1, WorkersKept
<1>3. WellFormed(Obj, cr.spec.kind)
  BY <1>1 DEF Frame, WellFormedAll, EC2WellFormed, Obj
<1> DEFINE f == Found
<1>4. DOMAIN f = WorkerFields /\ f.mode = w.mode /\ f.spec = w.spec /\ f.id = w.id
      /\ f.end = w.end
  BY <1>1 DEF Found, WorkerFields
<1>5. Kept([f EXCEPT !.pc = l])
  <2> HIDE DEF f
  <2> QED BY <1>1, <1>4, w.id # 0 DEF Kept, WorkerFields
<1> QED BY <1>1, <1>2, <1>3, <1>5

LEMMA AssociationsKeep ==
  ASSUME Frame, RouteTableAssociationStep
  PROVE  Keeping
<1>1. CASE readRouteTables
  <2>1. w.pc \in Working
    BY <1>1 DEF readRouteTables, At, Working
  <2>2. PICK answered \in BOOLEAN :
          /\ DescribeRouteTables(answered)
          /\ w' = [w EXCEPT !.pc = "found", !.blind = ~answered,
                     !.seen.tables = getRouteTableAssociations(answered)]
    BY <1>1 DEF readRouteTables
  <2>3. UNCHANGED <<cr, ec2, env>> /\ faults' \in {faults, faults + 1}
    BY <2>2 DEF DescribeRouteTables
  <2>4. Kept(w')
    BY <2>1, <2>2, InHand DEF Kept, WorkerFields
  <2> QED BY <2>1, <2>3, <2>4, InHand, ReadKeeps
<1>2. CASE updateRouteTableAssociations
  <2>1. w.pc \in Working /\ w.pc = "plan"
    BY <1>2 DEF updateRouteTableAssociations, Doing, At, Working
  <2>2. PICK answered \in BOOLEAN :
          /\ DescribeRouteTables(answered)
          /\ \E calls : w' = [w EXCEPT !.plan = calls \o Tail(@), !.blind = @ \/ ~answered]
    BY <1>2 DEF updateRouteTableAssociations
  <2>3. UNCHANGED <<cr, ec2, env>> /\ faults' \in {faults, faults + 1}
    BY <2>2 DEF DescribeRouteTables
  <2>4. Kept(w')
    <3>1. PICK plan, blind : w' = [w EXCEPT !.plan = plan, !.blind = blind]
      BY <2>2
    <3> QED BY <2>1, <3>1, InHand DEF Kept, WorkerFields
  <2> QED BY <2>1, <2>3, <2>4, InHand, ReadKeeps
<1>3. CASE disassociateRouteTable
  <2> DEFINE obj == [Obj EXCEPT !.tables = @ \ {Arg}]
  <2>1. At("plan") /\ (Call(obj, Done, onError) \/ Go(onError))
    BY <1>3 DEF disassociateRouteTable, Doing
  <2>2. Tame(obj, Obj)
    BY <2>1, DoingIs, ChangesAreTame
  <2> HIDE DEF obj
  <2> QED BY <2>1, <2>2, DoingIs, PlanCallKeeps
<1>4. CASE associateRouteTable
  <2> DEFINE obj == [Obj EXCEPT !.tables = {Arg}]
  <2>1. At("plan") /\ (Call(obj, Done, onError) \/ Go(onError))
    BY <1>4 DEF associateRouteTable, Doing
  <2>2. Tame(obj, Obj)
    BY <2>1, DoingIs, ChangesAreTame
  <2> HIDE DEF obj
  <2> QED BY <2>1, <2>2, DoingIs, PlanCallKeeps
<1> QED BY <1>1, <1>2, <1>3, <1>4 DEF RouteTableAssociationStep

LEMMA SubnetKeeps ==
  ASSUME Frame, SubnetStep
  PROVE  Keeping \/ Creating
<1>1. CASE sdkFindSubnet
  <2>1. At("describe") /\ Describe([Found EXCEPT !.pc = "associations"], onError)
    BY <1>1 DEF sdkFindSubnet, Describe
  <2> QED BY <2>1, FoundKeeps, DescribeKeeps
<1>2. CASE sdkCreateSubnet
  <2>1. WellFormed(newSubnet, cr.spec.kind)
    <3>1. cr.spec.kind = "subnet"
      BY <1>2, WorkerIs DEF sdkCreateSubnet, Kind, At
    <3> QED BY <3>1 DEF WellFormed, newSubnet, StateKinds
  <2> QED BY <1>2, <2>1, PlannedIs, CreateKeeps DEF sdkCreateSubnet, Ends
<1>3. CASE customUpdateSubnet
  BY <1>3, InHand, GoKeeps DEF customUpdateSubnet, Updating, At, Working
<1>4. CASE updateSubnetAttribute
  <2> DEFINE obj == [Obj EXCEPT !.attrs = IF Arg \in w.spec.attrs THEN @ \cup {Arg}
                                          ELSE @ \ {Arg}]
  <2>1. At("plan") /\ (Call(obj, Done, onError) \/ Go(onError))
    BY <1>4 DEF updateSubnetAttribute, Doing
  <2>2. Tame(obj, Obj)
    BY <2>1, DoingIs, ChangesAreTame
  <2> HIDE DEF obj
  <2> QED BY <2>1, <2>2, DoingIs, PlanCallKeeps
<1>5. CASE sdkDeleteSubnet
  BY <1>5, DeleteKeeps DEF sdkDeleteSubnet, Deleting, At, Working
<1> QED BY <1>1, <1>2, <1>3, <1>4, <1>5 DEF SubnetStep

LEMMA InternetGatewayKeeps ==
  ASSUME Frame, InternetGatewayStep
  PROVE  Keeping \/ Creating
<1>1. CASE sdkFindInternetGateway
  <2>1. At("describe") /\ Describe([Found EXCEPT !.pc = "associations"], onError)
    BY <1>1 DEF sdkFindInternetGateway, Describe
  <2> QED BY <2>1, FoundKeeps, DescribeKeeps
<1>2. CASE sdkCreateInternetGateway
  <2> DEFINE obj == [live |-> TRUE, vpc |-> NoVPC, tables |-> {}, tags |-> w.spec.tags]
  <2>1. At("create") /\ \E calls : CreateObject(obj, Plan(calls))
    BY <1>2 DEF sdkCreateInternetGateway
  <2>2. WellFormed(obj, cr.spec.kind)
    <3>1. cr.spec.kind = "internet_gateway"
      BY <1>2, WorkerIs DEF sdkCreateInternetGateway, Kind, At
    <3> QED BY <3>1 DEF WellFormed, StateKinds
  <2> HIDE DEF obj
  <2> QED BY <2>1, <2>2, PlannedIs, CreateKeeps DEF Ends
<1>3. CASE customUpdateInternetGateway
  <2>1. w.pc \in Working /\ \E calls : Go(Plan(calls))
    BY <1>3 DEF customUpdateInternetGateway, Updating, At, Working
  <2> QED BY <2>1, InHand, GoKeeps
<1>4. CASE detachFromVPC
  <2>1. At("plan") /\ Tame([Obj EXCEPT !.vpc = NoVPC], Obj)
    BY <1>4, DoingIs, ChangesAreTame DEF detachFromVPC, Doing
  <2> QED BY <1>4, <2>1, DoingIs, PlanCallKeeps DEF detachFromVPC
<1>5. CASE attachToVPC
  <2>1. At("plan") /\ Tame([Obj EXCEPT !.vpc = Arg], Obj)
    BY <1>5, DoingIs, ChangesAreTame DEF attachToVPC, Doing
  <2> QED BY <1>5, <2>1, DoingIs, PlanCallKeeps DEF attachToVPC
<1>6. CASE sdkDeleteInternetGateway
  <2>1. w.pc \in Working /\ ((\E calls : Go(Plan(calls))) \/ \E allowed : Delete(allowed))
    BY <1>6 DEF sdkDeleteInternetGateway, Deleting, Doing, At, Working
  <2> QED BY <2>1, InHand, GoKeeps, DeleteKeeps
<1> QED BY <1>1, <1>2, <1>3, <1>4, <1>5, <1>6 DEF InternetGatewayStep

LEMMA DHCPOptionsKeep ==
  ASSUME Frame, DHCPOptionsStep
  PROVE  Keeping \/ Creating
<1>1. CASE sdkFindDHCPOptions
  <2>1. At("describe") /\ Describe(Found, onError)
    BY <1>1 DEF sdkFindDHCPOptions, Describe
  <2> QED BY <2>1, FoundKeeps, DescribeKeeps
<1>2. CASE sdkCreateDHCPOptions
  <2> DEFINE obj == [live |-> TRUE, vpcs |-> {}, tags |-> w.spec.tags]
  <2>1. At("create") /\ \E calls : CreateObject(obj, Plan(calls))
    BY <1>2 DEF sdkCreateDHCPOptions
  <2>2. WellFormed(obj, cr.spec.kind)
    <3>1. cr.spec.kind = "dhcp_options"
      BY <1>2, WorkerIs DEF sdkCreateDHCPOptions, Kind, At
    <3> QED BY <3>1 DEF WellFormed, StateKinds
  <2> HIDE DEF obj
  <2> QED BY <2>1, <2>2, PlannedIs, CreateKeeps DEF Ends
<1>3. CASE customUpdateDHCPOptions
  <2>1. w.pc \in Working /\ \E calls : Go(Plan(calls))
    BY <1>3 DEF customUpdateDHCPOptions, Updating, At, Working
  <2> QED BY <2>1, InHand, GoKeeps
<1>4. CASE findAfterUpdate
  <2>1. At("plan") /\ (Go(Done) \/ Go(onError) \/ Unread(onError))
    BY <1>4 DEF findAfterUpdate, Doing
  <2> QED BY <2>1, DoingIs, GoKeeps, UnreadKeeps
<1>5. At("plan") => Kept(Unnoticed)
  <2> DEFINE d == Done
  <2>1. At("plan") => Kept(d)
    BY DoingIs
  <2> HIDE DEF d
  <2>2. At("plan") => Kept([d EXCEPT !.blind = TRUE])
    BY <2>1 DEF Kept, WorkerFields
  <2> QED BY <2>2 DEF Unnoticed, d
<1>6. CASE attachVPC
  <2> DEFINE obj == [Obj EXCEPT !.vpcs = @ \cup {Arg}]
  <2>1. At("plan") /\ (Call(obj, Done, Unnoticed) \/ Go(Unnoticed))
    BY <1>6 DEF attachVPC, Doing
  <2>2. Tame(obj, Obj)
    BY <2>1, DoingIs, ChangesAreTame
  <2> HIDE DEF obj
  <2> QED BY <1>5, <2>1, <2>2, DoingIs, PlanCallKeeps
<1>7. CASE detachVPC
  <2> DEFINE obj == [Obj EXCEPT !.vpcs = @ \ {Arg}]
  <2>1. At("plan") /\ (Call(obj, Done, Unnoticed) \/ Go(Unnoticed))
    BY <1>7 DEF detachVPC, Doing
  <2>2. Tame(obj, Obj)
    BY <2>1, DoingIs, ChangesAreTame
  <2> HIDE DEF obj
  <2> QED BY <1>5, <2>1, <2>2, DoingIs, PlanCallKeeps
<1>8. CASE sdkDeleteDHCPOptions
  <2>1. w.pc \in Working /\ ((\E calls : Go(Plan(calls))) \/ \E allowed : Delete(allowed))
    BY <1>8 DEF sdkDeleteDHCPOptions, Deleting, Doing, At, Working
  <2> QED BY <2>1, InHand, GoKeeps, DeleteKeeps
<1> QED BY <1>1, <1>2, <1>3, <1>4, <1>6, <1>7, <1>8 DEF DHCPOptionsStep

LEMMA orLoggedKept ==
  ASSUME Frame, At("plan"), NEW op
  PROVE  Kept(orLogged(op))
<1>1. CASE w.mode # "create"
  BY <1>1, DoingIs DEF orLogged
<1>2. ASSUME NEW plan
      PROVE  Kept([w EXCEPT !.plan = plan, !.blind = TRUE])
  BY DoingIs DEF Kept, WorkerFields, At
<1> QED BY <1>1, <1>2 DEF orLogged

LEMMA NetworkACLKeeps ==
  ASSUME Frame, NetworkACLStep
  PROVE  Keeping \/ Creating
<1>1. CASE sdkFindNetworkACL
  <2>1. At("describe") /\ Describe(Found, onError)
    BY <1>1 DEF sdkFindNetworkACL, Describe
  <2> QED BY <2>1, FoundKeeps, DescribeKeeps
<1>2. CASE sdkCreateNetworkACL
  <2> DEFINE obj == [live |-> TRUE, entries |-> {}, subnets |-> {}, tags |-> w.spec.tags]
  <2>1. At("create") /\ \E calls : CreateObject(obj, Plan(calls))
    BY <1>2 DEF sdkCreateNetworkACL
  <2>2. WellFormed(obj, cr.spec.kind)
    <3>1. cr.spec.kind = "network_acl"
      BY <1>2, WorkerIs DEF sdkCreateNetworkACL, Kind, At
    <3> QED BY <3>1 DEF WellFormed, StateKinds
  <2> HIDE DEF obj
  <2> QED BY <2>1, <2>2, PlannedIs, CreateKeeps DEF Ends
<1>3. CASE customUpdateNetworkAcl
  <2>1. w.pc \in Working /\ \E calls : Go(Plan(calls))
    BY <1>3 DEF customUpdateNetworkAcl, Updating, At, Working
  <2> QED BY <2>1, InHand, GoKeeps
<1>4. ASSUME At("plan"), NEW obj, NEW failed, Kept(failed),
             Call(obj, Done, failed) \/ Go(failed), Tame(obj, Obj)
      PROVE  Keeping
  BY <1>4, DoingIs, PlanCallKeeps
<1>5. CASE createEntry
  <2> DEFINE obj == [Obj EXCEPT !.entries = @ \cup {Arg}]
             failed == orLogged("createEntry")
  <2>1. At("plan") /\ (Call(obj, Done, failed) \/ Go(failed))
    BY <1>5 DEF createEntry, Doing
  <2>2. Tame(obj, Obj) /\ Kept(failed)
    BY <2>1, DoingIs, ChangesAreTame, orLoggedKept
  <2> HIDE DEF obj, failed
  <2> QED BY <1>4, <2>1, <2>2
<1>6. CASE deleteEntry
  <2> DEFINE obj == [Obj EXCEPT !.entries = {e \in @ : e[1] # Arg[1]}]
  <2>1. At("plan") /\ (Call(obj, Done, onError) \/ Go(onError))
    BY <1>6 DEF deleteEntry, Doing
  <2>2. Tame(obj, Obj)
    BY <2>1, DoingIs, ChangesAreTame
  <2> HIDE DEF obj
  <2> QED BY <1>4, <2>1, <2>2, DoingIs
<1>7. CASE updateEntry
  <2> DEFINE obj == [Obj EXCEPT !.entries = {e \in @ : e[1] # Arg[1]} \cup {Arg}]
  <2>1. At("plan") /\ (Call(obj, Done, onError) \/ Go(onError))
    BY <1>7 DEF updateEntry, Doing
  <2>2. Tame(obj, Obj)
    BY <2>1, DoingIs, ChangesAreTame
  <2> HIDE DEF obj
  <2> QED BY <1>4, <2>1, <2>2, DoingIs
<1>8. CASE upsertNewAssociations
  <2> DEFINE obj == [Obj EXCEPT !.subnets = @ \cup {Arg}]
             failed == orLogged("upsert")
  <2>1. At("plan") /\ (Call(obj, Done, failed) \/ Go(failed))
    BY <1>8 DEF upsertNewAssociations, Doing
  <2>2. Tame(obj, Obj) /\ Kept(failed)
    BY <2>1, DoingIs, ChangesAreTame, orLoggedKept
  <2> HIDE DEF obj, failed
  <2> QED BY <1>4, <2>1, <2>2
<1>9. CASE refuseEntries \/ describeDefaultACL \/ findACLAfterUpdate
  <2>1. At("plan") /\ (Go(Done) \/ Go(onError) \/ Unread(onError))
    BY <1>9 DEF refuseEntries, describeDefaultACL, findACLAfterUpdate, Doing
  <2> QED BY <2>1, DoingIs, GoKeeps, UnreadKeeps
<1>10. CASE deleteOldAssociations
  <2> DEFINE obj == [Obj EXCEPT !.subnets = @ \ {Arg[1]}]
  <2>1. At("plan") /\ (Call(obj, Done, onError) \/ Go(onError))
    BY <1>10 DEF deleteOldAssociations, Doing
  <2>2. Tame(obj, Obj)
    BY <2>1, DoingIs, ChangesAreTame
  <2> HIDE DEF obj
  <2> QED BY <1>4, <2>1, <2>2, DoingIs
<1>11. CASE sdkDeleteNetworkACL
  <2>1. w.pc \in Working /\ ((\E calls : Go(Plan(calls))) \/ \E allowed : Delete(allowed))
    BY <1>11 DEF sdkDeleteNetworkACL, Deleting, Doing, At, Working
  <2> QED BY <2>1, InHand, GoKeeps, DeleteKeeps
<1> QED BY <1>1, <1>2, <1>3, <1>5, <1>6, <1>7, <1>8, <1>9, <1>10, <1>11 DEF NetworkACLStep

LEMMA InstanceKeeps ==
  ASSUME Frame, InstanceStep
  PROVE  Keeping \/ Creating
<1>1. CASE sdkFindInstance
  <2> DEFINE e     == IF isRunning(Obj) THEN "synced" ELSE "requeue"
             read  == [w EXCEPT !.pc = "found", !.seen = ObservedInstance, !.end = e]
             found == IF Obj.state = "terminated" THEN NotFound ELSE read
  <2>1. At("describe") /\ Kind("instance") /\ Describe(found, NotFound) /\ e \in Ends
    BY <1>1 DEF sdkFindInstance, Describe, Ends
  <2> HIDE DEF e
  <2>2. ASSUME w.id # 0
        PROVE  Kept(found) \/ (found = NotFound /\ ~Obj.live)
    <3>1. /\ WellFormed(Obj, cr.spec.kind) /\ cr.spec.kind = "instance"
          /\ DOMAIN w = WorkerFields
      BY <2>1, <2>2, FoundKeeps DEF Kind
    <3>2. Kept(read)
      BY <2>1, <2>2, <3>1 DEF Kept, WorkerFields
    <3>3. Obj.state = "terminated" => ~Obj.live
      BY <3>1 DEF WellFormed, Ending, StateKinds
    <3> HIDE DEF read
    <3> QED BY <3>2, <3>3
  <2> HIDE DEF found
  <2> QED BY <2>1, <2>2, DescribeKeeps
<1>2. CASE sdkCreateInstance
  <2>1. WellFormed(newInstance, cr.spec.kind)
    BY DEF WellFormed, newInstance, Ending
  <2> QED BY <1>2, <2>1, PlannedIs, CreateKeeps DEF sdkCreateInstance, Ends
<1>3. CASE customUpdateInstance
  <2>1. w.pc \in Working /\ \E calls, modify :
                               Go([Plan(calls) EXCEPT !.end = IF modify THEN "failed" ELSE @])
    BY <1>3 DEF customUpdateInstance, Updating, At, Working
  <2>2. PICK calls, modify : Go([Plan(calls) EXCEPT !.end = IF modify THEN "failed" ELSE @])
    BY <2>1
  <2> DEFINE planned == Plan(calls)
  <2>3. Kept(planned)
    BY <2>1, InHand
  <2> HIDE DEF planned
  <2>4. Kept([planned EXCEPT !.end = IF modify THEN "failed" ELSE @])
    BY <2>3 DEF Kept, WorkerFields, Ends
  <2> QED BY <2>1, <2>2, <2>4, InHand, GoKeeps DEF planned
<1>4. CASE modifyInstanceAttributes
  <2> DEFINE obj == [Obj EXCEPT !.attrs[Arg] = w.spec.attrs[Arg]]
  <2>1. At("plan") /\ (Call(obj, Done, onError) \/ Go(onError))
    BY <1>4 DEF modifyInstanceAttributes, Doing
  <2>2. Tame(obj, Obj)
    BY <2>1, DoingIs DEF Tame, WellFormed
  <2> HIDE DEF obj
  <2> QED BY <2>1, <2>2, DoingIs, PlanCallKeeps
<1>5. CASE sdkDeleteInstance
  <2> DEFINE obj == IF Obj.live THEN [Obj EXCEPT !.live = FALSE, !.state = "shutting-down"]
                    ELSE Obj
  <2>1. w.pc \in Working /\ (Call(obj, [w EXCEPT !.pc = "release"], onError) \/ Go(onError))
    BY <1>5 DEF sdkDeleteInstance, Deleting, At, Working
  <2>2. Tame(obj, Obj) /\ ~obj.live
    BY <2>1, InHand, ChangesAreTame DEF WellFormed
  <2> HIDE DEF obj
  <2> QED BY <2>1, <2>2, InHand, CallKeeps, GoKeeps
<1> QED BY <1>1, <1>2, <1>3, <1>4, <1>5 DEF InstanceStep

LEMMA LaunchTemplateKeeps ==
  ASSUME Frame, LaunchTemplateStep
  PROVE  Keeping \/ Creating \/ Stopping
<1>1. CASE sdkFindLaunchTemplate
  <2>1. At("describe") /\ Describe([Found EXCEPT !.pc = "version"], onError)
    BY <1>1 DEF sdkFindLaunchTemplate, Describe
  <2> QED BY <2>1, FoundKeeps, DescribeKeeps
<1>2. CASE setLatestLaunchTemplateAttributes
  <2> DEFINE read(data) == [w EXCEPT !.pc = "found", !.version = Len(w.seen.data),
                              !.seen.data = data]
  <2>1. w.pc \in Working
    BY <1>2 DEF setLatestLaunchTemplateAttributes, At, Working
  <2>2. ASSUME NEW data, NEW blind
        PROVE  Kept([read(data) EXCEPT !.blind = blind])
    <3> DEFINE r == read(data)
    <3>1. DOMAIN r = WorkerFields /\ r.mode = w.mode /\ r.spec = w.spec /\ r.id = w.id
          /\ r.end = w.end /\ r.pc = "found"
      BY <2>1, InHand DEF WorkerFields
    <3> HIDE DEF r
    <3>2. Kept([r EXCEPT !.blind = blind])
      BY <2>1, <3>1, InHand DEF Kept, WorkerFields
    <3> QED BY <3>2 DEF r
  <2>3. \/ Go([read(Obj.data[w.version]) EXCEPT !.blind = w.version # Len(w.seen.data)])
        \/ Unread([read(w.spec.data) EXCEPT !.blind = TRUE])
    BY <1>2 DEF setLatestLaunchTemplateAttributes
  <2> HIDE DEF read
  <2> QED BY <2>1, <2>2, <2>3, InHand, GoKeeps, UnreadKeeps
<1>3. CASE sdkCreateLaunchTemplate
  <2>1. CASE CreateObject(newLaunchTemplate, [w EXCEPT !.pc = "patchSpec", !.version = 1])
    <3>1. WellFormed(newLaunchTemplate, cr.spec.kind)
      <4>1. cr.spec.kind = "launch_template"
        BY <1>3, WorkerIs DEF sdkCreateLaunchTemplate, Kind, At
      <4> QED BY <4>1 DEF WellFormed, newLaunchTemplate, StateKinds
    <3> DEFINE next == [w EXCEPT !.pc = "patchSpec", !.version = 1]
    <3>2. /\ DOMAIN next = WorkerFields /\ next.mode = w.mode /\ next.spec = w.spec
          /\ next.end = w.end /\ next.pc = "patchSpec"
      BY <1>3, PlannedIs DEF sdkCreateLaunchTemplate
    <3>3. At("create") /\ CreateObject(newLaunchTemplate, next)
      BY <1>3, <2>1 DEF sdkCreateLaunchTemplate
    <3> HIDE DEF next
    <3> QED BY <3>1, <3>2, <3>3, CreateKeeps
  <2>2. CASE Go(CreateFailed)
    <3>1. w.mode = "create" /\ ~At("idle")
      BY <1>3, WorkerIs DEF sdkCreateLaunchTemplate, At
    <3> QED BY <2>2, <3>1, WorkersKept, GoKeeps
  <2> QED BY <1>3, <2>1, <2>2 DEF sdkCreateLaunchTemplate
<1>4. CASE patchSpec
  <2>1. w.pc \in Working
    BY <1>4 DEF patchSpec, At, Working
  <2>2. CRKeeps
    <3>1. DOMAIN cr = CRFields /\ "kind" \in DOMAIN cr.spec
      BY DEF Frame, WellFormedAll, CRWellFormed
    <3>2. CASE cr' = cr
      BY <1>4, <3>1, <3>2 DEF patchSpec, CRKeeps, env
    <3>3. CASE cr' = [cr EXCEPT !.spec.default = 1]
      <4> DEFINE spec == [cr.spec EXCEPT !.default = 1]
      <4>1. "kind" \in DOMAIN spec /\ spec.kind = cr.spec.kind
        BY <3>1
      <4>2. cr' = [cr EXCEPT !.spec = spec]
        BY <3>3
      <4> HIDE DEF spec
      <4>3. cr.spec.kind = "launch_template"
        BY <1>4, <2>1, InHand DEF patchSpec, Kind
      <4> QED BY <1>4, <3>1, <4>1, <4>2, <4>3 DEF patchSpec, CRKeeps, CRFields, env
    <3> QED BY <1>4, <3>2, <3>3 DEF patchSpec
  <2>3. EC2Keeps
    BY <1>4, UnchangedKeeps DEF patchSpec
  <2>4. Kept(w')
    BY <1>4, <2>1, InHand, WorkersKept DEF patchSpec
  <2> QED BY <2>1, <2>2, <2>3, <2>4, InHand DEF Keeping
<1>5. CASE sdkUpdateLaunchTemplate
  <2>1. w.pc \in Working /\ \E calls : Go(Plan(calls))
    BY <1>5 DEF sdkUpdateLaunchTemplate, Updating, At, Working
  <2> QED BY <2>1, InHand, GoKeeps
<1>6. CASE CreateLaunchTemplateVersion
  <2> DEFINE obj  == [Obj EXCEPT !.data = newLaunchTemplateVersion(Arg)]
             done == Done
             next == [done EXCEPT !.version = Len(Obj.data) + 1]
             later == <<<<"defaultVersion", w.spec.default>>, <<"nothing", {}>>>>
  <2>1. At("plan") /\ Call(obj, next, orDeferred)
    BY <1>6 DEF CreateLaunchTemplateVersion, Doing
  <2>2. Tame(obj, Obj) /\ Kept(done)
    BY <2>1, DoingIs, ChangesAreTame
  <2>3. Kept(orDeferred)
    <3> HIDE DEF later
    <3>1. Kept([w EXCEPT !.plan = later, !.blind = TRUE])
      BY <2>1, DoingIs DEF Kept, WorkerFields, At
    <3> QED BY <2>1, <3>1, DoingIs DEF orDeferred, later
  <2> HIDE DEF obj, done
  <2>4. Kept(next)
    BY <2>2 DEF Kept, WorkerFields
  <2> HIDE DEF next
  <2> QED BY <2>1, <2>2, <2>3, <2>4, PlanCallKeeps
<1>7. CASE updateDefaultVersion
  <2>1. At("plan") /\ Tame([Obj EXCEPT !.default = Arg], Obj)
    BY <1>7, DoingIs, ChangesAreTame DEF updateDefaultVersion, Doing
  <2> QED BY <1>7, <2>1, DoingIs, PlanCallKeeps DEF updateDefaultVersion
<1>8. CASE returnNothing
  BY <1>8, UnchangedKeeps DEF returnNothing, Go, Stopping
<1>9. CASE sdkDeleteLaunchTemplate
  BY <1>9, DeleteKeeps DEF sdkDeleteLaunchTemplate, Deleting, At, Working
<1> QED BY <1>1, <1>2, <1>3, <1>4, <1>5, <1>6, <1>7, <1>8, <1>9 DEF LaunchTemplateStep

LEMMA ReportedIs ==
  ASSUME Frame, w.pc \in Working, NEW final \in BOOLEAN
  PROVE  LET r == Reported(final)
         IN  /\ DOMAIN r = WorkerFields /\ r.mode = w.mode /\ r.spec = w.spec /\ r.id = w.id
             /\ r.end \in Ends /\ r.pc = w.pc
BY InHand DEF Reported, WorkerFields, Ends

LEMMA ManagedPrefixListKeeps ==
  ASSUME Frame, ManagedPrefixListStep
  PROVE  Keeping \/ Creating
<1>1. CASE sdkFindManagedPrefixList
  <2>1. At("describe") /\ Describe([Found EXCEPT !.pc = "entries"], onError)
    BY <1>1 DEF sdkFindManagedPrefixList, Describe
  <2> QED BY <2>1, FoundKeeps, DescribeKeeps
<1>2. CASE getManagedPrefixListEntries
  <2> DEFINE r == Reported(Final(w.seen))
             next == [r EXCEPT !.pc = "found", !.seen.entries = Obj.entries]
  <2>1. w.pc \in Working /\ (Go(next) \/ Unread(onError))
    BY <1>2 DEF getManagedPrefixListEntries, At, Working
  <2>2. /\ DOMAIN r = WorkerFields /\ r.mode = w.mode /\ r.spec = w.spec /\ r.id = w.id
        /\ r.end \in Ends
    <3>1. Final(w.seen) \in BOOLEAN
      BY DEF Final
    <3> QED BY <2>1, <3>1, ReportedIs
  <2> HIDE DEF r
  <2>3. Kept(next)
    BY <2>1, <2>2, InHand DEF Kept, WorkerFields
  <2> HIDE DEF next
  <2> QED BY <2>1, <2>3, InHand, GoKeeps, UnreadKeeps
<1>3. CASE sdkCreateManagedPrefixList
  <2>1. WellFormed(newManagedPrefixList, cr.spec.kind)
    BY DEF WellFormed, newManagedPrefixList, Ending
  <2> DEFINE next == [w EXCEPT !.pc = "requeue", !.version = 0]
  <2>2. /\ DOMAIN next = WorkerFields /\ next.mode = w.mode /\ next.spec = w.spec
        /\ next.end = w.end /\ next.pc = "requeue"
    BY <1>3, PlannedIs DEF sdkCreateManagedPrefixList
  <2>3. At("create") /\ CreateObject(newManagedPrefixList, next)
    BY <1>3 DEF sdkCreateManagedPrefixList
  <2> HIDE DEF next
  <2> QED BY <2>1, <2>2, <2>3, CreateKeeps DEF Ends
<1>4. CASE customUpdateManagedPrefixList
  <2> DEFINE tags   == "tags" \in newManagedPrefixListDelta
             modify == newManagedPrefixListDelta \cap {"entries", "max"} # {}
             blind  == tags /\ ~modify /\ cr.version = 1 /\ ~Final(w.seen)
             planned == Plan(When(tags, "tags", {}) \o When(modify, "modifyList", {})
                               \o When(tags /\ ~modify, "desired", {}))
             next == [planned EXCEPT !.end = IF tags /\ ~modify
                                             THEN IF cr.version = 1 THEN "synced" ELSE "requeue"
                                             ELSE @,
                                     !.blind = blind]
  <2>1. w.pc \in Working /\ Go(next)
    BY <1>4 DEF customUpdateManagedPrefixList, Updating, At, Working
  <2>2. Kept(planned)
    BY <2>1, InHand
  <2> HIDE DEF planned, tags, modify, blind
  <2>3. Kept(next)
    BY <2>2 DEF Kept, WorkerFields, Ends
  <2> HIDE DEF next
  <2> QED BY <2>1, <2>3, InHand, GoKeeps
<1>5. CASE ModifyManagedPrefixList
  <2> DEFINE coming == (Obj.entries \ computeEntriesToRemove(w.spec.entries, w.seen.entries))
                          \cup computeEntriesToAdd(w.spec.entries, w.seen.entries)
             obj  == [Obj EXCEPT !.state = "modify-in-progress", !.max = w.spec.max,
                        !.next = coming]
             r    == Reported(FALSE)
             next == [r EXCEPT !.plan = Tail(@)]
  <2>1. At("plan") /\ (Call(obj, next, onError) \/ Go(onError))
    BY <1>5 DEF ModifyManagedPrefixList, Doing
  <2> HIDE DEF coming
  <2>2. Tame(obj, Obj)
    BY <2>1, DoingIs DEF Tame, WellFormed, Ending
  <2>3. /\ DOMAIN r = WorkerFields /\ r.mode = w.mode /\ r.spec = w.spec /\ r.id = w.id
        /\ r.end \in Ends /\ r.pc = w.pc
    BY <2>1, DoingIs, ReportedIs
  <2> HIDE DEF r, obj
  <2>4. Kept(next)
    BY <2>1, <2>3, DoingIs DEF Kept, WorkerFields, At
  <2> HIDE DEF next
  <2>5. Kept(onError) /\ ~At("idle") /\ w.id \in Ids
    BY <2>1, DoingIs
  <2> QED BY <2>1, <2>2, <2>4, <2>5, GoKeeps, CallKeeps
<1>6. CASE sdkDeleteManagedPrefixList
  BY <1>6, DeleteKeeps DEF sdkDeleteManagedPrefixList, Deleting, At, Working
<1> QED BY <1>1, <1>2, <1>3, <1>4, <1>5, <1>6 DEF ManagedPrefixListStep

LEMMA CapacityReservationKeeps ==
  ASSUME Frame, CapacityReservationStep
  PROVE  Keeping \/ Creating
<1>1. CASE sdkFindCapacityReservation
  <2> DEFINE f == Found
             next == [f EXCEPT !.seen.info = w.spec.info]
  <2>1. At("describe") /\ Describe(next, onError)
    BY <1>1 DEF sdkFindCapacityReservation, Describe
  <2>2. w.id # 0 => Kept(f)
    BY <2>1, FoundKeeps
  <2> HIDE DEF f
  <2>3. w.id # 0 => Kept(next)
    BY <2>2 DEF Kept, WorkerFields
  <2> HIDE DEF next
  <2> QED BY <2>1, <2>3, DescribeKeeps
<1>2. CASE sdkCreateCapacityReservation
  <2>1. WellFormed(newCapacityReservation, cr.spec.kind)
    <3>1. cr.spec.kind = "capacity_reservation"
      BY <1>2, WorkerIs DEF sdkCreateCapacityReservation, Kind, At
    <3> QED BY <3>1 DEF WellFormed, newCapacityReservation, StateKinds
  <2> QED BY <1>2, <2>1, PlannedIs, CreateKeeps DEF sdkCreateCapacityReservation, Ends
<1>3. CASE sdkUpdateCapacityReservation
  <2>1. w.pc \in Working /\ \E calls : Go(Plan(calls))
    BY <1>3 DEF sdkUpdateCapacityReservation, Updating, At, Working
  <2> QED BY <2>1, InHand, GoKeeps
<1>4. CASE modifyCapacityReservation
  <2>1. At("plan") /\ Tame([Obj EXCEPT !.info = Arg], Obj) /\ Tame([Obj EXCEPT !.count = Arg], Obj)
    BY <1>4, DoingIs, ChangesAreTame DEF modifyCapacityReservation, Doing
  <2> QED BY <1>4, <2>1, DoingIs, PlanCallKeeps DEF modifyCapacityReservation
<1>5. CASE findReservationAfterUpdate
  <2>1. At("plan") /\ (Go(Done) \/ Unread(onError))
    BY <1>5 DEF findReservationAfterUpdate, Doing
  <2> QED BY <2>1, DoingIs, GoKeeps, UnreadKeeps
<1>6. CASE sdkDeleteCapacityReservation
  <2> DEFINE obj == [Obj EXCEPT !.live = FALSE]
  <2>1. w.pc \in Working /\ (Call(obj, [w EXCEPT !.pc = "release"], onError) \/ Go(onError))
    BY <1>6 DEF sdkDeleteCapacityReservation, Deleting, At, Working
  <2>2. Tame(obj, Obj) /\ ~obj.live
    BY <2>1, InHand, ChangesAreTame DEF WellFormed
  <2> HIDE DEF obj
  <2> QED BY <2>1, <2>2, InHand, CallKeeps, GoKeeps
<1> QED BY <1>1, <1>2, <1>3, <1>4, <1>5, <1>6 DEF CapacityReservationStep

----------------------------------------------------------------------------
(* The rest of the world, and the first theorem.                           *)

LEMMA DriftIs ==
  ASSUME Frame, Drift
  PROVE  Elsewhere
<1>1. PICK i \in Ids :
        \/ SubnetDrift(i) \/ InternetGatewayDrift(i) \/ DHCPOptionsDrift(i)
        \/ NetworkACLDrift(i) \/ InstanceDrift(i) \/ LaunchTemplateDrift(i)
        \/ ManagedPrefixListDrift(i) \/ CapacityReservationDrift(i)
  BY DEF Drift, Live
<1>2. WellFormed(ec2[i], cr.spec.kind)
  BY DEF Frame, WellFormedAll, EC2WellFormed
<1>3. ASSUME NEW obj, OtherClient(i, obj), Tame(obj, ec2[i])
      PROVE  Elsewhere
  BY <1>3, ElsewhereIs
<1>4. CASE SubnetDrift(i)
  BY <1>2, <1>3, <1>4, ChangesAreTame DEF SubnetDrift, DisassociatedByOthers
<1>5. CASE InternetGatewayDrift(i)
  BY <1>2, <1>3, <1>5, ChangesAreTame DEF InternetGatewayDrift, DisassociatedByOthers
<1>6. CASE DHCPOptionsDrift(i)
  BY <1>2, <1>3, <1>6, ChangesAreTame DEF DHCPOptionsDrift
<1>7. CASE NetworkACLDrift(i)
  BY <1>2, <1>3, <1>7, ChangesAreTame DEF NetworkACLDrift
<1>8. CASE InstanceDrift(i)
  <2>1. Tame([ec2[i] EXCEPT !.attrs.SecurityGroupIDs = {}], ec2[i])
    BY <1>2 DEF Tame, WellFormed
  <2>2. /\ Tame([ec2[i] EXCEPT !.state = "stopping"], ec2[i])
        /\ Tame([ec2[i] EXCEPT !.live = FALSE, !.state = "shutting-down"], ec2[i])
    BY <1>2, ChangesAreTame DEF Ending
  <2> QED BY <1>3, <1>8, <2>1, <2>2 DEF InstanceDrift
<1>9. CASE LaunchTemplateDrift(i)
  BY <1>2, <1>3, <1>9, ChangesAreTame DEF LaunchTemplateDrift
<1>10. CASE ManagedPrefixListDrift(i)
  <2>1. ASSUME NEW x
        PROVE  Tame([ec2[i] EXCEPT !.state = "modify-in-progress", !.next = x], ec2[i])
    BY <1>2 DEF Tame, WellFormed, Ending
  <2> QED BY <1>3, <1>10, <2>1 DEF ManagedPrefixListDrift
<1>11. CASE CapacityReservationDrift(i)
  BY <1>2, <1>3, <1>11, ChangesAreTame DEF CapacityReservationDrift
<1> QED BY <1>1, <1>4, <1>5, <1>6, <1>7, <1>8, <1>9, <1>10, <1>11

LEMMA SettleIs ==
  ASSUME Frame, NEW i \in Ids, Settle(i)
  PROVE  Elsewhere
<1>1. WellFormed(ec2[i], cr.spec.kind)
  BY DEF Frame, WellFormedAll, EC2WellFormed
<1>2. ASSUME NEW obj, Background(i, obj), Tame(obj, ec2[i])
      PROVE  Elsewhere
  BY <1>2, ElsewhereIs
<1>3. CASE cr.spec.kind = "instance" /\ InstanceSettles(i)
  <2>1. /\ Tame(Gone, ec2[i])
        /\ Tame([ec2[i] EXCEPT !.state = "running"], ec2[i])
        /\ Tame([ec2[i] EXCEPT !.state = "stopped"], ec2[i])
    BY <1>1, ChangesAreTame DEF Ending
  <2>2. ec2[i].state = "shutting-down" => Tame([ec2[i] EXCEPT !.state = "terminated"], ec2[i])
    <3>1. ec2[i].state = "shutting-down" => ~ec2[i].live
      BY <1>1, <1>3 DEF WellFormed, StateKinds, Ending
    <3> QED BY <1>1, <3>1, ChangesAreTame
  <2> QED BY <1>2, <1>3, <2>1, <2>2 DEF InstanceSettles
<1>4. CASE ManagedPrefixListSettles(i)
  <2>1. ASSUME NEW x, NEW y
        PROVE  /\ Tame([ec2[i] EXCEPT !.state = "create-complete", !.entries = x], ec2[i])
               /\ Tame([ec2[i] EXCEPT !.state = "modify-complete", !.entries = x, !.version = y],
                       ec2[i])
    BY <1>1 DEF Tame, WellFormed, Ending
  <2> QED BY <1>2, <1>4, <2>1 DEF ManagedPrefixListSettles
<1> QED BY <1>3, <1>4 DEF Settle

LEMMA FailsIs ==
  ASSUME Frame, Fails
  PROVE  Elsewhere
<1>1. PICK i \in Ids : ManagedPrefixListFails(i)
  BY DEF Fails, Live
<1>2. WellFormed(ec2[i], cr.spec.kind) /\ DOMAIN w = WorkerFields /\ DOMAIN ec2 = Ids
  BY DEF Frame, WellFormedAll, EC2WellFormed, WorkerWellFormed
<1> DEFINE obj == [ec2[i] EXCEPT !.state = "modify-failed", !.next = ec2[i].entries]
<1>3. Tame(obj, ec2[i])
  BY <1>2 DEF Tame, WellFormed, Ending
<1>4. ec2' = [ec2 EXCEPT ![i] = obj] /\ faults' = faults + 1 /\ UNCHANGED <<cr, w, env>>
  BY <1>1, <1>2 DEF ManagedPrefixListFails
<1> HIDE DEF obj
<1>5. CRKeeps /\ EC2Keeps
  BY <1>3, <1>4, ObjectKeeps, UnchangedKeeps
<1> QED BY <1>2, <1>4, <1>5 DEF Elsewhere

\* A step of the runtime is sound in itself, or one of a pass; so is a kind's.
LEMMA ReconcileIs ==
  ASSUME Frame, Reconcile
  PROVE  Sound \/ Keeping \/ Creating \/ Stopping
<1>1. CASE RuntimeStep
  BY <1>1, BeginIsSound, setResourceManagedIsSound, setResourceUnmanagedIsSound,
     PatchStatusIsSound, PlanStepsKeep, syncTagsKeeps
     DEF RuntimeStep
<1> QED BY <1>1, AssociationsKeep, SubnetKeeps, InternetGatewayKeeps, DHCPOptionsKeep,
           NetworkACLKeeps, InstanceKeeps, LaunchTemplateKeeps, ManagedPrefixListKeeps,
           CapacityReservationKeeps
        DEF Reconcile

LEMMA FrameStep ==
  ASSUME Frame, [Next]_vars
  PROVE  Frame' /\ LifecycleEffect
<1>1. CASE UNCHANGED vars \/ WorldStep
  BY <1>1, StutterIsSound, WorldStepIsSound DEF Sound
<1>2. CASE Reconcile
  BY <1>2, ReconcileIs, KeepingFrame, CreatingFrame, StoppingFrame DEF Sound
<1>3. CASE Drift \/ (\E i \in Ids : Settle(i)) \/ Fails
  BY <1>3, DriftIs, SettleIs, FailsIs, ElsewhereFrame
<1> QED BY <1>1, <1>2, <1>3 DEF Next

LEMMA FrameCorrect == Spec => []Frame
<1>1. Frame /\ [Next]_vars => Frame'
  BY FrameStep
<1> QED BY <1>1, FrameInit, PTL DEF Spec

\* Whatever calls fail, whatever EC2 does in its own time and other clients do to
\* an object, the recorded objects of a CR of these kinds come and go as Lifecycle
\* allows: one at a time, under the finalizer, which goes last (sdkFind, sdkCreate
\* and sdkDelete of the eight managers, with setResourceManaged and
\* setResourceUnmanaged of the runtime).
THEOREM LifecycleCorrect == Spec => ImplementsLifecycle
<1>1. Frame /\ [Next]_vars => [Abs!Next]_(Abs!vars)
  BY FrameStep, LifecycleStep
<1> QED BY <1>1, FrameCorrect, LifecycleInit, PTL DEF Spec, ImplementsLifecycle, Abs!Spec

----------------------------------------------------------------------------
(* Plans that make one call for each member of a set.                      *)

LEMMA ForEachIsPlan ==
  ASSUME NEW op, NEW S, IsFiniteSet(S), NEW calls \in ForEach(op, S), NEW ops, op \in ops
  PROVE  IsPlan(calls, ops)
<1> DEFINE n == Cardinality(S)
<1>1. n \in Nat
  BY FS_CardinalityType
<1>2. PICK order \in [1 .. n -> S] : calls = [i \in 1 .. n |-> <<op, order[i]>>]
  BY DEF ForEach
<1> HIDE DEF n
<1>3. calls \in Seq({op} \X S)
  BY <1>1, <1>2
<1>4. \A i \in 1 .. Len(calls) : calls[i][1] = op
  BY <1>1, <1>2, <1>3
<1> QED BY <1>3, <1>4, SequencesArePlans

LEMMA NothingToDo ==
  ASSUME NEW op, NEW calls \in ForEach(op, {})
  PROVE  calls = <<>>
<1>1. Cardinality({}) = 0
  BY FS_EmptySet
<1>2. PICK order : calls = [i \in 1 .. 0 |-> <<op, order[i]>>]
  BY <1>1 DEF ForEach
<1> QED BY <1>2

LEMMA OneToDo ==
  ASSUME NEW op, NEW x, NEW calls \in ForEach(op, {x})
  PROVE  IsPlan(calls, {op}) /\ Len(calls) = 1
<1>1. Cardinality({x}) = 1 /\ IsFiniteSet({x})
  BY FS_Singleton
<1>2. PICK order \in [1 .. 1 -> {x}] : calls = [i \in 1 .. 1 |-> <<op, order[i]>>]
  BY <1>1 DEF ForEach
<1>3. Len(calls) = 1
  BY <1>2
<1> QED BY <1>1, <1>3, ForEachIsPlan

----------------------------------------------------------------------------
(* Why a create that goes on after the object is made loses it to a fault  *)
(* only.                                                                   *)

\* The steps of a pass that create nothing, and those of a create.
Making ==
  \/ (Keeping \/ Stopping) /\ w.mode # "create"
  \/ (Creating \/ (Keeping /\ FairDrop)) /\ Completing'

LEMMA MakingIsSound ==
  ASSUME IInv, Making
  PROVE  Sound /\ Completing'
<1>1. CASE (Keeping \/ Stopping) /\ w.mode # "create"
  <2>1. FairDrop /\ w'.mode # "create"
    BY <1>1, IdleIs DEF FairDrop, Keeping, Kept, Missed, Stopping
  <2> QED BY <1>1, <2>1, ClassesAreSound DEF IInv, Completing
<1>2. CASE (Creating \/ (Keeping /\ FairDrop)) /\ Completing'
  BY <1>2, ClassesAreSound DEF IInv
<1> QED BY <1>1, <1>2 DEF Making

\* Only these steps are taken while an object is being created.
LEMMA OtherStages ==
  ASSUME IInv,
         \/ w.pc \in {"describe", "found", "associations", "version", "entries"}
         \/ \E op : op \notin TyingOps /\ Doing(op)
  PROVE  w.mode # "create"
<1>1. CASE w.pc \in {"describe", "found", "associations", "version", "entries"}
  BY <1>1 DEF IInv, Completing, Ends
<1>2. ASSUME NEW op, op \notin TyingOps, Doing(op), w.mode = "create"
      PROVE  FALSE
  <2>1. IsPlan(w.plan, TyingOps) /\ w.plan # <<>> /\ Head(w.plan)[1] = op
    BY <1>2 DEF IInv, Completing, Doing
  <2>2. Head(w.plan) = w.plan[1] /\ 1 \in 1 .. Len(w.plan)
    BY <2>1, TailIsRest
  <2> QED BY <1>2, <2>1, <2>2, PlansAreSequences
<1> QED BY <1>1, <1>2

LEMMA OverIsCompleting == w'.pc \in {"idle", "create", "patchSpec"} \cup Ends => Completing'
BY DEF Completing, At, Ends

\* An object made in one call.
LEMMA CreateIsMaking ==
  ASSUME IInv, At("create"), NEW obj, NEW next, CreateObject(obj, next),
         WellFormed(obj, cr.spec.kind), DOMAIN next = WorkerFields, next.mode = w.mode,
         next.spec = w.spec, next.end = w.end, next.pc \in {"patchSpec"} \cup Ends
  PROVE  Making
<1>1. Creating \/ (Keeping /\ FairDrop)
  BY CreateKeeps DEF IInv
<1>2. CreateFailed.pc = "failed"
  BY WorkerIs, WorkersKept DEF At, IInv
<1>3. w' = CreateFailed \/ w' = [next EXCEPT !.id = nextId]
  BY DEF CreateObject
<1>4. w'.pc \in {"patchSpec"} \cup Ends
  BY <1>2, <1>3 DEF Ends, WorkerFields
<1> QED BY <1>1, <1>4, OverIsCompleting DEF Making

\* An object that is then tied to others.
LEMMA TyingCreateIsMaking ==
  ASSUME IInv, At("create"), NEW obj, NEW calls, CreateObject(obj, Plan(calls)),
         WellFormed(obj, cr.spec.kind), IsPlan(calls, TyingOps),
         \/ Ops(calls) \cap GatewayOps = {}
         \/ /\ Kind("internet_gateway")
            /\ {"vpc", "tables"} \subseteq DOMAIN obj /\ obj.vpc = NoVPC /\ obj.tables = {}
            /\ \A i \in DOMAIN calls :
                 /\ calls[i][1] = "attach" => i = 1
                 /\ calls[i][1] = "associate" =>
                      \A j \in DOMAIN calls : calls[j][1] = "associate" => i = j
  PROVE  Making
<1> DEFINE next == Plan(calls)
<1>1. /\ DOMAIN next = WorkerFields /\ next.mode = w.mode /\ next.spec = w.spec
      /\ next.end = w.end /\ next.pc = "plan" /\ next.plan = calls
  BY PlannedIs DEF IInv
<1> HIDE DEF next
<1>2. Creating \/ (Keeping /\ FairDrop)
  BY <1>1, CreateKeeps DEF IInv, next
<1>3. CreateFailed.pc = "failed"
  BY WorkerIs, WorkersKept DEF At, IInv
<1>4. CASE w' = CreateFailed
  BY <1>2, <1>3, <1>4, OverIsCompleting DEF Making, Ends
<1>5. CASE w' = [next EXCEPT !.id = nextId] /\ nextId \in Ids
           /\ ec2' = [ec2 EXCEPT ![nextId] = obj]
  <2>1. /\ w'.pc = "plan" /\ w'.plan = calls /\ w'.spec = w.spec /\ w'.id = nextId
    BY <1>1, <1>5 DEF WorkerFields
  <2>2. Obj' = obj
    BY <1>5, <2>1 DEF Obj, IInv, Frame, WellFormedAll, EC2WellFormed
  <2>3. GatewayIsFree'
    BY <2>1, <2>2 DEF GatewayIsFree, Kind
  <2>4. Completing'
    BY <2>1, <2>3 DEF Completing, At
  <2> QED BY <1>2, <2>4 DEF Making
<1> QED BY <1>4, <1>5 DEF CreateObject, next

\* The pass goes on after the first n calls of its plan.
LEMMA GoingOnIsCompleting ==
  ASSUME IInv, At("plan"), w.mode = "create", NEW n \in 1 .. Len(w.plan),
         w'.pc = "plan", w'.id = w.id, w'.spec = w.spec,
         w'.plan = SubSeq(w.plan, n + 1, Len(w.plan)),
         Obj'.live => Obj.live /\ DOMAIN Obj \subseteq DOMAIN Obj',
         \/ w.plan[1][1] = "associate"
         \/ Obj.live /\ Obj'.live /\ "tables" \in DOMAIN Obj => Obj'.tables = Obj.tables
  PROVE  Completing'
<1>1. IsPlan(w.plan, TyingOps) /\ GatewayIsFree
  BY DEF IInv, Completing
<1>2. Len(w.plan) \in Nat /\ DOMAIN w.plan = 1 .. Len(w.plan)
  BY <1>1, PlansAreSequences
<1>3. /\ IsPlan(w'.plan, TyingOps) /\ DOMAIN w'.plan = 1 .. Len(w.plan) - n
      /\ \A i \in 1 .. Len(w.plan) - n : w'.plan[i] = w.plan[i + n]
  BY <1>1, RestIsPlan
<1>4. \A i \in DOMAIN w'.plan :
        i + n \in DOMAIN w.plan /\ w'.plan[i] = w.plan[i + n] /\ i + n # 1 /\ i \in Int
  BY <1>2, <1>3
<1>5. GatewayIsFree'
  <2> SUFFICES ASSUME Ops(w'.plan) \cap GatewayOps # {}
               PROVE  /\ w'.spec.kind = "internet_gateway"
                      /\ Obj'.live => {"vpc", "tables"} \subseteq DOMAIN Obj'
                      /\ \A i \in DOMAIN w'.plan :
                           /\ w'.plan[i][1] # "attach"
                           /\ w'.plan[i][1] = "associate" =>
                                /\ Obj'.live => Obj'.tables = {}
                                /\ \A j \in DOMAIN w'.plan : w'.plan[j][1] = "associate" => i = j
    BY DEF GatewayIsFree, Kind
  <2>1. Ops(w.plan) \cap GatewayOps # {}
    BY <1>4 DEF Ops
  <2>2. /\ w.spec.kind = "internet_gateway"
        /\ Obj.live => {"vpc", "tables"} \subseteq DOMAIN Obj
        /\ \A i \in DOMAIN w.plan :
             /\ w.plan[i][1] = "attach" => i = 1
             /\ w.plan[i][1] = "associate" =>
                  /\ Obj.live => Obj.tables = {}
                  /\ \A j \in DOMAIN w.plan : w.plan[j][1] = "associate" => i = j
    BY <1>1, <2>1 DEF GatewayIsFree, Kind
  <2>3. ASSUME NEW i \in DOMAIN w'.plan
        PROVE  /\ w'.plan[i][1] # "attach"
               /\ w'.plan[i][1] = "associate" =>
                    /\ w.plan[1][1] # "associate"
                    /\ \A j \in DOMAIN w'.plan : w'.plan[j][1] = "associate" => i = j
    <3>1. i + n \in DOMAIN w.plan /\ w'.plan[i] = w.plan[i + n] /\ i + n # 1 /\ i \in Int
      BY <1>4
    <3>2. w'.plan[i][1] # "attach"
      BY <2>2, <3>1
    <3>3. ASSUME w'.plan[i][1] = "associate"
          PROVE  /\ w.plan[1][1] # "associate"
                 /\ \A j \in DOMAIN w'.plan : w'.plan[j][1] = "associate" => i = j
      <4>1. \A j \in DOMAIN w.plan : w.plan[j][1] = "associate" => i + n = j
        BY <2>2, <3>1, <3>3
      <4>2. 1 \in DOMAIN w.plan
        BY <1>2
      <4>3. ASSUME NEW j \in DOMAIN w'.plan, w'.plan[j][1] = "associate"
            PROVE  i = j
        <5>1. j + n \in DOMAIN w.plan /\ w.plan[j + n][1] = "associate" /\ j \in Int
          BY <1>4, <4>3
        <5>2. i + n = j + n
          BY <4>1, <5>1
        <5> QED BY <3>1, <5>1, <5>2
      <4> QED BY <3>1, <4>1, <4>2, <4>3
    <3> QED BY <3>2, <3>3
  <2> QED BY <2>2, <2>3
<1> QED BY <1>3, <1>5 DEF Completing, At

----------------------------------------------------------------------------
(* The kinds that tie what they create to others.                          *)

LEMMA SpecsAreFinite ==
  ASSUME IInv, ~At("idle")
  PROVE  /\ Kind("internet_gateway") => w.spec \in Specs
         /\ Kind("dhcp_options") => IsFiniteSet(w.spec.vpcs)
         /\ Kind("network_acl") => IsFiniteSet(w.spec.entries) /\ IsFiniteSet(w.spec.subnets)
BY ModificationAssumption DEF IInv, SpecsOK, Kind

\* What sdkCreate attaches and associates: one VPC and one table at most.
LEMMA GatewayCallsAre ==
  ASSUME AtMostOneTable, IInv, ~At("idle"), Kind("internet_gateway"),
         NEW tables \in ForEach("associate", w.spec.tables),
         NEW calls, calls = When(w.spec.vpc # NoVPC, "attach", w.spec.vpc) \o tables
  PROVE  /\ IsPlan(calls, TyingOps)
         /\ \A i \in DOMAIN calls :
              /\ calls[i][1] = "attach" => i = 1
              /\ calls[i][1] = "associate" =>
                   \A j \in DOMAIN calls : calls[j][1] = "associate" => i = j
<1>1. \A a, b \in w.spec.tables : a = b
  BY SpecsAreFinite DEF AtMostOneTable, Kind
<1>2. IsPlan(tables, {"associate"}) /\ Len(tables) \in 0 .. 1
  <2>1. CASE w.spec.tables = {}
    BY <2>1, NothingToDo, NoCalls
  <2>2. CASE \E x : x \in w.spec.tables
    <3>1. PICK x : w.spec.tables = {x}
      BY <1>1, <2>2
    <3>2. tables \in ForEach("associate", {x})
      BY <3>1
    <3>3. IsPlan(tables, {"associate"}) /\ Len(tables) = 1
      BY <3>2, OneToDo
    <3> QED BY <3>3
  <2> QED BY <2>1, <2>2
<1> DEFINE first == When(w.spec.vpc # NoVPC, "attach", w.spec.vpc)
<1>3. IsPlan(first, {"attach"}) /\ Len(first) \in 0 .. 1
  <2>1. CASE first = <<>>
    <3>1. IsPlan(<<>>, {"attach"}) /\ Len(<<>>) = 0
      BY NoCalls
    <3> QED BY <2>1, <3>1
  <2>2. CASE first = <<<<"attach", w.spec.vpc>>>>
    <3>1. IsPlan(<<<<"attach", w.spec.vpc>>>>, {"attach"}) /\ Len(<<<<"attach", w.spec.vpc>>>>) = 1
      BY OneCall
    <3> HIDE DEF first
    <3> QED BY <2>2, <3>1
  <2> QED BY <2>1, <2>2 DEF When
<1>4. calls = first \o tables
  OBVIOUS
<1> HIDE DEF first
<1> DEFINE R == Range(first) \cup Range(tables)
<1>5. /\ \A i \in 1 .. Len(first) : first[i][1] = "attach"
      /\ \A i \in 1 .. Len(tables) : tables[i][1] = "associate"
  BY <1>2, <1>3, PlansAreSequences
<1>6. first \in Seq(R) /\ tables \in Seq(R)
  BY <1>2, <1>3, SeqMonotonic DEF IsPlan, Range
<1> HIDE DEF R
<1>7. /\ calls \in Seq(R) /\ Len(calls) = Len(first) + Len(tables)
      /\ \A i \in 1 .. Len(first) + Len(tables) :
           calls[i] = IF i <= Len(first) THEN first[i] ELSE tables[i - Len(first)]
  BY <1>4, <1>6, ConcatProperties
<1>8. DOMAIN calls = 1 .. Len(first) + Len(tables)
  BY <1>7
<1>9. \A i \in DOMAIN calls :
        /\ calls[i][1] \in {"attach", "associate"}
        /\ calls[i][1] = "attach" => i = 1
        /\ calls[i][1] = "associate" => i = Len(first) + 1
  <2> SUFFICES ASSUME NEW i \in DOMAIN calls
               PROVE  /\ calls[i][1] \in {"attach", "associate"}
                      /\ calls[i][1] = "attach" => i = 1
                      /\ calls[i][1] = "associate" => i = Len(first) + 1
    OBVIOUS
  <2>1. CASE i \in 1 .. Len(first)
    BY <1>3, <1>5, <1>7, <1>8, <2>1
  <2>2. CASE i - Len(first) \in 1 .. Len(tables) /\ i > Len(first)
    BY <1>2, <1>3, <1>5, <1>7, <1>8, <2>2
  <2> QED BY <1>2, <1>3, <1>8, <2>1, <2>2
<1> QED BY <1>7, <1>8, <1>9, SequencesArePlans DEF TyingOps, GatewayOps

LEMMA InternetGatewayIsMaking ==
  ASSUME AtMostOneTable, IInv, InternetGatewayStep \/ associateRouteTable
  PROVE  Making
<1>0. Frame
  BY DEF IInv
<1>1. CASE sdkCreateInternetGateway
  <2> DEFINE obj == [live |-> TRUE, vpc |-> NoVPC, tables |-> {}, tags |-> w.spec.tags]
  <2>1. /\ At("create") /\ ~At("idle") /\ Kind("internet_gateway")
        /\ cr.spec.kind = "internet_gateway"
    BY <1>0, <1>1, WorkerIs DEF sdkCreateInternetGateway, Kind, At
  <2>2. PICK tables \in ForEach("associate", w.spec.tables) :
          CreateObject(obj, Plan(When(w.spec.vpc # NoVPC, "attach", w.spec.vpc) \o tables))
    BY <1>1 DEF sdkCreateInternetGateway
  <2>3. /\ WellFormed(obj, cr.spec.kind)
        /\ {"vpc", "tables"} \subseteq DOMAIN obj /\ obj.vpc = NoVPC /\ obj.tables = {}
    BY <2>1 DEF WellFormed, StateKinds
  <2> DEFINE calls == When(w.spec.vpc # NoVPC, "attach", w.spec.vpc) \o tables
  <2>4. /\ IsPlan(calls, TyingOps)
        /\ \A i \in DOMAIN calls :
             /\ calls[i][1] = "attach" => i = 1
             /\ calls[i][1] = "associate" =>
                  \A j \in DOMAIN calls : calls[j][1] = "associate" => i = j
    BY <2>1, GatewayCallsAre
  <2> HIDE DEF obj, calls
  <2>5. CreateObject(obj, Plan(calls))
    BY <2>2 DEF calls
  <2> QED BY <2>1, <2>3, <2>4, <2>5, TyingCreateIsMaking
<1>2. ASSUME NEW op \in GatewayOps, Doing(op), NEW obj, NEW allowed \in BOOLEAN,
             IF Obj.live /\ allowed THEN Call(obj, Done, onError) ELSE Go(onError),
             Obj.live /\ op = "attach" => (Obj.vpc = NoVPC => allowed),
             Obj.live /\ op = "associate" => (Obj.tables = {} => allowed),
             DOMAIN obj = DOMAIN Obj, obj.live = Obj.live,
             op = "attach" => ("tables" \in DOMAIN Obj => obj.tables = Obj.tables),
             Keeping, w.mode = "create"
      PROVE  FairDrop /\ Completing'
  <2>1. /\ At("plan") /\ w.plan # <<>> /\ IsPlan(w.plan, TyingOps) /\ GatewayIsFree
        /\ Head(w.plan)[1] = op
    BY <1>2 DEF IInv, Completing, Doing
  <2>2. /\ Head(w.plan) = w.plan[1] /\ 1 \in 1 .. Len(w.plan) /\ 1 \in DOMAIN w.plan
        /\ Tail(w.plan) = SubSeq(w.plan, 1 + 1, Len(w.plan))
    BY <2>1, TailIsRest, PlansAreSequences
  <2>3. Obj.live => allowed
    <3>1. op \in Ops(w.plan) /\ w.plan[1][1] = op
      BY <2>1, <2>2 DEF Ops
    <3> QED BY <1>2, <2>1, <2>2, <3>1 DEF GatewayIsFree, GatewayOps
  <2>4. /\ onError.pc = "failed" /\ DOMAIN w = WorkerFields /\ w.id \in Ids
        /\ DOMAIN ec2 = Ids
    BY <1>0, <1>2, <2>1, WorkersKept, DoingIs, WorkerIs
       DEF onError, At, Frame, WellFormedAll, EC2WellFormed
  <2>5. CASE w' = onError /\ faults' = faults + 1
    BY <2>4, <2>5, OverIsCompleting DEF FairDrop, Ends
  <2>6. CASE w' = onError /\ ~Obj.live /\ ec2' = ec2
    BY <2>4, <2>6, OverIsCompleting DEF FairDrop, Ends, Live, Obj
  <2>7. CASE w' = Done /\ ec2' = [ec2 EXCEPT ![w.id] = obj]
    <3>1. /\ w'.pc = "plan" /\ w'.id = w.id /\ w'.spec = w.spec /\ w'.plan = Tail(w.plan)
      BY <2>1, <2>4, <2>7 DEF Done, WorkerFields, At
    <3>2. Obj' = obj
      BY <2>4, <2>7, <3>1 DEF Obj
    <3>3. w.plan[1][1] = "associate" \/ ("tables" \in DOMAIN Obj => Obj'.tables = Obj.tables)
      BY <1>2, <2>1, <2>2, <3>2 DEF GatewayOps
    <3>4. Obj'.live => Obj.live /\ DOMAIN Obj \subseteq DOMAIN Obj'
      BY <1>2, <3>2
    <3>5. Completing'
      BY <1>2, <2>1, <2>2, <3>1, <3>3, <3>4, GoingOnIsCompleting
    <3> QED BY <3>1, <3>5 DEF FairDrop
  <2> QED BY <1>2, <2>3, <2>5, <2>6, <2>7 DEF Call, Go
<1>3. CASE attachToVPC
  <2> DEFINE obj == [Obj EXCEPT !.vpc = Arg]
             allowed == Obj.vpc = NoVPC
  <2>1. /\ Doing("attach") /\ allowed \in BOOLEAN
        /\ IF Obj.live /\ allowed THEN Call(obj, Done, onError) ELSE Go(onError)
    BY <1>3 DEF attachToVPC
  <2>2. /\ DOMAIN obj = DOMAIN Obj /\ obj.live = Obj.live
        /\ "tables" \in DOMAIN Obj => obj.tables = Obj.tables
    <3>1. "live" \in DOMAIN Obj
      BY <1>0, <2>1, DoingIs DEF Doing, WellFormed
    <3> QED BY <3>1
  <2>3. Keeping
    BY <1>0, <1>3, InternetGatewayKeeps DEF InternetGatewayStep, Creating, At, attachToVPC, Doing
  <2>4. allowed <=> Obj.vpc = NoVPC
    OBVIOUS
  <2> HIDE DEF obj, allowed
  <2>5. w.mode = "create" => FairDrop /\ Completing'
    BY <1>2, <2>1, <2>2, <2>3, <2>4 DEF GatewayOps
  <2> QED BY <2>3, <2>5 DEF Making
<1>4. CASE associateRouteTable
  <2> DEFINE obj == [Obj EXCEPT !.tables = {Arg}]
             allowed == Obj.tables = {}
  <2>1. /\ Doing("associate") /\ allowed \in BOOLEAN
        /\ IF Obj.live /\ allowed THEN Call(obj, Done, onError) ELSE Go(onError)
    BY <1>4 DEF associateRouteTable
  <2>2. DOMAIN obj = DOMAIN Obj /\ obj.live = Obj.live
    <3>1. "live" \in DOMAIN Obj
      BY <1>0, <2>1, DoingIs DEF Doing, WellFormed
    <3> QED BY <3>1
  <2>3. Keeping
    BY <1>0, <1>4, AssociationsKeep DEF RouteTableAssociationStep
  <2>4. allowed <=> Obj.tables = {}
    OBVIOUS
  <2> HIDE DEF obj, allowed
  <2>5. w.mode = "create" => FairDrop /\ Completing'
    BY <1>2, <2>1, <2>2, <2>3, <2>4 DEF GatewayOps
  <2> QED BY <2>3, <2>5 DEF Making
<1>5. CASE sdkFindInternetGateway \/ customUpdateInternetGateway \/ detachFromVPC
           \/ sdkDeleteInternetGateway
  <2>1. \/ w.pc \in {"describe", "found", "associations", "version", "entries"}
        \/ \E op : op \notin TyingOps /\ Doing(op)
    BY <1>5 DEF sdkFindInternetGateway, Describe, customUpdateInternetGateway, Updating, At,
                detachFromVPC, sdkDeleteInternetGateway, Deleting, TyingOps, GatewayOps
  <2>2. w.mode # "create" /\ ~At("create")
    BY <2>1, OtherStages DEF Doing, At
  <2> QED BY <1>0, <1>5, <2>2, InternetGatewayKeeps DEF InternetGatewayStep, Creating, Making
<1> QED BY <1>1, <1>3, <1>4, <1>5 DEF InternetGatewayStep

\* A call that ties what is being made to something that is no gateway's.
LEMMA TyingCallIsCompleting ==
  ASSUME IInv, NEW op \in TyingOps \ GatewayOps, Doing(op), w.mode = "create",
         NEW n \in 1 .. Len(w.plan), NEW obj, Tame(obj, Obj),
         ec2' = ec2 \/ ec2' = [ec2 EXCEPT ![w.id] = obj],
         DOMAIN Obj \subseteq DOMAIN obj,
         Obj.live /\ "tables" \in DOMAIN Obj => obj.tables = Obj.tables,
         w'.pc = "plan", w'.id = w.id, w'.spec = w.spec,
         w'.plan = SubSeq(w.plan, n + 1, Len(w.plan))
  PROVE  FairDrop /\ Completing'
<1>1. DOMAIN ec2 = Ids /\ w.id \in Ids /\ At("plan")
  BY DoingIs DEF Doing, IInv, Frame, WellFormedAll, EC2WellFormed
<1>2. Obj' = Obj \/ Obj' = obj
  BY <1>1 DEF Obj
<1>3. Obj'.live => Obj.live /\ DOMAIN Obj \subseteq DOMAIN Obj'
  BY <1>2 DEF Tame
<1>4. Obj.live /\ Obj'.live /\ "tables" \in DOMAIN Obj => Obj'.tables = Obj.tables
  BY <1>2
<1>5. Completing'
  BY <1>1, <1>3, <1>4, GoingOnIsCompleting
<1> QED BY <1>5 DEF FairDrop

\* The plan without its first call, as it goes on.
LEMMA HeadOfPlan ==
  ASSUME IInv, w.mode = "create", NEW op, Doing(op)
  PROVE  /\ IsPlan(w.plan, TyingOps) /\ 1 \in 1 .. Len(w.plan)
         /\ Tail(w.plan) = SubSeq(w.plan, 1 + 1, Len(w.plan))
         /\ w.plan[1][1] = op /\ DOMAIN w.plan = 1 .. Len(w.plan) /\ Len(w.plan) \in Nat
<1>1. IsPlan(w.plan, TyingOps) /\ w.plan # <<>>
  BY DEF IInv, Completing, Doing
<1> QED BY <1>1, TailIsRest, PlansAreSequences DEF Doing

LEMMA DHCPOptionsAreMaking ==
  ASSUME IInv, DHCPOptionsStep
  PROVE  Making
<1>0. Frame
  BY DEF IInv
<1>1. CASE sdkCreateDHCPOptions
  <2> DEFINE obj == [live |-> TRUE, vpcs |-> {}, tags |-> w.spec.tags]
  <2>1. /\ At("create") /\ ~At("idle") /\ Kind("dhcp_options")
        /\ cr.spec.kind = "dhcp_options"
    BY <1>0, <1>1, WorkerIs DEF sdkCreateDHCPOptions, Kind, At
  <2>2. PICK calls \in syncVPCs(w.spec.vpcs, {}) : CreateObject(obj, Plan(calls))
    BY <1>1 DEF sdkCreateDHCPOptions
  <2>3. WellFormed(obj, cr.spec.kind)
    BY <2>1 DEF WellFormed, StateKinds
  <2> HIDE DEF obj
  <2>4. IsPlan(calls, {"attachVPC"})
    <3>1. PICK add \in ForEach("attachVPC", w.spec.vpcs \ {}),
               delete \in ForEach("detachVPC", {} \ w.spec.vpcs) : calls = add \o delete
      BY <2>2 DEF syncVPCs
    <3>2. delete = <<>> /\ IsFiniteSet(w.spec.vpcs) /\ add \in ForEach("attachVPC", w.spec.vpcs)
      <4>1. {} \ w.spec.vpcs = {} /\ w.spec.vpcs \ {} = w.spec.vpcs
        OBVIOUS
      <4> QED BY <2>1, <4>1, NothingToDo, SpecsAreFinite
    <3>3. IsPlan(add, {"attachVPC"}) /\ IsPlan(delete, {"attachVPC"})
      BY <3>2, ForEachIsPlan, NoCalls
    <3> QED BY <3>1, <3>3, ConcatIsPlan
  <2>5. IsPlan(calls, TyingOps) /\ Ops(calls) \cap GatewayOps = {}
    BY <2>4 DEF IsPlan, TyingOps, GatewayOps
  <2> QED BY <2>1, <2>2, <2>3, <2>5, TyingCreateIsMaking
<1>2. CASE attachVPC
  <2>1. Keeping
    BY <1>0, <1>2, DHCPOptionsKeep DEF DHCPOptionsStep, Creating, At, attachVPC, Doing
  <2>2. CASE w.mode = "create"
    <3> DEFINE obj == [Obj EXCEPT !.vpcs = @ \cup {Arg}]
    <3>1. /\ Doing("attachVPC") /\ At("plan")
          /\ Call(obj, Done, Unnoticed) \/ Go(Unnoticed)
      BY <1>2 DEF attachVPC, Doing
    <3>2. DOMAIN w = WorkerFields /\ Tame(obj, Obj)
      BY <1>0, <3>1, DoingIs, ChangesAreTame
    <3>3. /\ DOMAIN obj = DOMAIN Obj
          /\ "tables" \in DOMAIN Obj => obj.tables = Obj.tables
      OBVIOUS
    <3> HIDE DEF obj
    <3>4. w' = Done \/ w' = Unnoticed
      BY <3>1 DEF Call, Go
    <3>5. w'.pc = "plan" /\ w'.id = w.id /\ w'.spec = w.spec /\ w'.plan = Tail(w.plan)
      BY <3>1, <3>2, <3>4 DEF Done, Unnoticed, At, WorkerFields
    <3>6. ec2' = ec2 \/ ec2' = [ec2 EXCEPT ![w.id] = obj]
      BY <3>1 DEF Call, Go
    <3>7. "attachVPC" \in TyingOps \ GatewayOps
      BY DEF TyingOps, GatewayOps
    <3>8. 1 \in 1 .. Len(w.plan) /\ w'.plan = SubSeq(w.plan, 1 + 1, Len(w.plan))
      BY <2>2, <3>1, <3>5, HeadOfPlan
    <3>9. FairDrop /\ Completing'
      BY <2>2, <3>1, <3>2, <3>3, <3>5, <3>6, <3>7, <3>8, TyingCallIsCompleting
    <3> QED BY <2>1, <3>9 DEF Making
  <2> QED BY <2>1, <2>2 DEF Making
<1>3. CASE sdkFindDHCPOptions \/ customUpdateDHCPOptions \/ findAfterUpdate \/ detachVPC
           \/ sdkDeleteDHCPOptions
  <2>1. \/ w.pc \in {"describe", "found", "associations", "version", "entries"}
        \/ \E op : op \notin TyingOps /\ Doing(op)
    BY <1>3 DEF sdkFindDHCPOptions, Describe, customUpdateDHCPOptions, Updating, At,
                findAfterUpdate, detachVPC, sdkDeleteDHCPOptions, Deleting, TyingOps, GatewayOps
  <2>2. w.mode # "create" /\ ~At("create")
    BY <2>1, OtherStages DEF Doing, At
  <2> QED BY <1>0, <1>3, <2>2, DHCPOptionsKeep DEF DHCPOptionsStep, Creating, Making
<1> QED BY <1>1, <1>2, <1>3 DEF DHCPOptionsStep

\* orLogged skips the calls of op that are left, the one in hand at least.
LEMMA SkippedIs ==
  ASSUME IInv, w.mode = "create", NEW op, Doing(op)
  PROVE  \E n \in 1 .. Len(w.plan) :
           orLogged(op) = [w EXCEPT !.plan = SubSeq(w.plan, n + 1, Len(w.plan)), !.blind = TRUE]
<1> DEFINE calls == {i \in DOMAIN w.plan : w.plan[i][1] = op}
<1>1. /\ 1 \in 1 .. Len(w.plan) /\ w.plan[1][1] = op /\ DOMAIN w.plan = 1 .. Len(w.plan)
      /\ Len(w.plan) \in Nat
  BY HeadOfPlan
<1>2. IsFiniteSet(1 .. Len(w.plan)) /\ Cardinality(1 .. Len(w.plan)) = Len(w.plan)
  BY <1>1, FS_Interval
<1>3. 1 \in calls /\ calls \subseteq 1 .. Len(w.plan)
  BY <1>1
<1> HIDE DEF calls
<1>4. IsFiniteSet(calls) /\ Cardinality(calls) \in Nat /\ Cardinality(calls) <= Len(w.plan)
  BY <1>2, <1>3, FS_Subset, FS_CardinalityType
<1>5. Cardinality(calls) # 0
  BY <1>3, <1>4, FS_EmptySet
<1>6. Cardinality(calls) \in 1 .. Len(w.plan)
  BY <1>1, <1>4, <1>5
<1>7. orLogged(op) =
        [w EXCEPT !.plan = SubSeq(w.plan, Cardinality(calls) + 1, Len(w.plan)), !.blind = TRUE]
  BY DEF orLogged, calls
<1> QED BY <1>6, <1>7

\* A call of an ACL that is being made, that succeeds or is logged.
LEMMA LoggedCallIsCompleting ==
  ASSUME IInv, w.mode = "create", NEW op \in {"upsert", "createEntry"}, Doing(op),
         NEW obj, Tame(obj, Obj), DOMAIN obj = DOMAIN Obj,
         "tables" \in DOMAIN Obj => obj.tables = Obj.tables,
         Call(obj, Done, orLogged(op)) \/ Go(orLogged(op))
  PROVE  FairDrop /\ Completing'
<1>1. DOMAIN w = WorkerFields /\ w.pc = "plan"
  BY DoingIs DEF IInv, Doing, At
<1>2. ec2' = ec2 \/ ec2' = [ec2 EXCEPT ![w.id] = obj]
  BY DEF Call, Go
<1>3. op \in TyingOps \ GatewayOps
  BY DEF TyingOps, GatewayOps
<1>4. PICK n \in 1 .. Len(w.plan) :
        w'.pc = "plan" /\ w'.id = w.id /\ w'.spec = w.spec
        /\ w'.plan = SubSeq(w.plan, n + 1, Len(w.plan))
  <2>1. CASE w' = Done
    <3>1. /\ 1 \in 1 .. Len(w.plan) /\ Tail(w.plan) = SubSeq(w.plan, 1 + 1, Len(w.plan))
      BY HeadOfPlan
    <3>2. w'.pc = "plan" /\ w'.id = w.id /\ w'.spec = w.spec /\ w'.plan = Tail(w.plan)
      BY <1>1, <2>1 DEF Done, WorkerFields
    <3> QED BY <3>1, <3>2
  <2>2. CASE w' = orLogged(op)
    <3>1. PICK n \in 1 .. Len(w.plan) :
            w' = [w EXCEPT !.plan = SubSeq(w.plan, n + 1, Len(w.plan)), !.blind = TRUE]
      BY <2>2, SkippedIs
    <3> QED BY <1>1, <3>1 DEF WorkerFields
  <2> QED BY <2>1, <2>2 DEF Call, Go
<1> QED BY <1>2, <1>3, <1>4, TyingCallIsCompleting

LEMMA NetworkACLIsMaking ==
  ASSUME IInv, NetworkACLStep
  PROVE  Making
<1>0. Frame
  BY DEF IInv
<1>1. CASE sdkCreateNetworkACL
  <2> DEFINE obj == [live |-> TRUE, entries |-> {}, subnets |-> {}, tags |-> w.spec.tags]
  <2>1. At("create") /\ ~At("idle") /\ Kind("network_acl") /\ cr.spec.kind = "network_acl"
    BY <1>0, <1>1, WorkerIs DEF sdkCreateNetworkACL, Kind, At
  <2>2. WellFormed(obj, cr.spec.kind)
    BY <2>1 DEF WellFormed, StateKinds
  <2>3. PICK subnets \in ForEach("upsert", w.spec.subnets),
             entries \in ForEach("createEntry", w.spec.entries) :
          CreateObject(obj, Plan(subnets \o entries))
    BY <1>1 DEF sdkCreateNetworkACL
  <2> HIDE DEF obj
  <2>4. IsFiniteSet(w.spec.entries) /\ IsFiniteSet(w.spec.subnets)
    BY <2>1, SpecsAreFinite
  <2>5. /\ IsPlan(subnets, {"upsert", "createEntry"}) /\ IsPlan(entries, {"upsert", "createEntry"})
    BY <2>3, <2>4, ForEachIsPlan
  <2> DEFINE calls == subnets \o entries
  <2>6. IsPlan(calls, {"upsert", "createEntry"})
    BY <2>5, ConcatIsPlan
  <2>7. CreateObject(obj, Plan(calls))
    BY <2>3
  <2> HIDE DEF calls
  <2>8. IsPlan(calls, TyingOps) /\ Ops(calls) \cap GatewayOps = {}
    BY <2>6 DEF IsPlan, TyingOps, GatewayOps
  <2> QED BY <2>1, <2>2, <2>7, <2>8, TyingCreateIsMaking
<1>2. CASE createEntry
  <2> DEFINE obj == [Obj EXCEPT !.entries = @ \cup {Arg}]
  <2>1. Keeping
    BY <1>0, <1>2, NetworkACLKeeps DEF NetworkACLStep, Creating, At, createEntry, Doing
  <2>2. /\ Doing("createEntry") /\ At("plan")
        /\ Call(obj, Done, orLogged("createEntry")) \/ Go(orLogged("createEntry"))
    BY <1>2 DEF createEntry, Doing
  <2>3. Tame(obj, Obj) /\ DOMAIN obj = DOMAIN Obj
        /\ ("tables" \in DOMAIN Obj => obj.tables = Obj.tables)
    BY <1>0, <2>2, DoingIs, ChangesAreTame
  <2> HIDE DEF obj
  <2>4. w.mode = "create" => FairDrop /\ Completing'
    BY <2>2, <2>3, LoggedCallIsCompleting
  <2> QED BY <2>1, <2>4 DEF Making
<1>3. CASE upsertNewAssociations
  <2> DEFINE obj == [Obj EXCEPT !.subnets = @ \cup {Arg}]
  <2>1. Keeping
    BY <1>0, <1>3, NetworkACLKeeps DEF NetworkACLStep, Creating, At, upsertNewAssociations, Doing
  <2>2. /\ Doing("upsert") /\ At("plan")
        /\ Call(obj, Done, orLogged("upsert")) \/ Go(orLogged("upsert"))
    BY <1>3 DEF upsertNewAssociations, Doing
  <2>3. Tame(obj, Obj) /\ DOMAIN obj = DOMAIN Obj
        /\ ("tables" \in DOMAIN Obj => obj.tables = Obj.tables)
    BY <1>0, <2>2, DoingIs, ChangesAreTame
  <2> HIDE DEF obj
  <2>4. w.mode = "create" => FairDrop /\ Completing'
    BY <2>2, <2>3, LoggedCallIsCompleting
  <2> QED BY <2>1, <2>4 DEF Making
<1>4. CASE sdkFindNetworkACL \/ customUpdateNetworkAcl \/ deleteEntry \/ updateEntry
           \/ describeDefaultACL \/ deleteOldAssociations \/ findACLAfterUpdate
           \/ refuseEntries \/ sdkDeleteNetworkACL
  <2>1. \/ w.pc \in {"describe", "found", "associations", "version", "entries"}
        \/ \E op : op \notin TyingOps /\ Doing(op)
    BY <1>4 DEF sdkFindNetworkACL, Describe, customUpdateNetworkAcl, Updating, At, deleteEntry,
                updateEntry, describeDefaultACL, deleteOldAssociations, findACLAfterUpdate,
                refuseEntries, sdkDeleteNetworkACL, Deleting, TyingOps, GatewayOps
  <2>2. w.mode # "create" /\ ~At("create")
    BY <2>1, OtherStages DEF Doing, At
  <2> QED BY <1>0, <1>4, <2>2, NetworkACLKeeps DEF NetworkACLStep, Creating, Making
<1> QED BY <1>1, <1>2, <1>3, <1>4 DEF NetworkACLStep

----------------------------------------------------------------------------
(* The other kinds.                                                        *)

LEMMA RouteTableAssociationsAreMaking ==
  ASSUME AtMostOneTable, IInv, RouteTableAssociationStep
  PROVE  Making
<1>1. CASE readRouteTables \/ updateRouteTableAssociations \/ disassociateRouteTable
  <2>1. \/ w.pc \in {"describe", "found", "associations", "version", "entries"}
        \/ \E op : op \notin TyingOps /\ Doing(op)
    BY <1>1 DEF readRouteTables, updateRouteTableAssociations, disassociateRouteTable, At,
                TyingOps, GatewayOps
  <2>2. w.mode # "create"
    BY <2>1, OtherStages
  <2> QED BY <2>2, AssociationsKeep DEF IInv, Making
<1> QED BY <1>1, InternetGatewayIsMaking DEF RouteTableAssociationStep

LEMMA SubnetIsMaking ==
  ASSUME IInv, SubnetStep
  PROVE  Making
<1>0. Frame
  BY DEF IInv
<1>1. CASE sdkCreateSubnet
  <2>1. At("create") /\ ~At("idle") /\ cr.spec.kind = "subnet"
    BY <1>0, <1>1, WorkerIs DEF sdkCreateSubnet, Kind, At
  <2>2. WellFormed(newSubnet, cr.spec.kind)
    BY <2>1 DEF WellFormed, newSubnet, StateKinds
  <2> QED BY <1>0, <1>1, <2>1, <2>2, PlannedIs, CreateIsMaking DEF sdkCreateSubnet, Ends
<1>2. CASE ~sdkCreateSubnet
  <2>1. \/ w.pc \in {"describe", "found", "associations", "version", "entries"}
        \/ \E op : op \notin TyingOps /\ Doing(op)
    BY <1>2 DEF SubnetStep, sdkFindSubnet, Describe, customUpdateSubnet, Updating, At,
                updateSubnetAttribute, sdkDeleteSubnet, Deleting, TyingOps, GatewayOps
  <2>2. w.mode # "create" /\ ~At("create")
    BY <2>1, OtherStages DEF Doing, At
  <2> QED BY <1>0, <2>2, SubnetKeeps DEF Creating, Making
<1> QED BY <1>1, <1>2

LEMMA InstanceIsMaking ==
  ASSUME IInv, InstanceStep
  PROVE  Making
<1>0. Frame
  BY DEF IInv
<1>1. CASE sdkCreateInstance
  <2>1. At("create") /\ ~At("idle") /\ cr.spec.kind = "instance"
    BY <1>0, <1>1, WorkerIs DEF sdkCreateInstance, Kind, At
  <2>2. WellFormed(newInstance, cr.spec.kind)
    BY <2>1 DEF WellFormed, newInstance, Ending
  <2> QED BY <1>0, <1>1, <2>1, <2>2, PlannedIs, CreateIsMaking DEF sdkCreateInstance, Ends
<1>2. CASE ~sdkCreateInstance
  <2>1. \/ w.pc \in {"describe", "found", "associations", "version", "entries"}
        \/ \E op : op \notin TyingOps /\ Doing(op)
    BY <1>2 DEF InstanceStep, sdkFindInstance, Describe, customUpdateInstance, Updating, At,
                modifyInstanceAttributes, sdkDeleteInstance, Deleting, TyingOps, GatewayOps
  <2>2. w.mode # "create" /\ ~At("create")
    BY <2>1, OtherStages DEF Doing, At
  <2> QED BY <1>0, <2>2, InstanceKeeps DEF Creating, Making
<1> QED BY <1>1, <1>2

LEMMA LaunchTemplateIsMaking ==
  ASSUME IInv, LaunchTemplateStep
  PROVE  Making
<1>0. Frame
  BY DEF IInv
<1>1. CASE sdkCreateLaunchTemplate
  <2>1. At("create") /\ ~At("idle") /\ cr.spec.kind = "launch_template"
    BY <1>0, <1>1, WorkerIs DEF sdkCreateLaunchTemplate, Kind, At
  <2>2. CASE CreateObject(newLaunchTemplate, [w EXCEPT !.pc = "patchSpec", !.version = 1])
    <3>1. WellFormed(newLaunchTemplate, cr.spec.kind)
      BY <2>1 DEF WellFormed, newLaunchTemplate, StateKinds
    <3> DEFINE next == [w EXCEPT !.pc = "patchSpec", !.version = 1]
    <3>2. /\ DOMAIN next = WorkerFields /\ next.mode = w.mode /\ next.spec = w.spec
          /\ next.end = w.end /\ next.pc = "patchSpec"
      BY <1>0, <2>1, PlannedIs
    <3> HIDE DEF next
    <3>3. CreateObject(newLaunchTemplate, next)
      BY <2>2 DEF next
    <3> QED BY <2>1, <3>1, <3>2, <3>3, CreateIsMaking
  <2>3. CASE Go(CreateFailed)
    <3>1. w.id = cr.id /\ CreateFailed.id = cr.id /\ CreateFailed.pc = "failed"
          /\ Kept(CreateFailed)
      BY <1>0, <2>1, WorkerIs, WorkersKept DEF At
    <3>2. Keeping
      BY <1>0, <2>1, <2>3, <3>1, GoKeeps
    <3>3. FairDrop /\ Completing'
      BY <2>3, <3>1, OverIsCompleting DEF Go, FairDrop, Ends
    <3> QED BY <3>2, <3>3 DEF Making
  <2> QED BY <1>1, <2>2, <2>3 DEF sdkCreateLaunchTemplate
<1>2. CASE patchSpec
  <2>1. w'.pc = "synced" /\ w'.id = w.id /\ ~At("create")
    BY <1>0, <1>2, InHand DEF patchSpec, WorkerFields, At, Working
  <2>2. Completing' /\ FairDrop
    BY <2>1, OverIsCompleting DEF Ends, FairDrop
  <2>3. w'.pc # "idle" /\ Keeping
    BY <1>0, <1>2, <2>1, LaunchTemplateKeeps, IdleIs
       DEF LaunchTemplateStep, Creating, Stopping
  <2> QED BY <2>2, <2>3 DEF Making
<1>3. CASE ~sdkCreateLaunchTemplate /\ ~patchSpec
  <2>1. \/ w.pc \in {"describe", "found", "associations", "version", "entries"}
        \/ \E op : op \notin TyingOps /\ Doing(op)
    BY <1>3 DEF LaunchTemplateStep, sdkFindLaunchTemplate, Describe,
                setLatestLaunchTemplateAttributes, sdkUpdateLaunchTemplate, Updating, At,
                CreateLaunchTemplateVersion, updateDefaultVersion, returnNothing,
                sdkDeleteLaunchTemplate, Deleting, TyingOps, GatewayOps
  <2>2. w.mode # "create" /\ ~At("create")
    BY <2>1, OtherStages DEF Doing, At
  <2> QED BY <1>0, <2>2, LaunchTemplateKeeps DEF Creating, Making
<1> QED BY <1>1, <1>2, <1>3

LEMMA ManagedPrefixListIsMaking ==
  ASSUME IInv, ManagedPrefixListStep
  PROVE  Making
<1>0. Frame
  BY DEF IInv
<1>1. CASE sdkCreateManagedPrefixList
  <2>1. At("create") /\ ~At("idle") /\ cr.spec.kind = "managed_prefix_list"
    BY <1>0, <1>1, WorkerIs DEF sdkCreateManagedPrefixList, Kind, At
  <2>2. WellFormed(newManagedPrefixList, cr.spec.kind)
    BY <2>1 DEF WellFormed, newManagedPrefixList, Ending
  <2> DEFINE next == [w EXCEPT !.pc = "requeue", !.version = 0]
  <2>3. /\ DOMAIN next = WorkerFields /\ next.mode = w.mode /\ next.spec = w.spec
        /\ next.end = w.end /\ next.pc = "requeue"
    BY <1>0, <2>1, PlannedIs
  <2> HIDE DEF next
  <2>4. CreateObject(newManagedPrefixList, next)
    BY <1>1 DEF next, sdkCreateManagedPrefixList
  <2> QED BY <2>1, <2>2, <2>3, <2>4, CreateIsMaking DEF Ends
<1>2. CASE ~sdkCreateManagedPrefixList
  <2>1. \/ w.pc \in {"describe", "found", "associations", "version", "entries"}
        \/ \E op : op \notin TyingOps /\ Doing(op)
    BY <1>2 DEF ManagedPrefixListStep, sdkFindManagedPrefixList, Describe,
                getManagedPrefixListEntries, customUpdateManagedPrefixList, Updating, At,
                ModifyManagedPrefixList, sdkDeleteManagedPrefixList, Deleting, TyingOps,
                GatewayOps
  <2>2. w.mode # "create" /\ ~At("create")
    BY <2>1, OtherStages DEF Doing, At
  <2> QED BY <1>0, <2>2, ManagedPrefixListKeeps DEF Creating, Making
<1> QED BY <1>1, <1>2

LEMMA CapacityReservationIsMaking ==
  ASSUME IInv, CapacityReservationStep
  PROVE  Making
<1>0. Frame
  BY DEF IInv
<1>1. CASE sdkCreateCapacityReservation
  <2>1. At("create") /\ ~At("idle") /\ cr.spec.kind = "capacity_reservation"
    BY <1>0, <1>1, WorkerIs DEF sdkCreateCapacityReservation, Kind, At
  <2>2. WellFormed(newCapacityReservation, cr.spec.kind)
    BY <2>1 DEF WellFormed, newCapacityReservation, StateKinds
  <2> QED BY <1>0, <1>1, <2>1, <2>2, PlannedIs, CreateIsMaking
          DEF sdkCreateCapacityReservation, Ends
<1>2. CASE ~sdkCreateCapacityReservation
  <2>1. \/ w.pc \in {"describe", "found", "associations", "version", "entries"}
        \/ \E op : op \notin TyingOps /\ Doing(op)
    BY <1>2 DEF CapacityReservationStep, sdkFindCapacityReservation, Describe,
                sdkUpdateCapacityReservation, Updating, At, modifyCapacityReservation,
                findReservationAfterUpdate, sdkDeleteCapacityReservation, Deleting, TyingOps,
                GatewayOps
  <2>2. w.mode # "create" /\ ~At("create")
    BY <2>1, OtherStages DEF Doing, At
  <2> QED BY <1>0, <2>2, CapacityReservationKeeps DEF Creating, Making
<1> QED BY <1>1, <1>2

----------------------------------------------------------------------------
(* The invariant.                                                          *)

LEMMA ClassesKeepSpecs ==
  ASSUME SpecsOK, Keeping \/ Stopping \/ Elsewhere \/ Creating
  PROVE  SpecsOK'
<1>1. cr'.spec = cr.spec \/ (cr.spec.kind = "launch_template" /\ cr'.spec.kind = cr.spec.kind)
  BY DEF Keeping, Stopping, Elsewhere, Creating, CRKeeps
<1>2. w'.pc = "idle" \/ (~At("idle") /\ w'.spec = w.spec)
  BY IdleIs DEF Keeping, Kept, Missed, Stopping, Elsewhere, Creating, At
<1> QED BY <1>1, <1>2 DEF SpecsOK, At

LEMMA MakingIsCorrect ==
  ASSUME IInv, Making
  PROVE  Sound /\ Completing' /\ SpecsOK'
BY MakingIsSound, ClassesKeepSpecs DEF IInv, Making

LEMMA RuntimeIsSound ==
  ASSUME IInv, RuntimeStep
  PROVE  Sound /\ Completing' /\ SpecsOK'
<1>0. Frame /\ SpecsOK
  BY DEF IInv
<1>1. CASE Begin
  <2>1. /\ UNCHANGED cr /\ w'.spec = cr.spec
        /\ w'.mode = IF cr.phase = "deleting" THEN "delete" ELSE "update"
    BY <1>1 DEF Begin, Go, IdleWorker
  <2>2. Completing' /\ SpecsOK'
    BY <1>0, <2>1 DEF Completing, SpecsOK
  <2> QED BY <1>0, <1>1, <2>2, BeginIsSound
<1>2. CASE setResourceManaged
  <2>1. DOMAIN w = WorkerFields /\ DOMAIN cr = CRFields /\ ~At("idle")
    BY <1>0, <1>2, WorkerIs DEF setResourceManaged, At, Frame, WellFormedAll, CRWellFormed
  <2>2. /\ w'.pc = "idle" \/ (w'.pc = "create" /\ w'.spec = w.spec)
        /\ cr'.spec = cr.spec
    BY <1>2, <2>1, IdleIs DEF setResourceManaged, WorkerFields, CRFields
  <2>3. Completing' /\ SpecsOK'
    BY <1>0, <2>1, <2>2, OverIsCompleting DEF SpecsOK, At
  <2> QED BY <1>0, <1>2, <2>3, setResourceManagedIsSound
<1>3. CASE syncTags \/ returnDesired
  <2>1. \E op : op \notin TyingOps /\ Doing(op)
    BY <1>3 DEF syncTags, returnDesired, TyingOps, GatewayOps
  <2>2. w.mode # "create"
    BY <2>1, OtherStages
  <2>3. Keeping
    BY <1>0, <1>3, syncTagsKeeps, PlanStepsKeep
  <2> QED BY <2>2, <2>3, MakingIsCorrect DEF Making
<1>4. CASE finish
  <2>1. w'.pc \in Ends
    BY <1>0, <1>4, DoingIs DEF finish, Go, Over, WorkerFields
  <2>2. Completing'
    BY <2>1, OverIsCompleting
  <2> QED BY <1>0, <1>4, <2>2, PlanStepsKeep, MakingIsCorrect DEF Making
<1>5. CASE setResourceUnmanaged \/ PatchStatus
  <2>1. DOMAIN cr = CRFields
    BY <1>0 DEF Frame, WellFormedAll, CRWellFormed
  <2>2. cr'.spec = cr.spec /\ w'.pc = "idle"
    BY <1>5, <2>1, IdleIs DEF setResourceUnmanaged, PatchStatus, CRFields
  <2>3. Completing' /\ SpecsOK'
    BY <1>0, <2>2, OverIsCompleting DEF SpecsOK, At
  <2> QED BY <1>0, <1>5, <2>3, setResourceUnmanagedIsSound, PatchStatusIsSound
<1> QED BY <1>1, <1>2, <1>3, <1>4, <1>5 DEF RuntimeStep

LEMMA WorldIsSound ==
  ASSUME IInv, WorldStep
  PROVE  Sound /\ Completing' /\ SpecsOK'
<1>0. Frame /\ SpecsOK /\ Completing /\ DOMAIN cr = CRFields
  BY DEF IInv, Frame, WellFormedAll, CRWellFormed
<1>1. CASE Crash
  <2>1. w'.pc = "idle" /\ UNCHANGED cr
    BY <1>1, IdleIs DEF Crash, Unread
  <2>2. Completing' /\ SpecsOK'
    BY <1>0, <2>1, OverIsCompleting DEF SpecsOK, At
  <2> QED BY <1>0, <2>2, WorldStepIsSound
<1>2. CASE EditSpec \/ DeleteCR \/ RecreateCR
  <2>1. UNCHANGED <<ec2, w>>
    BY <1>2 DEF EditSpec, DeleteCR, RecreateCR
  <2>2. cr'.spec = cr.spec \/ cr'.spec \in Specs
    BY <1>0, <1>2 DEF EditSpec, DeleteCR, RecreateCR, NewCR, CRFields
  <2>3. Completing' /\ SpecsOK'
    BY <1>0, <2>1, <2>2 DEF Completing, SpecsOK, At, GatewayIsFree, Kind, Obj
  <2> QED BY <1>0, <2>3, WorldStepIsSound
<1> QED BY <1>1, <1>2 DEF WorldStep

\* What others do to a gateway frees it, or leaves it as it was.
Freeing ==
  Kind("internet_gateway") /\ w.id \in Ids /\ Obj'.live =>
    /\ Obj.live /\ DOMAIN Obj' = DOMAIN Obj
    /\ "vpc" \in DOMAIN Obj => Obj'.vpc \in {Obj.vpc, NoVPC}
    /\ "tables" \in DOMAIN Obj => Obj'.tables \in {Obj.tables, {}}

LEMMA ElsewhereIsSound ==
  ASSUME IInv, Elsewhere, Freeing
  PROVE  Sound /\ Completing' /\ SpecsOK'
<1>1. Frame /\ SpecsOK /\ Completing
  BY DEF IInv
<1>2. /\ w'.pc = w.pc /\ w'.mode = w.mode /\ w'.id = w.id /\ w'.spec = w.spec
      /\ w'.plan = w.plan
  BY DEF Elsewhere
<1>3. At("plan") => w.id \in Ids
  BY <1>1, DoingIs
<1>4. At("plan") /\ GatewayIsFree => GatewayIsFree'
  <2> SUFFICES ASSUME At("plan"), GatewayIsFree, Ops(w.plan) \cap GatewayOps # {}
               PROVE  GatewayIsFree'
    BY <1>2 DEF GatewayIsFree
  <2>1. /\ Kind("internet_gateway") /\ w.id \in Ids
        /\ Obj.live => {"vpc", "tables"} \subseteq DOMAIN Obj
        /\ \A i \in DOMAIN w.plan :
             /\ w.plan[i][1] = "attach" => i = 1 /\ (Obj.live => Obj.vpc = NoVPC)
             /\ w.plan[i][1] = "associate" =>
                  /\ Obj.live => Obj.tables = {}
                  /\ \A j \in DOMAIN w.plan : w.plan[j][1] = "associate" => i = j
    BY <1>3 DEF GatewayIsFree
  <2>2. Obj'.live =>
          /\ Obj.live /\ {"vpc", "tables"} \subseteq DOMAIN Obj'
          /\ Obj'.vpc \in {Obj.vpc, NoVPC} /\ Obj'.tables \in {Obj.tables, {}}
    BY <2>1 DEF Freeing
  <2> QED BY <1>2, <2>1, <2>2 DEF GatewayIsFree, Kind
<1>5. Completing'
  BY <1>1, <1>2, <1>4 DEF Completing, At
<1> QED BY <1>1, <1>5, ClassesAreSound, ClassesKeepSpecs

\* A pass in flight is for the kind of the CR.
LEMMA FreeingOtherKinds ==
  ASSUME IInv, cr.spec.kind # "internet_gateway"
  PROVE  At("idle") \/ Freeing
<1>1. ~At("idle") => ~Kind("internet_gateway")
  BY WorkerIs DEF IInv, Kind
<1> QED BY <1>1 DEF Freeing

LEMMA IdleElsewhereIsSound ==
  ASSUME IInv, Elsewhere, At("idle") \/ Freeing
  PROVE  Sound /\ Completing' /\ SpecsOK'
<1>1. CASE At("idle")
  <2>1. Completing'
    BY <1>1, OverIsCompleting DEF Elsewhere, At
  <2> QED BY <1>1, <2>1, ClassesAreSound, ClassesKeepSpecs DEF IInv
<1> QED BY <1>1, ElsewhereIsSound

LEMMA DriftIsFreeing ==
  ASSUME IInv, Drift
  PROVE  At("idle") \/ Freeing
<1>1. CASE cr.spec.kind = "internet_gateway"
  <2>1. PICK i \in Live : InternetGatewayDrift(i)
    BY <1>1 DEF Drift
  <2>2. \/ OtherClient(i, [ec2[i] EXCEPT !.tables = {}])
        \/ OtherClient(i, [ec2[i] EXCEPT !.vpc = NoVPC])
    BY <2>1 DEF InternetGatewayDrift, DisassociatedByOthers
  <2>3. DOMAIN w = WorkerFields /\ DOMAIN ec2 = Ids
    BY DEF IInv, Frame, WellFormedAll, WorkerWellFormed, EC2WellFormed
  <2>4. w'.id = w.id
    BY <2>2, <2>3 DEF OtherClient, WorkerFields
  <2>5. CASE OtherClient(i, [ec2[i] EXCEPT !.tables = {}])
    BY <2>1, <2>3, <2>4, <2>5 DEF OtherClient, Freeing, Obj, Live
  <2>6. CASE OtherClient(i, [ec2[i] EXCEPT !.vpc = NoVPC])
    BY <2>1, <2>3, <2>4, <2>6 DEF OtherClient, Freeing, Obj, Live
  <2> QED BY <2>2, <2>5, <2>6
<1> QED BY <1>1, FreeingOtherKinds

LEMMA ReconcileIsSound ==
  ASSUME AtMostOneTable, IInv, Reconcile
  PROVE  Sound /\ Completing' /\ SpecsOK'
<1>1. RuntimeStep \/ Making
  BY RouteTableAssociationsAreMaking, SubnetIsMaking, InternetGatewayIsMaking,
     DHCPOptionsAreMaking, NetworkACLIsMaking, InstanceIsMaking, LaunchTemplateIsMaking,
     ManagedPrefixListIsMaking, CapacityReservationIsMaking
     DEF Reconcile
<1> QED BY <1>1, RuntimeIsSound, MakingIsCorrect

LEMMA NextIsSound ==
  ASSUME AtMostOneTable, IInv, [Next]_vars
  PROVE  Sound /\ Completing' /\ SpecsOK'
<1>1. CASE UNCHANGED vars
  <2>1. UNCHANGED <<cr, w, ec2>>
    BY <1>1 DEF vars
  <2>2. Completing' /\ SpecsOK'
    BY <2>1 DEF IInv, Completing, SpecsOK, At, GatewayIsFree, Kind, Obj
  <2> QED BY <1>1, <2>2, StutterIsSound DEF IInv
<1>2. CASE Drift
  BY <1>2, DriftIs, DriftIsFreeing, IdleElsewhereIsSound DEF IInv
<1>3. CASE (\E i \in Ids : Settle(i)) \/ Fails
  <2>1. cr.spec.kind # "internet_gateway"
    BY <1>3 DEF Settle, Fails
  <2> QED BY <1>3, <2>1, SettleIs, FailsIs, FreeingOtherKinds, IdleElsewhereIsSound DEF IInv
<1> QED BY <1>1, <1>2, <1>3, ReconcileIsSound, WorldIsSound DEF Next

LEMMA InvInit == Init => IInv
<1> SUFFICES ASSUME Init PROVE IInv
  OBVIOUS
<1>1. w.mode = "update" /\ At("idle")
  BY IdleIs DEF Init, At
<1>2. cr.spec \in Specs
  BY DEF Init, NewCR
<1> QED BY <1>1, <1>2, FrameInit DEF IInv, Completing, SpecsOK

\* An object that no CR has recorded and no pass has in hand has cost a fault, as
\* long as an internet gateway is given one route table at most: there are never
\* more of them than faults.  The calls that sdkCreate makes once it has the object
\* either succeed, or are logged, or their error is dropped; a gateway that is new
\* takes its VPC and its route table.
THEOREM OrphanCorrect == AtMostOneTable /\ Spec => []OrphanNeedsFault
<1> SUFFICES ASSUME AtMostOneTable PROVE Spec => []OrphanNeedsFault
  OBVIOUS
<1>1. IInv /\ [Next]_vars => IInv'
  BY NextIsSound DEF IInv, Sound
<1>2. IInv /\ OrphanNeedsFault /\ [Next]_vars => OrphanNeedsFault'
  BY NextIsSound, OrphanStep DEF IInv
<1> QED BY <1>1, <1>2, InvInit, OrphanInit, PTL DEF Spec

----------------------------------------------------------------------------
(* The steps of a CR.                                                      *)

Counted == drifts \in Nat

\* A CR is of the same kind all its life.
LEMMA KindStays ==
  ASSUME Frame, [Next]_vars
  PROVE  cr'.spec.kind = cr.spec.kind
<1>1. CASE Keeping \/ Stopping \/ Elsewhere \/ Creating
  BY <1>1 DEF Keeping, Stopping, Elsewhere, Creating, CRKeeps
<1>2. DOMAIN cr = CRFields
  BY DEF Frame, WellFormedAll, CRWellFormed
<1>3. CASE RuntimeStep
  <2>1. CASE Begin \/ returnDesired \/ finish \/ syncTags
    <3>1. UNCHANGED cr
      BY <2>1 DEF Begin, returnDesired, finish, syncTags, Go, Call
    <3> QED BY <3>1
  <2>2. CASE setResourceManaged \/ setResourceUnmanaged \/ PatchStatus
    BY <1>2, <2>2 DEF setResourceManaged, setResourceUnmanaged, PatchStatus, CRFields
  <2> QED BY <1>3, <2>1, <2>2 DEF RuntimeStep
<1>4. CASE WorldStep
  <2>1. CASE Crash
    BY <2>1 DEF Crash, Unread
  <2>2. CASE EditSpec
    BY <1>2, <2>2 DEF EditSpec, CRFields
  <2>3. CASE DeleteCR
    BY <1>2, <2>3 DEF DeleteCR, CRFields
  <2>4. CASE RecreateCR
    BY <2>4 DEF RecreateCR, NewCR
  <2> QED BY <1>4, <2>1, <2>2, <2>3, <2>4 DEF WorldStep
<1>5. CASE UNCHANGED vars
  BY <1>5 DEF vars
<1>6. CASE Reconcile
  <2>1. RuntimeStep \/ Keeping \/ Creating \/ Stopping
    BY <1>6, AssociationsKeep, SubnetKeeps, InternetGatewayKeeps, DHCPOptionsKeep,
       NetworkACLKeeps, InstanceKeeps, LaunchTemplateKeeps, ManagedPrefixListKeeps,
       CapacityReservationKeeps
       DEF Reconcile
  <2> QED BY <1>1, <1>3, <2>1
<1>7. CASE Drift \/ (\E i \in Ids : Settle(i)) \/ Fails
  BY <1>1, <1>7, DriftIs, SettleIs, FailsIs
<1> QED BY <1>4, <1>5, <1>6, <1>7 DEF Next

\* Only another client counts as one.
LEMMA PassesDoNotDrift ==
  ASSUME Reconcile
  PROVE  UNCHANGED drifts
<1>1. CASE RuntimeStep
  BY <1>1 DEF RuntimeStep, Begin, setResourceManaged, syncTags, returnDesired, finish,
              setResourceUnmanaged, PatchStatus, Go, Call, env
<1>2. CASE RouteTableAssociationStep
  BY <1>2 DEF RouteTableAssociationStep, readRouteTables, updateRouteTableAssociations,
              disassociateRouteTable, associateRouteTable, DescribeRouteTables, Go, Call, env
<1>3. CASE SubnetStep
  BY <1>3 DEF SubnetStep, sdkFindSubnet, sdkCreateSubnet, customUpdateSubnet,
              updateSubnetAttribute, sdkDeleteSubnet, Describe, CreateObject, Delete, Go,
              Call, Unread, env
<1>4. CASE InternetGatewayStep
  BY <1>4 DEF InternetGatewayStep, sdkFindInternetGateway, sdkCreateInternetGateway,
              customUpdateInternetGateway, detachFromVPC, attachToVPC,
              sdkDeleteInternetGateway, Describe, CreateObject, Delete, Go, Call, Unread, env
<1>5. CASE DHCPOptionsStep
  BY <1>5 DEF DHCPOptionsStep, sdkFindDHCPOptions, sdkCreateDHCPOptions,
              customUpdateDHCPOptions, findAfterUpdate, attachVPC, detachVPC,
              sdkDeleteDHCPOptions, Describe, CreateObject, Delete, Go, Call, Unread, env
<1>6. CASE NetworkACLStep
  BY <1>6 DEF NetworkACLStep, sdkFindNetworkACL, sdkCreateNetworkACL, customUpdateNetworkAcl,
              createEntry, deleteEntry, updateEntry, upsertNewAssociations,
              describeDefaultACL, deleteOldAssociations, findACLAfterUpdate, refuseEntries,
              sdkDeleteNetworkACL, Describe, CreateObject, Delete, Go, Call, Unread, env
<1>7. CASE InstanceStep
  BY <1>7 DEF InstanceStep, sdkFindInstance, sdkCreateInstance, customUpdateInstance,
              modifyInstanceAttributes, sdkDeleteInstance, Describe, CreateObject, Delete, Go,
              Call, Unread, env
<1>8. CASE LaunchTemplateStep
  BY <1>8 DEF LaunchTemplateStep, sdkFindLaunchTemplate, Describe,
              setLatestLaunchTemplateAttributes, sdkCreateLaunchTemplate, CreateObject,
              patchSpec, sdkUpdateLaunchTemplate, CreateLaunchTemplateVersion,
              updateDefaultVersion, returnNothing, sdkDeleteLaunchTemplate, Delete, Go,
              Call, Unread, env
<1>9. CASE ManagedPrefixListStep
  BY <1>9 DEF ManagedPrefixListStep, sdkFindManagedPrefixList, getManagedPrefixListEntries,
              sdkCreateManagedPrefixList, customUpdateManagedPrefixList,
              ModifyManagedPrefixList, sdkDeleteManagedPrefixList, Describe, CreateObject,
              Delete, Go, Call, Unread, env
<1>10. CASE CapacityReservationStep
  BY <1>10 DEF CapacityReservationStep, sdkFindCapacityReservation,
               sdkCreateCapacityReservation, sdkUpdateCapacityReservation,
               modifyCapacityReservation, findReservationAfterUpdate,
               sdkDeleteCapacityReservation, Describe, CreateObject, Delete, Go, Call,
               Unread, env
<1> QED BY <1>1, <1>2, <1>3, <1>4, <1>5, <1>6, <1>7, <1>8, <1>9, <1>10 DEF Reconcile

LEMMA DriftCounts ==
  ASSUME Drift
  PROVE  drifts' = drifts + 1
<1>1. PICK i \in Live :
        \/ SubnetDrift(i) \/ InternetGatewayDrift(i) \/ DHCPOptionsDrift(i)
        \/ NetworkACLDrift(i) \/ InstanceDrift(i) \/ LaunchTemplateDrift(i)
        \/ ManagedPrefixListDrift(i) \/ CapacityReservationDrift(i)
  BY DEF Drift
<1>2. \A obj : OtherClient(i, obj) => drifts' = drifts + 1
  BY DEF OtherClient
<1> QED BY <1>1, <1>2
        DEF SubnetDrift, InternetGatewayDrift, DisassociatedByOthers, DHCPOptionsDrift,
            NetworkACLDrift, InstanceDrift, LaunchTemplateDrift, ManagedPrefixListDrift,
            CapacityReservationDrift

LEMMA CountedStep ==
  ASSUME Counted, [Next]_vars
  PROVE  Counted' /\ (~Drift => UNCHANGED drifts)
<1>1. CASE UNCHANGED vars \/ WorldStep
  BY <1>1 DEF Counted, vars, WorldStep, Crash, Unread, EditSpec, DeleteCR, RecreateCR, env
<1>2. CASE Reconcile
  BY <1>2, PassesDoNotDrift DEF Counted
<1>3. CASE Drift
  BY <1>3, DriftCounts DEF Counted
<1>4. CASE (\E i \in Ids : Settle(i)) \/ Fails
  <2>1. PICK i \in Ids : InstanceSettles(i) \/ ManagedPrefixListSettles(i)
                         \/ ManagedPrefixListFails(i)
    BY <1>4 DEF Settle, Fails, Live
  <2>2. \A obj : Background(i, obj) => UNCHANGED drifts
    BY DEF Background, env
  <2>3. UNCHANGED drifts
    BY <2>1, <2>2
       DEF InstanceSettles, ManagedPrefixListSettles, ManagedPrefixListFails, env
  <2> QED BY <2>3 DEF Counted
<1> QED BY <1>1, <1>2, <1>3, <1>4 DEF Next

----------------------------------------------------------------------------
(* What is declared and in place is not taken away: the invariant.         *)

TieKinds == {"subnet", "internet_gateway", "dhcp_options", "network_acl"}

\* The objects of these kinds that EC2 has, and what is tied to them.
Healthy(obj, kind) ==
  kind \in TieKinds => obj = Gone \/
    /\ obj.live
    /\ kind \in {"subnet", "internet_gateway"} => "tables" \in DOMAIN obj /\ IsFiniteSet(obj.tables)
    /\ kind = "internet_gateway" => "vpc" \in DOMAIN obj
    /\ kind = "dhcp_options" => "vpcs" \in DOMAIN obj /\ IsFiniteSet(obj.vpcs)
    /\ kind = "network_acl" =>
         /\ "entries" \in DOMAIN obj /\ IsFiniteSet(obj.entries) /\ Numbered(obj.entries)
         /\ "subnets" \in DOMAIN obj /\ IsFiniteSet(obj.subnets)

ObjectsHealthy == \A i \in Ids : Healthy(ec2[i], cr.spec.kind)

\* The calls an update of these kinds makes.
UpdateOps ==
  {"tags", "attribute", "routeTables", "disassociate", "associate", "detach", "attach",
   "attachVPC", "detachVPC", "find", "createEntry", "deleteEntry", "updateEntry",
   "upsert", "defaultACL", "deleteOld", "findACL", "refuse"}

\* A call takes away only what is not declared.  Only subnets and internet gateways
\* have route tables.
Spares(call, spec) ==
  /\ call[1] = "routeTables" => spec.kind \in {"subnet", "internet_gateway"}
  /\ call[1] = "disassociate" => call[2] \notin spec.tables
  /\ call[1] = "detach" => call[2] # spec.vpc
  /\ call[1] = "detachVPC" => call[2] \notin spec.vpcs
  /\ call[1] = "deleteOld" => call[2][1] \notin spec.subnets
  /\ call[1] = "updateEntry" => call[2] \in spec.entries /\ Numbered(spec.entries)

Sparing(calls, spec) ==
  IsPlan(calls, UpdateOps) /\ \A i \in DOMAIN calls : Spares(calls[i], spec)

\* An entry is deleted by its number.  It is not that of a declared entry in place,
\* nor of one that an earlier call puts there.
Orderly(calls, entries, spec) ==
  \A i \in DOMAIN calls : calls[i][1] = "deleteEntry" =>
    /\ \A e \in entries \cap spec.entries : e[1] # calls[i][2][1]
    /\ \A j \in DOMAIN calls :
         j < i /\ calls[j][1] \in {"createEntry", "updateEntry"} => calls[j][2][1] # calls[i][2][1]

\* What sdkFind has read is what there is, but for what others have removed since.
SeenWhole ==
  At("found") /\ w.spec.kind \in {"dhcp_options", "network_acl"} =>
    /\ w.seen # Gone /\ Healthy(w.seen, w.spec.kind)
    /\ Kind("network_acl") /\ Obj.live => Obj.entries \subseteq w.seen.entries

PlanSpares ==
  At("plan") =>
    /\ Sparing(w.plan, w.spec)
    /\ Kind("network_acl") /\ Obj.live => Orderly(w.plan, Obj.entries, w.spec)

PassSpares ==
  w.mode = "update" /\ w.spec.kind \in TieKinds =>
    /\ w.pc \notin {"version", "entries"}
    /\ At("associations") => w.spec.kind \in {"subnet", "internet_gateway"}
    /\ SeenWhole /\ PlanSpares

----------------------------------------------------------------------------
(* Plans that spare what is declared.                                      *)

LEMMA SparingIs ==
  ASSUME NEW calls, NEW spec, Sparing(calls, spec)
  PROVE  /\ IsPlan(calls, UpdateOps) /\ Len(calls) \in Nat /\ DOMAIN calls = 1 .. Len(calls)
         /\ \A i \in DOMAIN calls : Spares(calls[i], spec) /\ calls[i][1] \in UpdateOps
<1>1. IsPlan(calls, UpdateOps) /\ \A i \in DOMAIN calls : Spares(calls[i], spec)
  BY DEF Sparing
<1> QED BY <1>1, PlansAreSequences

LEMMA TailSpares ==
  ASSUME NEW calls, NEW spec, Sparing(calls, spec), calls # <<>>
  PROVE  /\ Sparing(Tail(calls), spec)
         /\ 1 \in DOMAIN calls /\ Head(calls) = calls[1]
         /\ \A entries : Orderly(calls, entries, spec) => Orderly(Tail(calls), entries, spec)
<1> DEFINE rest == SubSeq(calls, 1 + 1, Len(calls))
<1>1. /\ IsPlan(calls, UpdateOps) /\ Len(calls) \in Nat /\ DOMAIN calls = 1 .. Len(calls)
      /\ \A i \in DOMAIN calls : Spares(calls[i], spec)
  BY SparingIs
<1>2. 1 \in 1 .. Len(calls) /\ Tail(calls) = rest /\ Head(calls) = calls[1]
  BY <1>1, TailIsRest
<1>3. /\ IsPlan(rest, UpdateOps) /\ DOMAIN rest = 1 .. Len(calls) - 1
      /\ \A i \in 1 .. Len(calls) - 1 : rest[i] = calls[i + 1]
  BY <1>1, <1>2, RestIsPlan
<1> HIDE DEF rest
<1>4. \A i \in DOMAIN rest : i \in Int /\ i + 1 \in DOMAIN calls /\ rest[i] = calls[i + 1]
  BY <1>1, <1>3
<1>5. Sparing(rest, spec)
  BY <1>1, <1>3, <1>4 DEF Sparing
<1>6. ASSUME NEW entries, Orderly(calls, entries, spec)
      PROVE  Orderly(rest, entries, spec)
  <2> SUFFICES ASSUME NEW i \in DOMAIN rest, rest[i][1] = "deleteEntry"
               PROVE  /\ \A e \in entries \cap spec.entries : e[1] # rest[i][2][1]
                      /\ \A j \in DOMAIN rest :
                           j < i /\ rest[j][1] \in {"createEntry", "updateEntry"}
                             => rest[j][2][1] # rest[i][2][1]
    BY DEF Orderly
  <2>1. i \in Int /\ i + 1 \in DOMAIN calls /\ rest[i] = calls[i + 1]
    BY <1>4
  <2>2. /\ \A e \in entries \cap spec.entries : e[1] # calls[i + 1][2][1]
        /\ \A j \in DOMAIN calls :
             j < i + 1 /\ calls[j][1] \in {"createEntry", "updateEntry"}
               => calls[j][2][1] # calls[i + 1][2][1]
    BY <1>6, <2>1 DEF Orderly
  <2>3. ASSUME NEW j \in DOMAIN rest, j < i, rest[j][1] \in {"createEntry", "updateEntry"}
        PROVE  rest[j][2][1] # rest[i][2][1]
    <3>1. j \in Int /\ j + 1 \in DOMAIN calls /\ rest[j] = calls[j + 1] /\ j + 1 < i + 1
      BY <1>4, <2>1, <2>3
    <3> QED BY <2>1, <2>2, <2>3, <3>1
  <2> QED BY <2>1, <2>2, <2>3
<1> QED BY <1>1, <1>2, <1>5, <1>6

LEMMA ConcatSpares ==
  ASSUME NEW s, NEW t, NEW spec, Sparing(s, spec), Sparing(t, spec)
  PROVE  Sparing(s \o t, spec) /\ Ops(s \o t) = Ops(s) \cup Ops(t)
<1>1. /\ IsPlan(s, UpdateOps) /\ \A i \in DOMAIN s : Spares(s[i], spec)
      /\ IsPlan(t, UpdateOps) /\ \A i \in DOMAIN t : Spares(t[i], spec)
  BY DEF Sparing
<1>2. /\ Len(s) \in Nat /\ Len(t) \in Nat
      /\ DOMAIN s = 1 .. Len(s) /\ DOMAIN t = 1 .. Len(t)
      /\ DOMAIN (s \o t) = 1 .. Len(s) + Len(t)
      /\ \A i \in 1 .. Len(s) + Len(t) :
           (s \o t)[i] = IF i <= Len(s) THEN s[i] ELSE t[i - Len(s)]
  BY <1>1, ConcatIs
<1>3. IsPlan(s \o t, UpdateOps) /\ Ops(s \o t) = Ops(s) \cup Ops(t)
  BY <1>1, ConcatIsPlan, OpsOfConcat
<1> DEFINE r == s \o t
<1> HIDE DEF r
<1>4. \A i \in DOMAIN r : \/ i \in DOMAIN s /\ r[i] = s[i]
                          \/ i - Len(s) \in DOMAIN t /\ r[i] = t[i - Len(s)]
  BY <1>2 DEF r
<1>5. \A i \in DOMAIN r : Spares(r[i], spec)
  BY <1>1, <1>4
<1> QED BY <1>3, <1>5 DEF Sparing, r

LEMMA ConcatIsOrderly ==
  ASSUME NEW s, NEW t, NEW spec, Sparing(s, spec), Sparing(t, spec),
         NEW entries, Orderly(s, entries, spec), Orderly(t, entries, spec),
         \A i \in DOMAIN s, j \in DOMAIN t :
           s[i][1] \in {"createEntry", "updateEntry"} /\ t[j][1] = "deleteEntry"
             => s[i][2][1] # t[j][2][1]
  PROVE  Orderly(s \o t, entries, spec)
<1>1. IsPlan(s, UpdateOps) /\ IsPlan(t, UpdateOps)
  BY SparingIs
<1>2. /\ Len(s) \in Nat /\ Len(t) \in Nat
      /\ DOMAIN s = 1 .. Len(s) /\ DOMAIN t = 1 .. Len(t)
      /\ DOMAIN (s \o t) = 1 .. Len(s) + Len(t)
      /\ \A i \in 1 .. Len(s) + Len(t) :
           (s \o t)[i] = IF i <= Len(s) THEN s[i] ELSE t[i - Len(s)]
  BY <1>1, ConcatIs
<1> DEFINE r == s \o t
<1> HIDE DEF r
<1>3. \A i \in DOMAIN r :
        /\ i \in Int
        /\ \/ i \in DOMAIN s /\ r[i] = s[i]
           \/ i > Len(s) /\ i - Len(s) \in DOMAIN t /\ r[i] = t[i - Len(s)]
  BY <1>2 DEF r
<1> SUFFICES ASSUME NEW i \in DOMAIN r, r[i][1] = "deleteEntry"
             PROVE  /\ \A e \in entries \cap spec.entries : e[1] # r[i][2][1]
                    /\ \A j \in DOMAIN r :
                         j < i /\ r[j][1] \in {"createEntry", "updateEntry"}
                           => r[j][2][1] # r[i][2][1]
  BY DEF Orderly, r
<1>4. CASE i \in DOMAIN s /\ r[i] = s[i]
  <2>1. /\ \A e \in entries \cap spec.entries : e[1] # s[i][2][1]
        /\ \A j \in DOMAIN s :
             j < i /\ s[j][1] \in {"createEntry", "updateEntry"} => s[j][2][1] # s[i][2][1]
    BY <1>4 DEF Orderly
  <2>2. \A j \in DOMAIN r : j < i => j \in DOMAIN s /\ r[j] = s[j]
    BY <1>2, <1>3, <1>4
  <2> QED BY <1>4, <2>1, <2>2
<1>5. CASE i > Len(s) /\ i - Len(s) \in DOMAIN t /\ r[i] = t[i - Len(s)]
  <2> DEFINE k == i - Len(s)
  <2>1. k \in DOMAIN t /\ r[i] = t[k] /\ k \in Int /\ i \in Int
    BY <1>2, <1>3, <1>5
  <2>2. /\ \A e \in entries \cap spec.entries : e[1] # t[k][2][1]
        /\ \A j \in DOMAIN t :
             j < k /\ t[j][1] \in {"createEntry", "updateEntry"} => t[j][2][1] # t[k][2][1]
    BY <1>5, <2>1 DEF Orderly
  <2>3. ASSUME NEW j \in DOMAIN r, j < i, r[j][1] \in {"createEntry", "updateEntry"}
        PROVE  r[j][2][1] # r[i][2][1]
    <3>1. CASE j \in DOMAIN s /\ r[j] = s[j]
      BY <1>5, <2>1, <2>3, <3>1
    <3>2. CASE j > Len(s) /\ j - Len(s) \in DOMAIN t /\ r[j] = t[j - Len(s)]
      <4>1. j - Len(s) < k
        BY <1>2, <1>3, <2>3
      <4> QED BY <2>1, <2>2, <2>3, <3>2, <4>1
    <3> QED BY <1>3, <3>1, <3>2
  <2> QED BY <2>1, <2>2, <2>3
<1> QED BY <1>3, <1>4, <1>5

LEMMA NothingDeleted ==
  ASSUME NEW calls, "deleteEntry" \notin Ops(calls)
  PROVE  \A entries, spec : Orderly(calls, entries, spec)
BY DEF Orderly, Ops

\* Calls that come before others without deleting an entry that those add.
LEMMA OneAfterTheOther ==
  ASSUME NEW s, NEW t, NEW spec, Sparing(s, spec), Sparing(t, spec),
         NEW entries, Orderly(s, entries, spec), Orderly(t, entries, spec),
         "deleteEntry" \notin Ops(t) \/ Ops(s) \cap {"createEntry", "updateEntry"} = {}
  PROVE  Orderly(s \o t, entries, spec)
<1>1. \A i \in DOMAIN s, j \in DOMAIN t :
        s[i][1] \in {"createEntry", "updateEntry"} /\ t[j][1] = "deleteEntry"
          => s[i][2][1] # t[j][2][1]
  BY DEF Ops
<1> QED BY <1>1, ConcatIsOrderly

LEMMA WhenSpares ==
  ASSUME NEW condition \in BOOLEAN, NEW op \in UpdateOps, NEW x, NEW spec,
         condition => Spares(<<op, x>>, spec)
  PROVE  /\ Sparing(When(condition, op, x), spec)
         /\ Ops(When(condition, op, x)) \subseteq {op}
<1>1. IsPlan(When(condition, op, x), {op})
  BY WhenIsPlan
<1>2. Ops(When(condition, op, x)) \subseteq {op}
  BY <1>1 DEF IsPlan
<1>3. IsPlan(When(condition, op, x), UpdateOps)
  BY <1>1 DEF IsPlan
<1>4. \A i \in DOMAIN When(condition, op, x) : Spares(When(condition, op, x)[i], spec)
  <2> DEFINE call == <<op, x>>
  <2>1. condition => Spares(call, spec)
    OBVIOUS
  <2>2. When(condition, op, x) = IF condition THEN <<call>> ELSE <<>>
    BY DEF When
  <2> HIDE DEF call
  <2> QED BY <2>1, <2>2
<1> QED BY <1>2, <1>3, <1>4 DEF Sparing

LEMMA ForEachIs ==
  ASSUME NEW op, NEW S, IsFiniteSet(S), NEW calls \in ForEach(op, S)
  PROVE  \A i \in DOMAIN calls : \E x \in S : calls[i] = <<op, x>>
<1> DEFINE n == Cardinality(S)
<1>1. n \in Nat
  BY FS_CardinalityType
<1>2. PICK order \in [1 .. n -> S] : calls = [i \in 1 .. n |-> <<op, order[i]>>]
  BY DEF ForEach
<1> HIDE DEF n
<1> QED BY <1>2

LEMMA ForEachSpares ==
  ASSUME NEW op \in UpdateOps, NEW S, IsFiniteSet(S), NEW calls \in ForEach(op, S), NEW spec,
         \A x \in S : Spares(<<op, x>>, spec)
  PROVE  Sparing(calls, spec) /\ Ops(calls) \subseteq {op}
<1>1. IsPlan(calls, {op}) /\ IsPlan(calls, UpdateOps)
  BY ForEachIsPlan
<1>2. \A i \in DOMAIN calls : \E x \in S : calls[i] = <<op, x>>
  BY ForEachIs
<1> QED BY <1>1, <1>2 DEF Sparing, IsPlan

----------------------------------------------------------------------------
(* The steps of a pass.                                                    *)

TieInv == Frame /\ SpecsOK /\ ObjectsHealthy /\ PassSpares

TiesStay ==
  w.mode = "update" /\ w.id # 0 => Ties(Obj) \cap Declared \subseteq Ties(ec2'[w.id])

TieSafe == ObjectsHealthy' /\ PassSpares' /\ TiesStay

\* What is tied to the object in hand, kind by kind.
LEMMA TiesAre ==
  ASSUME NEW obj, obj.live
  PROVE  /\ Kind("subnet") => Ties(obj) = obj.tables
         /\ Kind("internet_gateway") =>
              Ties(obj) = obj.tables \X {"table"} \cup ({obj.vpc} \ {NoVPC}) \X {"vpc"}
         /\ Kind("dhcp_options") => Ties(obj) = obj.vpcs
         /\ Kind("network_acl") =>
              Ties(obj) = obj.entries \X {"entry"} \cup obj.subnets \X {"subnet"}
BY DEF Ties, Kind

LEMMA DeclaredIs ==
  /\ Kind("subnet") => Declared = w.spec.tables
  /\ Kind("internet_gateway") =>
       Declared = w.spec.tables \X {"table"} \cup {w.spec.vpc} \X {"vpc"}
  /\ Kind("dhcp_options") => Declared = w.spec.vpcs
  /\ Kind("network_acl") =>
       Declared = w.spec.entries \X {"entry"} \cup w.spec.subnets \X {"subnet"}
BY DEF Declared, Kind

\* The fields that hold no tie.
LEMMA ChangesAreHealthy ==
  ASSUME NEW from, NEW kind, Healthy(from, kind), NEW x
  PROVE  /\ Healthy(Gone, kind)
         /\ Healthy([from EXCEPT !.tags = x], kind)
         /\ Healthy([from EXCEPT !.attrs = x], kind)
         /\ Healthy([from EXCEPT !.info = x], kind)
         /\ Healthy([from EXCEPT !.count = x], kind)
         /\ Healthy([from EXCEPT !.data = x], kind)
         /\ Healthy([from EXCEPT !.default = x], kind)
<1>1. CASE kind \notin TieKinds
  BY <1>1 DEF Healthy
<1>2. CASE kind \in TieKinds /\ from = Gone
  <2>1. /\ [from EXCEPT !.tags = x] = Gone /\ [from EXCEPT !.attrs = x] = Gone
        /\ [from EXCEPT !.info = x] = Gone /\ [from EXCEPT !.count = x] = Gone
        /\ [from EXCEPT !.data = x] = Gone /\ [from EXCEPT !.default = x] = Gone
    BY <1>2 DEF Gone
  <2> QED BY <2>1 DEF Healthy
<1>3. CASE kind \in TieKinds /\ from # Gone
  BY <1>3 DEF Healthy, TieKinds
<1> QED BY <1>1, <1>2, <1>3

LEMMA UntiedChanges ==
  ASSUME Healthy(Obj, w.spec.kind), Obj.live, NEW x
  PROVE  /\ Ties(Obj) \cap Declared \subseteq Ties([Obj EXCEPT !.tags = x])
         /\ Ties(Obj) \cap Declared \subseteq Ties([Obj EXCEPT !.attrs = x])
         /\ Kind("network_acl") =>
              /\ [Obj EXCEPT !.tags = x].entries = Obj.entries
              /\ [Obj EXCEPT !.attrs = x].entries = Obj.entries
<1>1. CASE w.spec.kind \notin TieKinds
  BY <1>1 DEF Ties, TieKinds, Kind
<1>2. CASE w.spec.kind \in TieKinds
  <2> DEFINE o1 == [Obj EXCEPT !.tags = x]
             o2 == [Obj EXCEPT !.attrs = x]
  <2>1. Obj # Gone
    BY DEF Gone
  <2>2. o1.live /\ o2.live
    BY <1>2, <2>1 DEF Healthy, TieKinds
  <2>3. CASE Kind("subnet")
    <3>1. o1.tables = Obj.tables /\ o2.tables = Obj.tables
      BY <1>2, <2>1, <2>3 DEF Healthy, TieKinds, Kind
    <3> HIDE DEF o1, o2
    <3> QED BY <2>2, <2>3, <3>1, TiesAre DEF Kind, o1, o2
  <2>4. CASE Kind("internet_gateway")
    <3>1. o1.tables = Obj.tables /\ o2.tables = Obj.tables /\ o1.vpc = Obj.vpc /\ o2.vpc = Obj.vpc
      BY <1>2, <2>1, <2>4 DEF Healthy, TieKinds, Kind
    <3>2. Ties(o1) = Ties(Obj) /\ Ties(o2) = Ties(Obj)
      <4> HIDE DEF o1, o2
      <4> QED BY <2>2, <2>4, <3>1, TiesAre
    <3> QED BY <2>4, <3>2 DEF Kind
  <2>5. CASE Kind("dhcp_options")
    <3>1. o1.vpcs = Obj.vpcs /\ o2.vpcs = Obj.vpcs
      BY <1>2, <2>1, <2>5 DEF Healthy, TieKinds, Kind
    <3>2. Ties(o1) = Ties(Obj) /\ Ties(o2) = Ties(Obj)
      <4> HIDE DEF o1, o2
      <4> QED BY <2>2, <2>5, <3>1, TiesAre
    <3> QED BY <2>5, <3>2 DEF Kind
  <2>6. CASE Kind("network_acl")
    <3>1. /\ o1.entries = Obj.entries /\ o2.entries = Obj.entries
          /\ o1.subnets = Obj.subnets /\ o2.subnets = Obj.subnets
      BY <1>2, <2>1, <2>6 DEF Healthy, TieKinds, Kind
    <3>2. Ties(o1) = Ties(Obj) /\ Ties(o2) = Ties(Obj)
      <4> HIDE DEF o1, o2
      <4> QED BY <2>2, <2>6, <3>1, TiesAre
    <3> QED BY <3>1, <3>2
  <2> QED BY <1>2, <2>3, <2>4, <2>5, <2>6 DEF TieKinds, Kind
<1> QED BY <1>1, <1>2

LEMMA TieInvIs ==
  ASSUME TieInv
  PROVE  /\ Frame /\ DOMAIN ec2 = Ids /\ DOMAIN w = WorkerFields
         /\ ~At("idle") => w.spec.kind = cr.spec.kind
         /\ \A i \in Ids : Healthy(ec2[i], cr.spec.kind)
BY WorkerIs DEF TieInv, ObjectsHealthy, Frame, WellFormedAll, EC2WellFormed, WorkerWellFormed

LEMMA Elsewise ==
  \/ w'.mode # "update"
  \/ w'.pc \notin {"version", "entries", "associations", "found", "plan"}
  => PassSpares'
BY DEF PassSpares, SeenWhole, PlanSpares, At

LEMMA UntouchedIsSafe ==
  ASSUME TieInv, ec2' = ec2, cr'.spec.kind = cr.spec.kind, PassSpares'
  PROVE  TieSafe
BY DEF TieInv, ObjectsHealthy, TieSafe, TiesStay, Obj

LEMMA OtherModeIsSafe ==
  ASSUME TieInv, w.mode # "update", w'.mode = w.mode \/ w'.pc = "idle", ObjectsHealthy'
  PROVE  TieSafe
BY Elsewise DEF TieSafe, TiesStay

LEMMA ObjectIsHealthy ==
  ASSUME TieInv, NEW i \in Ids, NEW obj, Healthy(obj, cr.spec.kind),
         ec2' \in {ec2, [ec2 EXCEPT ![i] = obj]}, cr'.spec.kind = cr.spec.kind
  PROVE  ObjectsHealthy'
BY TieInvIs DEF ObjectsHealthy

\* The worker that makes the next call, or is done.
Follows(r) ==
  /\ r.mode = w.mode
  /\ w.mode = "update" =>
       /\ r.id = w.id /\ r.spec = w.spec
       /\ r.pc \in Ends \/ (r.pc = "plan" /\ r.plan = Tail(w.plan))

LEMMA FollowersAre ==
  ASSUME TieInv, At("plan")
  PROVE  /\ Follows(Done) /\ Follows(onError) /\ Follows(Unnoticed)
         /\ \A op : Follows(orLogged(op))
<1>1. DOMAIN w = WorkerFields /\ Frame /\ ~At("idle")
  BY TieInvIs DEF At
<1>2. onError.mode = w.mode /\ Kept(onError)
  BY <1>1, WorkersKept DEF Kept
<1>3. w.mode = "update" =>
        onError.id = w.id /\ onError.spec = w.spec /\ onError.pc = "failed"
  BY <1>1 DEF onError, Over, WorkerFields
<1>4. Follows(onError)
  BY <1>2, <1>3 DEF Follows, Ends
<1>5. Follows(Done)
  BY <1>1 DEF Follows, Done, WorkerFields, At
<1>6. Follows(Unnoticed)
  <2> DEFINE d == Done
  <2>1. DOMAIN d = WorkerFields /\ Follows(d)
    BY <1>1, <1>5 DEF Done
  <2> HIDE DEF d
  <2>2. Follows([d EXCEPT !.blind = TRUE])
    BY <2>1 DEF Follows, WorkerFields
  <2> QED BY <2>2 DEF Unnoticed, d
<1>7. ASSUME NEW op PROVE Follows(orLogged(op))
  <2>1. CASE w.mode # "create"
    BY <1>4, <2>1 DEF orLogged
  <2>2. CASE w.mode = "create"
    <3>1. PICK plan : orLogged(op) = [w EXCEPT !.plan = plan, !.blind = TRUE]
      BY <2>2 DEF orLogged
    <3> QED BY <1>1, <2>2, <3>1 DEF Follows, WorkerFields
  <2> QED BY <2>1, <2>2
<1> QED BY <1>4, <1>5, <1>6, <1>7

\* The call at the head of the plan of an update.
LEMMA HeadSpares ==
  ASSUME TieInv, NEW op, Doing(op), w.mode = "update", w.spec.kind \in TieKinds
  PROVE  /\ op \in UpdateOps /\ Sparing(w.plan, w.spec) /\ w.plan # <<>>
         /\ 1 \in DOMAIN w.plan /\ w.plan[1][1] = op /\ w.plan[1][2] = Arg
         /\ Spares(w.plan[1], w.spec)
         /\ Kind("network_acl") /\ Obj.live => Orderly(w.plan, Obj.entries, w.spec)
<1>1. /\ Sparing(w.plan, w.spec) /\ w.plan # <<>>
      /\ Kind("network_acl") /\ Obj.live => Orderly(w.plan, Obj.entries, w.spec)
  BY DEF TieInv, PassSpares, PlanSpares, Doing
<1>2. 1 \in DOMAIN w.plan /\ Head(w.plan) = w.plan[1]
  BY <1>1, TailSpares
<1> QED BY <1>1, <1>2, SparingIs DEF Doing, Arg

LEMMA NotOfAnUpdate ==
  ASSUME TieInv, cr.spec.kind \in TieKinds, NEW op, Doing(op), op \notin UpdateOps
  PROVE  w.mode # "update"
<1>1. w.spec.kind \in TieKinds
  BY TieInvIs DEF Doing, At
<1> QED BY <1>1, HeadSpares

\* A call changes the object in hand, and takes away no declared tie.
Spared(obj) ==
  w.mode = "update" /\ Obj.live =>
    /\ Ties(Obj) \cap Declared \subseteq Ties(obj)
    /\ Kind("network_acl") /\ obj.live /\ Orderly(w.plan, Obj.entries, w.spec)
         => Orderly(w.plan, obj.entries, w.spec)

LEMMA ChangeIsSafe ==
  ASSUME TieInv, cr.spec.kind \in TieKinds, NEW op, Doing(op), NEW obj,
         ec2' \in {ec2, [ec2 EXCEPT ![w.id] = obj]}, UNCHANGED cr, Follows(w'),
         Healthy(obj, cr.spec.kind), obj.live => Obj.live, Spared(obj)
  PROVE  TieSafe
<1>1. /\ w.id \in Ids /\ DOMAIN ec2 = Ids /\ w.spec.kind = cr.spec.kind /\ Frame
  BY TieInvIs, DoingIs DEF Doing
<1>2. ObjectsHealthy'
  BY <1>1, ObjectIsHealthy
<1>3. ec2'[w.id] \in {Obj, obj}
  BY <1>1 DEF Obj
<1>4. TiesStay
  <2>1. ~Obj.live => Ties(Obj) = {}
    BY DEF Ties
  <2> QED BY <1>3, <2>1 DEF TiesStay, Spared
<1>5. PassSpares'
  <2>1. CASE w.mode # "update" \/ w'.pc \in Ends
    BY <2>1, Elsewise DEF Follows, Ends
  <2>2. CASE w.mode = "update" /\ w'.pc = "plan" /\ w'.plan = Tail(w.plan)
    <3>1. /\ w'.mode = "update" /\ w'.id = w.id /\ w'.spec = w.spec
          /\ w'.pc = "plan" /\ w'.plan = Tail(w.plan)
      BY <2>2 DEF Follows
    <3>2. /\ Sparing(w.plan, w.spec) /\ w.plan # <<>>
          /\ Kind("network_acl") /\ Obj.live => Orderly(w.plan, Obj.entries, w.spec)
      BY <1>1, <2>2, HeadSpares
    <3>3. /\ Sparing(Tail(w.plan), w.spec)
          /\ \A entries : Orderly(w.plan, entries, w.spec)
                            => Orderly(Tail(w.plan), entries, w.spec)
      BY <3>2, TailSpares
    <3>4. Kind("network_acl") /\ ec2'[w.id].live
            => Orderly(Tail(w.plan), ec2'[w.id].entries, w.spec)
      BY <1>3, <2>2, <3>2, <3>3 DEF Spared
    <3>5. SeenWhole' /\ PlanSpares'
      BY <3>1, <3>3, <3>4 DEF SeenWhole, PlanSpares, At, Kind, Obj
    <3> QED BY <3>1, <3>5 DEF PassSpares, At
  <2> QED BY <2>1, <2>2 DEF Follows
<1> QED BY <1>2, <1>4, <1>5 DEF TieSafe

LEMMA CallIsSafe ==
  ASSUME TieInv, cr.spec.kind \in TieKinds, NEW op, Doing(op), NEW obj, NEW next, NEW failed,
         Call(obj, next, failed) \/ Go(failed), Follows(next), Follows(failed),
         Healthy(obj, cr.spec.kind), obj.live => Obj.live, Spared(obj)
  PROVE  TieSafe
<1>1. /\ ec2' \in {ec2, [ec2 EXCEPT ![w.id] = obj]} /\ UNCHANGED cr /\ w' \in {next, failed}
  BY DEF Call, Go
<1> QED BY <1>1, ChangeIsSafe

LEMMA GoingOnIsSafe ==
  ASSUME TieInv, cr.spec.kind \in TieKinds, NEW op, Doing(op), NEW r,
         Go(r) \/ Unread(r), Follows(r)
  PROVE  TieSafe
<1>1. w.id \in Ids /\ ec2' = ec2 /\ UNCHANGED cr /\ w' = r
  BY TieInvIs, DoingIs DEF Doing, Go, Unread
<1>2. Healthy(Obj, cr.spec.kind) /\ Spared(Obj)
  BY <1>1, TieInvIs DEF Obj, Spared
<1> QED BY <1>1, <1>2, ChangeIsSafe

\* The steps that all kinds have in common.
LEMMA ReadingIsSafe ==
  ASSUME TieInv, w.mode # "update", ec2' = ec2, UNCHANGED cr, w'.mode = w.mode
  PROVE  TieSafe
<1>1. PassSpares'
  BY Elsewise
<1> QED BY <1>1, UntouchedIsSafe

LEMMA DescribeIsSafe ==
  ASSUME TieInv, w.spec.kind \in TieKinds, NEW found, Describe(found, onError),
         \/ found = Found
         \/ /\ found = [Found EXCEPT !.pc = "associations"]
            /\ w.spec.kind \in {"subnet", "internet_gateway"}
  PROVE  TieSafe
<1>1. /\ DOMAIN w = WorkerFields /\ Frame /\ ~At("idle") /\ w.spec.kind = cr.spec.kind
      /\ DOMAIN ec2 = Ids /\ w.id \in Ids \cup {0} /\ w.mode # "create" /\ At("describe")
  BY TieInvIs, WorkerIs DEF Describe, At
<1>2. UNCHANGED cr /\ ec2' = ec2
  BY DEF Describe, Go, Unread
<1>3. CASE w' \in {NotFound, onError}
  <2>1. NotFound.pc \in {"release", "manage"} /\ onError.pc = "failed"
    BY <1>1 DEF NotFound, onError, Over, WorkerFields
  <2>2. PassSpares'
    BY <1>3, <2>1, Elsewise
  <2> QED BY <1>2, <2>2, UntouchedIsSafe
<1>4. CASE w' = found /\ w.id # 0 /\ Obj # Gone
  <2> DEFINE f == Found
  <2>1. /\ DOMAIN f = WorkerFields /\ f.pc = "found" /\ f.mode = w.mode /\ f.id = w.id
        /\ f.spec = w.spec /\ f.seen = Obj
    BY <1>1 DEF Found, WorkerFields
  <2>2. Healthy(Obj, w.spec.kind)
    BY <1>1, <1>4, TieInvIs DEF Obj
  <2> HIDE DEF f
  <2>3. CASE found = f
    <3>1. /\ w'.pc = "found" /\ w'.id = w.id /\ w'.spec = w.spec /\ w'.seen = Obj
          /\ Obj' = Obj
      BY <1>2, <1>4, <2>1, <2>3 DEF Obj
    <3>2. SeenWhole' /\ PlanSpares'
      BY <1>4, <2>2, <3>1 DEF SeenWhole, PlanSpares, At, Kind
    <3>3. PassSpares'
      BY <3>1, <3>2 DEF PassSpares, At
    <3> QED BY <1>2, <3>3, UntouchedIsSafe
  <2>4. CASE /\ found = [f EXCEPT !.pc = "associations"]
             /\ w.spec.kind \in {"subnet", "internet_gateway"}
    <3>1. w'.pc = "associations" /\ w'.spec = w.spec
      BY <1>4, <2>1, <2>4 DEF WorkerFields
    <3>2. PassSpares'
      BY <2>4, <3>1 DEF PassSpares, SeenWhole, PlanSpares, At
    <3> QED BY <1>2, <3>2, UntouchedIsSafe
  <2> QED BY <2>3, <2>4 DEF f
<1> QED BY <1>3, <1>4 DEF Describe, Go, Unread

\* sdkUpdate begins.
LEMMA PlannedIsSafe ==
  ASSUME TieInv, Updating, cr.spec.kind \in TieKinds, NEW calls, Go(Plan(calls)),
         Sparing(calls, w.spec),
         Kind("network_acl") /\ Obj.live => Orderly(calls, Obj.entries, w.spec)
  PROVE  TieSafe
<1>1. DOMAIN w = WorkerFields /\ ec2' = ec2 /\ UNCHANGED cr
  BY TieInvIs DEF Go
<1>2. /\ w'.pc = "plan" /\ w'.plan = calls /\ w'.id = w.id /\ w'.spec = w.spec
      /\ Obj' = Obj
  BY <1>1 DEF Go, Plan, WorkerFields, Obj
<1>3. SeenWhole' /\ PlanSpares'
  BY <1>2 DEF SeenWhole, PlanSpares, At, Kind
<1>4. PassSpares'
  BY <1>2, <1>3 DEF PassSpares, At
<1> QED BY <1>1, <1>4, UntouchedIsSafe

LEMMA CreateIsSafe ==
  ASSUME TieInv, At("create"), NEW obj, NEW next, CreateObject(obj, next),
         next.mode = w.mode, DOMAIN next = WorkerFields, Healthy(obj, cr.spec.kind)
  PROVE  TieSafe
<1>1. w.mode = "create" /\ DOMAIN w = WorkerFields /\ Frame /\ ~At("idle")
  BY TieInvIs, WorkerIs DEF At
<1>2. CreateFailed.mode = w.mode
  BY <1>1, WorkersKept DEF Kept
<1>3. w'.mode = w.mode /\ UNCHANGED cr
  BY <1>2 DEF CreateObject, WorkerFields
<1>4. ec2' = ec2 \/ (nextId \in Ids /\ ec2' = [ec2 EXCEPT ![nextId] = obj])
  BY DEF CreateObject
<1>5. ObjectsHealthy'
  <2>1. CASE ec2' = ec2
    BY <1>3, <2>1 DEF TieInv, ObjectsHealthy
  <2>2. CASE nextId \in Ids /\ ec2' = [ec2 EXCEPT ![nextId] = obj]
    BY <1>3, <2>2, ObjectIsHealthy
  <2> QED BY <1>4, <2>1, <2>2
<1> QED BY <1>1, <1>3, <1>5, OtherModeIsSafe

LEMMA DeleteIsSafe ==
  ASSUME TieInv, w.pc \in Working, w.mode # "update", NEW allowed, Delete(allowed)
  PROVE  TieSafe
<1>1. /\ DOMAIN w = WorkerFields /\ Frame /\ ~At("idle") /\ w.id \in Ids
  BY TieInvIs, WorkerIs DEF Working, At
<1>2. onError.mode = w.mode /\ [w EXCEPT !.pc = "release"].mode = w.mode
  BY <1>1, WorkersKept DEF Kept, WorkerFields
<1>3. /\ w'.mode = w.mode /\ UNCHANGED cr
      /\ ec2' \in {ec2, [ec2 EXCEPT ![w.id] = Gone]}
  BY <1>2 DEF Delete, Call, Go
<1>4. ObjectsHealthy'
  BY <1>1, <1>3, ObjectIsHealthy DEF Healthy
<1> QED BY <1>3, <1>4, OtherModeIsSafe

----------------------------------------------------------------------------
(* The fields that hold a tie.                                             *)

LEMMA SparedIs ==
  ASSUME NEW obj, obj.live,
         w.mode = "update" /\ Obj.live =>
           /\ w.spec.kind \in {"subnet", "internet_gateway"} =>
                Obj.tables \cap w.spec.tables \subseteq obj.tables
           /\ Kind("internet_gateway") /\ Obj.vpc = w.spec.vpc /\ Obj.vpc # NoVPC =>
                obj.vpc = Obj.vpc
           /\ Kind("dhcp_options") => Obj.vpcs \cap w.spec.vpcs \subseteq obj.vpcs
           /\ Kind("network_acl") =>
                /\ Obj.entries \cap w.spec.entries \subseteq obj.entries
                /\ Obj.subnets \cap w.spec.subnets \subseteq obj.subnets
                /\ Orderly(w.plan, Obj.entries, w.spec) => Orderly(w.plan, obj.entries, w.spec)
  PROVE  Spared(obj)
<1> SUFFICES ASSUME w.mode = "update", Obj.live
             PROVE  Ties(Obj) \cap Declared \subseteq Ties(obj)
  BY DEF Spared
<1>1. CASE Kind("subnet")
  BY <1>1, TiesAre, DeclaredIs DEF Kind
<1>2. CASE Kind("internet_gateway")
  <2>1. /\ Ties(Obj) = Obj.tables \X {"table"} \cup ({Obj.vpc} \ {NoVPC}) \X {"vpc"}
        /\ Ties(obj) = obj.tables \X {"table"} \cup ({obj.vpc} \ {NoVPC}) \X {"vpc"}
        /\ Declared = w.spec.tables \X {"table"} \cup {w.spec.vpc} \X {"vpc"}
    BY <1>2, TiesAre, DeclaredIs
  <2>2. /\ Obj.tables \cap w.spec.tables \subseteq obj.tables
        /\ Obj.vpc = w.spec.vpc /\ Obj.vpc # NoVPC => obj.vpc = Obj.vpc
    BY <1>2 DEF Kind
  <2> QED BY <2>1, <2>2
<1>3. CASE Kind("dhcp_options")
  BY <1>3, TiesAre, DeclaredIs DEF Kind
<1>4. CASE Kind("network_acl")
  <2>1. /\ Ties(Obj) = Obj.entries \X {"entry"} \cup Obj.subnets \X {"subnet"}
        /\ Ties(obj) = obj.entries \X {"entry"} \cup obj.subnets \X {"subnet"}
        /\ Declared = w.spec.entries \X {"entry"} \cup w.spec.subnets \X {"subnet"}
    BY <1>4, TiesAre, DeclaredIs
  <2>2. /\ Obj.entries \cap w.spec.entries \subseteq obj.entries
        /\ Obj.subnets \cap w.spec.subnets \subseteq obj.subnets
    BY <1>4
  <2> QED BY <2>1, <2>2
<1>5. CASE w.spec.kind \notin TieKinds
  BY <1>5 DEF Ties, TieKinds, Kind
<1> QED BY <1>1, <1>2, <1>3, <1>4, <1>5 DEF TieKinds, Kind

\* The object of a step of a plan.
LEMMA InPlan ==
  ASSUME TieInv, At("plan"), cr.spec.kind \in TieKinds, Obj.live
  PROVE  /\ Healthy(Obj, cr.spec.kind) /\ Obj # Gone /\ w.spec.kind = cr.spec.kind
         /\ w.spec.kind \in {"subnet", "internet_gateway"} =>
              "tables" \in DOMAIN Obj /\ IsFiniteSet(Obj.tables)
         /\ Kind("internet_gateway") => "vpc" \in DOMAIN Obj
         /\ Kind("dhcp_options") => "vpcs" \in DOMAIN Obj /\ IsFiniteSet(Obj.vpcs)
         /\ Kind("network_acl") =>
              /\ "entries" \in DOMAIN Obj /\ IsFiniteSet(Obj.entries) /\ Numbered(Obj.entries)
              /\ "subnets" \in DOMAIN Obj /\ IsFiniteSet(Obj.subnets)
<1>1. w.id \in Ids /\ w.spec.kind = cr.spec.kind /\ Healthy(Obj, cr.spec.kind)
  BY TieInvIs, DoingIs DEF At, Obj
<1>2. Obj # Gone
  BY DEF Gone
<1> QED BY <1>1, <1>2 DEF Healthy, Kind

LEMMA TablesChanged ==
  ASSUME TieInv, At("plan"), cr.spec.kind \in TieKinds, Obj.live, NEW tables,
         w.spec.kind \in {"subnet", "internet_gateway"} =>
           /\ IsFiniteSet(tables)
           /\ w.mode = "update" => Obj.tables \cap w.spec.tables \subseteq tables
  PROVE  LET obj == [Obj EXCEPT !.tables = tables]
         IN  Healthy(obj, cr.spec.kind) /\ Spared(obj)
<1> DEFINE obj == [Obj EXCEPT !.tables = tables]
<1>1. /\ obj.live /\ DOMAIN obj = DOMAIN Obj
      /\ w.spec.kind \in {"subnet", "internet_gateway"} => obj.tables = tables
      /\ Kind("internet_gateway") => obj.vpc = Obj.vpc
      /\ Kind("dhcp_options") => obj.vpcs = Obj.vpcs
      /\ Kind("network_acl") => obj.entries = Obj.entries /\ obj.subnets = Obj.subnets
  BY InPlan, DoingIs DEF TieInv, WellFormed
<1> HIDE DEF obj
<1>2. Healthy(obj, cr.spec.kind)
  BY <1>1, InPlan DEF Healthy, Kind
<1>3. Spared(obj)
  BY <1>1, SparedIs
<1> QED BY <1>2, <1>3 DEF obj

LEMMA VPCChanged ==
  ASSUME TieInv, At("plan"), cr.spec.kind \in TieKinds, Obj.live, NEW vpc,
         w.mode = "update" => Obj.vpc = NoVPC \/ Obj.vpc # w.spec.vpc
  PROVE  LET obj == [Obj EXCEPT !.vpc = vpc]
         IN  Healthy(obj, cr.spec.kind) /\ Spared(obj)
<1> DEFINE obj == [Obj EXCEPT !.vpc = vpc]
<1>1. /\ obj.live /\ DOMAIN obj = DOMAIN Obj
      /\ w.spec.kind \in {"subnet", "internet_gateway"} => obj.tables = Obj.tables
      /\ Kind("dhcp_options") => obj.vpcs = Obj.vpcs
      /\ Kind("network_acl") => obj.entries = Obj.entries /\ obj.subnets = Obj.subnets
  BY InPlan, DoingIs DEF TieInv, WellFormed
<1> HIDE DEF obj
<1>2. Healthy(obj, cr.spec.kind)
  BY <1>1, InPlan DEF Healthy, Kind
<1>3. Spared(obj)
  BY <1>1, SparedIs
<1> QED BY <1>2, <1>3 DEF obj

LEMMA VPCsChanged ==
  ASSUME TieInv, At("plan"), cr.spec.kind \in TieKinds, Obj.live, NEW vpcs,
         Kind("dhcp_options") =>
           /\ IsFiniteSet(vpcs)
           /\ w.mode = "update" => Obj.vpcs \cap w.spec.vpcs \subseteq vpcs
  PROVE  LET obj == [Obj EXCEPT !.vpcs = vpcs]
         IN  Healthy(obj, cr.spec.kind) /\ Spared(obj)
<1> DEFINE obj == [Obj EXCEPT !.vpcs = vpcs]
<1>1. /\ obj.live /\ DOMAIN obj = DOMAIN Obj
      /\ w.spec.kind \in {"subnet", "internet_gateway"} => obj.tables = Obj.tables
      /\ Kind("internet_gateway") => obj.vpc = Obj.vpc
      /\ Kind("dhcp_options") => obj.vpcs = vpcs
      /\ Kind("network_acl") => obj.entries = Obj.entries /\ obj.subnets = Obj.subnets
  BY InPlan, DoingIs DEF TieInv, WellFormed
<1> HIDE DEF obj
<1>2. Healthy(obj, cr.spec.kind)
  BY <1>1, InPlan DEF Healthy, Kind
<1>3. Spared(obj)
  BY <1>1, SparedIs
<1> QED BY <1>2, <1>3 DEF obj

LEMMA SubnetsChanged ==
  ASSUME TieInv, At("plan"), cr.spec.kind \in TieKinds, Obj.live, NEW subnets,
         Kind("network_acl") =>
           /\ IsFiniteSet(subnets)
           /\ w.mode = "update" => Obj.subnets \cap w.spec.subnets \subseteq subnets
  PROVE  LET obj == [Obj EXCEPT !.subnets = subnets]
         IN  Healthy(obj, cr.spec.kind) /\ Spared(obj)
<1> DEFINE obj == [Obj EXCEPT !.subnets = subnets]
<1>1. /\ obj.live /\ DOMAIN obj = DOMAIN Obj
      /\ w.spec.kind \in {"subnet", "internet_gateway"} => obj.tables = Obj.tables
      /\ Kind("internet_gateway") => obj.vpc = Obj.vpc
      /\ Kind("dhcp_options") => obj.vpcs = Obj.vpcs
      /\ Kind("network_acl") => obj.entries = Obj.entries /\ obj.subnets = subnets
  BY InPlan, DoingIs DEF TieInv, WellFormed
<1> HIDE DEF obj
<1>2. Healthy(obj, cr.spec.kind)
  BY <1>1, InPlan DEF Healthy, Kind
<1>3. Spared(obj)
  BY <1>1, SparedIs
<1> QED BY <1>2, <1>3 DEF obj

LEMMA EntriesChanged ==
  ASSUME TieInv, At("plan"), cr.spec.kind \in TieKinds, Obj.live, NEW entries,
         Kind("network_acl") =>
           /\ IsFiniteSet(entries) /\ Numbered(entries)
           /\ w.mode = "update" =>
                /\ Obj.entries \cap w.spec.entries \subseteq entries
                /\ Orderly(w.plan, Obj.entries, w.spec) => Orderly(w.plan, entries, w.spec)
  PROVE  LET obj == [Obj EXCEPT !.entries = entries]
         IN  Healthy(obj, cr.spec.kind) /\ Spared(obj)
<1> DEFINE obj == [Obj EXCEPT !.entries = entries]
<1>1. /\ obj.live /\ DOMAIN obj = DOMAIN Obj
      /\ w.spec.kind \in {"subnet", "internet_gateway"} => obj.tables = Obj.tables
      /\ Kind("internet_gateway") => obj.vpc = Obj.vpc
      /\ Kind("dhcp_options") => obj.vpcs = Obj.vpcs
      /\ Kind("network_acl") => obj.entries = entries /\ obj.subnets = Obj.subnets
  BY InPlan, DoingIs DEF TieInv, WellFormed
<1> HIDE DEF obj
<1>2. Healthy(obj, cr.spec.kind)
  BY <1>1, InPlan DEF Healthy, Kind
<1>3. Spared(obj)
  BY <1>1, SparedIs
<1> QED BY <1>2, <1>3 DEF obj

----------------------------------------------------------------------------
(* The steps of the four kinds that tie objects to others.                 *)

\* A call that changes nothing but tags or attributes, or its refusal.
LEMMA UntiedCallIsSafe ==
  ASSUME TieInv, cr.spec.kind \in TieKinds, NEW op, Doing(op), NEW obj, NEW x,
         obj \in {[Obj EXCEPT !.tags = x], [Obj EXCEPT !.attrs = x]},
         (Obj.live /\ Call(obj, Done, onError)) \/ Go(onError)
  PROVE  TieSafe
<1>1. At("plan") /\ Follows(Done) /\ Follows(onError)
  BY FollowersAre DEF Doing
<1>2. CASE Go(onError)
  BY <1>1, <1>2, GoingOnIsSafe
<1>3. CASE Obj.live /\ Call(obj, Done, onError)
  <2>1. Healthy(Obj, cr.spec.kind) /\ w.spec.kind = cr.spec.kind
    BY <1>1, <1>3, InPlan
  <2>2. Healthy(obj, cr.spec.kind)
    <3>1. /\ Healthy([Obj EXCEPT !.tags = x], cr.spec.kind)
          /\ Healthy([Obj EXCEPT !.attrs = x], cr.spec.kind)
      BY <2>1, ChangesAreHealthy
    <3> QED BY <3>1
  <2>3. Spared(obj)
    BY <1>3, <2>1, UntiedChanges DEF Spared
  <2> QED BY <1>1, <1>3, <2>2, <2>3, CallIsSafe
<1> QED BY <1>2, <1>3

LEMMA syncTagsIsSafe ==
  ASSUME TieInv, cr.spec.kind \in TieKinds, syncTags
  PROVE  TieSafe
<1> DEFINE removed == Obj.tags \ (w.seen.tags \ w.spec.tags)
           synced  == removed \cup (w.spec.tags \ w.seen.tags)
           obj == [Obj EXCEPT !.tags = removed]
<1>1. Doing("tags") /\ At("plan")
  BY DEF syncTags, Doing
<1>2. CASE (Obj.live /\ Call([Obj EXCEPT !.tags = synced], Done, onError)) \/ Go(onError)
  BY <1>1, <1>2, UntiedCallIsSafe
<1>3. CASE /\ Obj.live /\ w' = onError /\ UNCHANGED cr
           /\ ec2' = [ec2 EXCEPT ![w.id].tags = removed]
  <2>1. ec2' = [ec2 EXCEPT ![w.id] = obj]
    BY <1>3 DEF Obj
  <2>2. Healthy(Obj, cr.spec.kind) /\ w.spec.kind = cr.spec.kind
    BY <1>1, <1>3, InPlan
  <2>3. Healthy(obj, cr.spec.kind)
    BY <2>2, ChangesAreHealthy
  <2>4. Spared(obj)
    BY <1>3, <2>2, UntiedChanges DEF Spared
  <2>5. /\ Follows(w') /\ UNCHANGED cr /\ Obj.live
        /\ ec2' \in {ec2, [ec2 EXCEPT ![w.id] = obj]}
    BY <1>1, <1>3, <2>1, FollowersAre
  <2> HIDE DEF obj, removed
  <2> QED BY <1>1, <2>3, <2>4, <2>5, ChangeIsSafe
<1> QED BY <1>2, <1>3 DEF syncTags

LEMMA SpecsAre ==
  ASSUME TieInv, ~At("idle")
  PROVE  /\ w.spec.kind \in {"subnet", "internet_gateway"} => IsFiniteSet(w.spec.tables)
         /\ Kind("dhcp_options") => IsFiniteSet(w.spec.vpcs)
         /\ Kind("network_acl") =>
              /\ IsFiniteSet(w.spec.entries) /\ IsFiniteSet(w.spec.subnets)
BY ModificationAssumption DEF TieInv, SpecsOK, Kind

LEMMA RouteTablesAreSafe ==
  ASSUME TieInv, cr.spec.kind \in TieKinds, RouteTableAssociationStep
  PROVE  TieSafe
<1>1. CASE readRouteTables
  <2>1. /\ DOMAIN w = WorkerFields /\ At("associations") /\ ec2' = ec2 /\ UNCHANGED cr
        /\ \E answered :
             w' = [w EXCEPT !.pc = "found", !.blind = ~answered,
                     !.seen.tables = getRouteTableAssociations(answered)]
    BY <1>1, TieInvIs DEF readRouteTables, DescribeRouteTables
  <2>2. w'.pc = "found" /\ w'.spec = w.spec /\ w'.mode = w.mode
    BY <2>1 DEF WorkerFields
  <2>3. PassSpares'
    BY <2>1, <2>2 DEF TieInv, PassSpares, SeenWhole, PlanSpares, At
  <2> QED BY <2>1, <2>3, UntouchedIsSafe
<1>2. CASE updateRouteTableAssociations
  <2>1. PICK answered \in BOOLEAN :
          /\ DescribeRouteTables(answered)
          /\ \E calls \in AssociationPlans(w.spec.tables, getRouteTableAssociations(answered)) :
               w' = [w EXCEPT !.plan = calls \o Tail(@), !.blind = @ \/ ~answered]
    BY <1>2 DEF updateRouteTableAssociations
  <2> DEFINE have == getRouteTableAssociations(answered)
             want == w.spec.tables
  <2>6. PICK calls \in AssociationPlans(want, have) :
          w' = [w EXCEPT !.plan = calls \o Tail(w.plan), !.blind = w.blind \/ ~answered]
    BY <2>1
  <2>2. PICK disassociate \in ForEach("disassociate", have \ want),
             associate \in ForEach("associate", want \ have) :
          calls = disassociate \o associate
    <3> DEFINE S == ForEach("disassociate", have \ want)
               T == ForEach("associate", want \ have)
    <3>1. calls \in AssociationPlans(want, have)
      BY <2>6
    <3> HIDE DEF have, want
    <3>2. AssociationPlans(want, have) = {s \o t : s \in S, t \in T}
      BY DEF AssociationPlans
    <3> HIDE DEF S, T
    <3>3. \E s \in S, t \in T : calls = s \o t
      BY <3>1, <3>2
    <3> QED BY <3>3 DEF S, T
  <2>3. /\ DOMAIN w = WorkerFields /\ At("plan") /\ ec2' = ec2 /\ UNCHANGED cr
        /\ Doing("routeTables") /\ w.spec.kind = cr.spec.kind /\ ~At("idle") /\ w.id \in Ids
    BY <1>2, <2>1, TieInvIs, DoingIs DEF updateRouteTableAssociations, DescribeRouteTables, Doing
  <2>4. /\ w'.pc = "plan" /\ w'.spec = w.spec /\ w'.mode = w.mode /\ w'.id = w.id
        /\ w'.plan = (disassociate \o associate) \o Tail(w.plan)
    BY <2>2, <2>3, <2>6 DEF WorkerFields, At
  <2>5. CASE w.mode = "update"
    <3>1. /\ Sparing(w.plan, w.spec) /\ w.plan # <<>>
          /\ w.spec.kind \in {"subnet", "internet_gateway"}
      BY <2>3, <2>5, HeadSpares DEF Spares
    <3>2. IsFiniteSet(want) /\ IsFiniteSet(have)
      <4>1. IsFiniteSet({})
        BY FS_EmptySet
      <4> QED BY <2>3, <3>1, <4>1, SpecsAre, InPlan DEF getRouteTableAssociations
    <3>3. IsFiniteSet(have \ want) /\ IsFiniteSet(want \ have)
      BY <3>2, FS_Subset
    <3>4. /\ \A x \in have \ want : Spares(<<"disassociate", x>>, w.spec)
          /\ \A x \in want \ have : Spares(<<"associate", x>>, w.spec)
      BY DEF Spares
    <3> HIDE DEF have, want
    <3>5. Sparing(disassociate, w.spec) /\ Sparing(associate, w.spec)
      BY <3>3, <3>4, ForEachSpares DEF UpdateOps
    <3>6. Sparing(w'.plan, w.spec)
      BY <2>4, <3>1, <3>5, ConcatSpares, TailSpares
    <3>7. PassSpares'
      BY <2>4, <3>1, <3>6 DEF PassSpares, SeenWhole, PlanSpares, At, Kind
    <3> QED BY <2>3, <3>7, UntouchedIsSafe
  <2> QED BY <2>3, <2>4, <2>5, ReadingIsSafe
<1>3. CASE disassociateRouteTable
  <2> DEFINE obj == [Obj EXCEPT !.tables = Obj.tables \ {Arg}]
  <2>1. Doing("disassociate") /\ At("plan") /\ Follows(Done) /\ Follows(onError)
    BY <1>3, FollowersAre DEF disassociateRouteTable, Doing
  <2>2. CASE Obj.live /\ Call(obj, Done, onError)
    <3>1. w.spec.kind = cr.spec.kind
      BY <2>1, <2>2, InPlan
    <3>2. w.mode = "update" => Arg \notin w.spec.tables
      BY <2>1, <3>1, HeadSpares DEF Spares
    <3>3. w.spec.kind \in {"subnet", "internet_gateway"} =>
            /\ IsFiniteSet(Obj.tables \ {Arg})
            /\ w.mode = "update" => Obj.tables \cap w.spec.tables \subseteq Obj.tables \ {Arg}
      BY <2>1, <2>2, <3>2, InPlan, FS_Subset
    <3>4. Healthy(obj, cr.spec.kind) /\ Spared(obj)
      BY <2>1, <2>2, <3>3, TablesChanged
    <3> HIDE DEF obj
    <3> QED BY <2>1, <2>2, <3>4, CallIsSafe
  <2> QED BY <1>3, <2>1, <2>2, GoingOnIsSafe DEF disassociateRouteTable
<1>4. CASE associateRouteTable
  <2> DEFINE obj == [Obj EXCEPT !.tables = {Arg}]
  <2>1. Doing("associate") /\ At("plan") /\ Follows(Done) /\ Follows(onError)
    BY <1>4, FollowersAre DEF associateRouteTable, Doing
  <2>2. CASE Obj.live /\ Obj.tables = {} /\ Call(obj, Done, onError)
    <3>1. IsFiniteSet({Arg}) /\ Obj.tables \cap w.spec.tables \subseteq {Arg}
      BY <2>2, FS_Singleton
    <3>2. Healthy(obj, cr.spec.kind) /\ Spared(obj)
      BY <2>1, <2>2, <3>1, TablesChanged
    <3> HIDE DEF obj
    <3> QED BY <2>1, <2>2, <3>2, CallIsSafe
  <2> QED BY <1>4, <2>1, <2>2, GoingOnIsSafe DEF associateRouteTable
<1> QED BY <1>1, <1>2, <1>3, <1>4 DEF RouteTableAssociationStep

\* The steps of other modes than update.
LEMMA ElsewhereInAPass ==
  ASSUME TieInv, w.pc \in Working, w.mode # "update",
         (\E calls : Go(Plan(calls))) \/ (\E allowed : Delete(allowed))
  PROVE  TieSafe
<1>1. CASE \E allowed : Delete(allowed)
  BY <1>1, DeleteIsSafe
<1>2. CASE \E calls : Go(Plan(calls))
  <2>1. DOMAIN w = WorkerFields
    BY TieInvIs
  <2>2. w'.mode = w.mode /\ ec2' = ec2 /\ UNCHANGED cr
    BY <1>2, <2>1 DEF Go, Plan, WorkerFields
  <2> QED BY <2>2, ReadingIsSafe
<1> QED BY <1>1, <1>2

LEMMA NextOfCreate ==
  ASSUME TieInv, At("create"), NEW calls, NEW l
  PROVE  /\ Plan(calls).mode = w.mode /\ DOMAIN Plan(calls) = WorkerFields
         /\ [w EXCEPT !.pc = l].mode = w.mode /\ DOMAIN [w EXCEPT !.pc = l] = WorkerFields
BY TieInvIs, PlannedIs

\* The deletion of an object is no part of an update.
LEMMA DeletingIsNoUpdate ==
  ASSUME TieInv, cr.spec.kind \in TieKinds, Deleting \/ Doing("delete")
  PROVE  w.pc \in Working /\ w.mode # "update"
<1>1. CASE Deleting
  BY <1>1 DEF Deleting, At, Working
<1>2. CASE Doing("delete")
  BY <1>2, NotOfAnUpdate DEF UpdateOps, Doing, At, Working
<1> QED BY <1>1, <1>2

LEMMA SubnetIsSafe ==
  ASSUME TieInv, cr.spec.kind \in TieKinds, SubnetStep
  PROVE  TieSafe
<1>1. CASE sdkFindSubnet
  BY <1>1, DescribeIsSafe DEF sdkFindSubnet, Kind, TieKinds
<1>2. CASE sdkCreateSubnet
  <2>1. At("create") /\ Kind("subnet") /\ cr.spec.kind = "subnet"
    BY <1>2, TieInvIs DEF sdkCreateSubnet, At, Kind
  <2>2. Healthy(newSubnet, cr.spec.kind)
    <3>1. IsFiniteSet({})
      BY FS_EmptySet
    <3> QED BY <2>1, <3>1 DEF Healthy, newSubnet
  <2> QED BY <1>2, <2>1, <2>2, NextOfCreate, CreateIsSafe DEF sdkCreateSubnet
<1>3. CASE customUpdateSubnet
  <2> DEFINE delta == newSubnetDelta
             tables == When("tables" \in delta, "routeTables", {})
             tags == When("tags" \in delta, "tags", {})
             dns == When("EnableDNS64" \in delta, "attribute", "EnableDNS64")
             public == When("MapPublicIPOnLaunch" \in delta, "attribute", "MapPublicIPOnLaunch")
             calls == tables \o tags \o dns \o public
  <2>1. Kind("subnet") /\ Updating /\ Go(Plan(calls))
    BY <1>3 DEF customUpdateSubnet
  <2>2. /\ Sparing(tables, w.spec) /\ Sparing(tags, w.spec)
        /\ Sparing(dns, w.spec) /\ Sparing(public, w.spec)
    <3>1. /\ Spares(<<"routeTables", {}>>, w.spec) /\ Spares(<<"tags", {}>>, w.spec)
          /\ Spares(<<"attribute", "EnableDNS64">>, w.spec)
          /\ Spares(<<"attribute", "MapPublicIPOnLaunch">>, w.spec)
      BY <2>1 DEF Spares, Kind
    <3>2. /\ ("tables" \in delta) \in BOOLEAN /\ ("tags" \in delta) \in BOOLEAN
          /\ ("EnableDNS64" \in delta) \in BOOLEAN /\ ("MapPublicIPOnLaunch" \in delta) \in BOOLEAN
      OBVIOUS
    <3> HIDE DEF delta
    <3>3. {"tags", "routeTables", "attribute", "attach", "detach", "find"} \subseteq UpdateOps
      BY DEF UpdateOps
    <3> QED BY <3>1, <3>2, <3>3, WhenSpares
  <2> HIDE DEF tables, tags, dns, public
  <2>3. Sparing(calls, w.spec)
    <3>1. Sparing(tables \o tags, w.spec)
      BY <2>2, ConcatSpares
    <3>2. Sparing(tables \o tags \o dns, w.spec)
      BY <2>2, <3>1, ConcatSpares
    <3> QED BY <2>2, <3>2, ConcatSpares
  <2> HIDE DEF calls
  <2>4. ~Kind("network_acl")
    BY <2>1 DEF Kind
  <2> QED BY <2>1, <2>3, <2>4, PlannedIsSafe
<1>4. CASE updateSubnetAttribute
  <2> DEFINE x == IF Arg \in w.spec.attrs THEN Obj.attrs \cup {Arg} ELSE Obj.attrs \ {Arg}
             obj == [Obj EXCEPT !.attrs = x]
  <2>1. /\ Doing("attribute")
        /\ (Obj.live /\ Call(obj, Done, onError)) \/ Go(onError)
    BY <1>4 DEF updateSubnetAttribute
  <2>2. obj \in {[Obj EXCEPT !.tags = x], [Obj EXCEPT !.attrs = x]}
    OBVIOUS
  <2> HIDE DEF obj, x
  <2> QED BY <2>1, <2>2, UntiedCallIsSafe
<1>5. CASE sdkDeleteSubnet
  BY <1>5, DeletingIsNoUpdate, ElsewhereInAPass DEF sdkDeleteSubnet
<1> QED BY <1>1, <1>2, <1>3, <1>4, <1>5 DEF SubnetStep

LEMMA InternetGatewayIsSafe ==
  ASSUME TieInv, cr.spec.kind \in TieKinds, InternetGatewayStep
  PROVE  TieSafe
<1>1. CASE sdkFindInternetGateway
  BY <1>1, DescribeIsSafe DEF sdkFindInternetGateway, Kind, TieKinds
<1>2. CASE sdkCreateInternetGateway
  <2> DEFINE obj == [live |-> TRUE, vpc |-> NoVPC, tables |-> {}, tags |-> w.spec.tags]
  <2>1. At("create") /\ Kind("internet_gateway") /\ cr.spec.kind = "internet_gateway"
    BY <1>2, TieInvIs DEF sdkCreateInternetGateway, At, Kind
  <2>2. PICK calls : CreateObject(obj, Plan(calls))
    BY <1>2 DEF sdkCreateInternetGateway
  <2>3. Healthy(obj, cr.spec.kind)
    <3>1. IsFiniteSet({})
      BY FS_EmptySet
    <3> QED BY <2>1, <3>1 DEF Healthy
  <2> HIDE DEF obj
  <2> QED BY <2>1, <2>2, <2>3, NextOfCreate, CreateIsSafe
<1>3. CASE customUpdateInternetGateway
  <2> DEFINE delta == newInternetGatewayDelta
             moved == "vpc" \in delta
             detach == When(moved /\ w.seen.vpc # NoVPC, "detach", w.seen.vpc)
             attach == When(moved /\ w.spec.vpc # NoVPC, "attach", w.spec.vpc)
             tables == When("tables" \in delta, "routeTables", {})
             tags == When("tags" \in delta, "tags", {})
             calls == detach \o attach \o tables \o tags
  <2>1. Kind("internet_gateway") /\ Updating /\ Go(Plan(calls))
    BY <1>3 DEF customUpdateInternetGateway
  <2>2. /\ Sparing(detach, w.spec) /\ Sparing(attach, w.spec)
        /\ Sparing(tables, w.spec) /\ Sparing(tags, w.spec)
    <3> DEFINE detaching == moved /\ w.seen.vpc # NoVPC
               attaching == moved /\ w.spec.vpc # NoVPC
    <3>1. /\ detaching => Spares(<<"detach", w.seen.vpc>>, w.spec)
          /\ attaching => Spares(<<"attach", w.spec.vpc>>, w.spec)
          /\ Spares(<<"routeTables", {}>>, w.spec) /\ Spares(<<"tags", {}>>, w.spec)
      BY <2>1 DEF Spares, Kind, newInternetGatewayDelta, DifferentAt
    <3>2. /\ detaching \in BOOLEAN /\ attaching \in BOOLEAN
          /\ ("tables" \in delta) \in BOOLEAN /\ ("tags" \in delta) \in BOOLEAN
      OBVIOUS
    <3>3. {"tags", "routeTables", "attribute", "attach", "detach", "find"} \subseteq UpdateOps
      BY DEF UpdateOps
    <3> HIDE DEF delta, moved, detaching, attaching
    <3>4. Sparing(When(detaching, "detach", w.seen.vpc), w.spec)
      BY <3>1, <3>2, <3>3, WhenSpares
    <3>5. Sparing(When(attaching, "attach", w.spec.vpc), w.spec)
      BY <3>1, <3>2, <3>3, WhenSpares
    <3>6. Sparing(tables, w.spec) /\ Sparing(tags, w.spec)
      BY <3>1, <3>2, <3>3, WhenSpares
    <3> QED BY <3>4, <3>5, <3>6 DEF detaching, attaching
  <2> HIDE DEF detach, attach, tables, tags
  <2>3. Sparing(calls, w.spec)
    <3>1. Sparing(detach \o attach, w.spec)
      BY <2>2, ConcatSpares
    <3>2. Sparing(detach \o attach \o tables, w.spec)
      BY <2>2, <3>1, ConcatSpares
    <3> QED BY <2>2, <3>2, ConcatSpares
  <2> HIDE DEF calls
  <2>4. ~Kind("network_acl")
    BY <2>1 DEF Kind
  <2> QED BY <2>1, <2>3, <2>4, PlannedIsSafe
<1>4. CASE detachFromVPC
  <2> DEFINE obj == [Obj EXCEPT !.vpc = NoVPC]
  <2>1. /\ Doing("detach") /\ At("plan") /\ Follows(Done) /\ Follows(onError)
        /\ (Obj.live /\ Obj.vpc = Arg /\ Call(obj, Done, onError)) \/ Go(onError)
    BY <1>4, FollowersAre DEF detachFromVPC, Doing
  <2>2. CASE Obj.live /\ Obj.vpc = Arg /\ Call(obj, Done, onError)
    <3>1. w.spec.kind = cr.spec.kind
      BY <2>1, <2>2, InPlan
    <3>2. w.mode = "update" => Arg # w.spec.vpc
      BY <2>1, <3>1, HeadSpares DEF Spares
    <3>3. Healthy(obj, cr.spec.kind) /\ Spared(obj)
      BY <2>1, <2>2, <3>2, VPCChanged
    <3> HIDE DEF obj
    <3> QED BY <2>1, <2>2, <3>3, CallIsSafe
  <2> QED BY <2>1, <2>2, GoingOnIsSafe
<1>5. CASE attachToVPC
  <2> DEFINE obj == [Obj EXCEPT !.vpc = Arg]
  <2>1. /\ Doing("attach") /\ At("plan") /\ Follows(Done) /\ Follows(onError)
        /\ (Obj.live /\ Obj.vpc = NoVPC /\ Call(obj, Done, onError)) \/ Go(onError)
    BY <1>5, FollowersAre DEF attachToVPC, Doing
  <2>2. CASE Obj.live /\ Obj.vpc = NoVPC /\ Call(obj, Done, onError)
    <3>1. Healthy(obj, cr.spec.kind) /\ Spared(obj)
      BY <2>1, <2>2, VPCChanged
    <3> HIDE DEF obj
    <3> QED BY <2>1, <2>2, <3>1, CallIsSafe
  <2> QED BY <2>1, <2>2, GoingOnIsSafe
<1>6. CASE sdkDeleteInternetGateway
  <2>1. /\ Deleting \/ Doing("delete")
        /\ (\E calls : Go(Plan(calls))) \/ \E allowed : Delete(allowed)
    BY <1>6 DEF sdkDeleteInternetGateway
  <2> QED BY <2>1, DeletingIsNoUpdate, ElsewhereInAPass
<1> QED BY <1>1, <1>2, <1>3, <1>4, <1>5, <1>6 DEF InternetGatewayStep

LEMMA DHCPOptionsAreSafe ==
  ASSUME TieInv, cr.spec.kind \in TieKinds, DHCPOptionsStep
  PROVE  TieSafe
<1>1. CASE sdkFindDHCPOptions
  BY <1>1, DescribeIsSafe DEF sdkFindDHCPOptions, Kind, TieKinds
<1>2. CASE sdkCreateDHCPOptions
  <2> DEFINE obj == [live |-> TRUE, vpcs |-> {}, tags |-> w.spec.tags]
  <2>1. At("create") /\ Kind("dhcp_options") /\ cr.spec.kind = "dhcp_options"
    BY <1>2, TieInvIs DEF sdkCreateDHCPOptions, At, Kind
  <2>2. PICK calls : CreateObject(obj, Plan(calls))
    BY <1>2 DEF sdkCreateDHCPOptions
  <2>3. Healthy(obj, cr.spec.kind)
    <3>1. IsFiniteSet({})
      BY FS_EmptySet
    <3> QED BY <2>1, <3>1 DEF Healthy
  <2> HIDE DEF obj
  <2> QED BY <2>1, <2>2, <2>3, NextOfCreate, CreateIsSafe
<1>3. CASE customUpdateDHCPOptions
  <2> DEFINE differ == "vpcs" \in newDHCPOptionsDelta
             tags == When("tags" \in newDHCPOptionsDelta, "tags", {})
             find == When(differ, "find", {})
  <2>1. Kind("dhcp_options") /\ Updating /\ ~At("idle") /\ ~Kind("network_acl")
    BY <1>3 DEF customUpdateDHCPOptions, Kind, Updating, At
  <2>2. PICK calls \in syncVPCs(w.spec.vpcs, w.seen.vpcs) :
          Go(Plan((IF differ THEN calls ELSE <<>>) \o find \o tags))
    BY <1>3 DEF customUpdateDHCPOptions
  <2>3. PICK add \in ForEach("attachVPC", w.spec.vpcs \ w.seen.vpcs),
             delete \in ForEach("detachVPC", w.seen.vpcs \ w.spec.vpcs) : calls = add \o delete
    <3> DEFINE want == w.spec.vpcs
               have == w.seen.vpcs
               S == ForEach("attachVPC", want \ have)
               T == ForEach("detachVPC", have \ want)
               J == {s \o t : s \in S, t \in T}
    <3>1. calls \in syncVPCs(want, have)
      BY <2>2
    <3> HIDE DEF have, want
    <3>2. syncVPCs(want, have) = J
      BY DEF syncVPCs
    <3> HIDE DEF S, T, J
    <3>3. calls \in J
      BY <3>1, <3>2
    <3>4. \E s \in S, t \in T : calls = s \o t
      BY <3>3 DEF J
    <3> QED BY <3>4 DEF S, T, want, have
  <2>4. IsFiniteSet(w.spec.vpcs) /\ IsFiniteSet(w.seen.vpcs)
    <3>1. w.seen # Gone /\ Healthy(w.seen, "dhcp_options")
      BY <2>1 DEF TieInv, PassSpares, SeenWhole, Updating, Kind, TieKinds
    <3> QED BY <2>1, <3>1, SpecsAre DEF Healthy, TieKinds
  <2>5. Sparing(calls, w.spec)
    <3>1. /\ IsFiniteSet(w.spec.vpcs \ w.seen.vpcs) /\ IsFiniteSet(w.seen.vpcs \ w.spec.vpcs)
          /\ \A x \in w.spec.vpcs \ w.seen.vpcs : Spares(<<"attachVPC", x>>, w.spec)
          /\ \A x \in w.seen.vpcs \ w.spec.vpcs : Spares(<<"detachVPC", x>>, w.spec)
      BY <2>4, FS_Subset DEF Spares
    <3>2. Sparing(add, w.spec) /\ Sparing(delete, w.spec)
      BY <3>1, ForEachSpares DEF UpdateOps
    <3> QED BY <2>3, <3>2, ConcatSpares
  <2>6. Sparing(<<>>, w.spec)
    BY NoCalls DEF Sparing
  <2>7. Sparing(find, w.spec) /\ Sparing(tags, w.spec)
    <3>1. Spares(<<"find", {}>>, w.spec) /\ Spares(<<"tags", {}>>, w.spec)
      BY DEF Spares
    <3>2. differ \in BOOLEAN /\ ("tags" \in newDHCPOptionsDelta) \in BOOLEAN
      OBVIOUS
    <3> HIDE DEF differ
    <3>3. {"tags", "routeTables", "attribute", "attach", "detach", "find"} \subseteq UpdateOps
      BY DEF UpdateOps
    <3> QED BY <3>1, <3>2, <3>3, WhenSpares
  <2> DEFINE sync == IF differ THEN calls ELSE <<>>
  <2>8. Sparing(sync, w.spec)
    BY <2>5, <2>6
  <2> HIDE DEF sync, find, tags
  <2>9. Sparing(sync \o find \o tags, w.spec)
    <3>1. Sparing(sync \o find, w.spec)
      BY <2>7, <2>8, ConcatSpares
    <3> QED BY <2>7, <3>1, ConcatSpares
  <2>10. Go(Plan(sync \o find \o tags))
    BY <2>2 DEF sync
  <2> QED BY <2>1, <2>9, <2>10, PlannedIsSafe
<1>4. CASE findAfterUpdate
  <2>1. /\ Doing("find") /\ At("plan") /\ Follows(Done) /\ Follows(onError)
        /\ Go(Done) \/ Go(onError) \/ Unread(onError)
    BY <1>4, FollowersAre DEF findAfterUpdate, Doing
  <2> QED BY <2>1, GoingOnIsSafe
<1>5. CASE attachVPC
  <2> DEFINE vpcs == Obj.vpcs \cup {Arg}
             obj == [Obj EXCEPT !.vpcs = vpcs]
  <2>1. /\ Doing("attachVPC") /\ At("plan") /\ Follows(Done) /\ Follows(Unnoticed)
        /\ (Obj.live /\ Call(obj, Done, Unnoticed)) \/ Go(Unnoticed)
    BY <1>5, FollowersAre DEF attachVPC, Doing
  <2>2. CASE Obj.live /\ Call(obj, Done, Unnoticed)
    <3>1. Kind("dhcp_options") => IsFiniteSet(vpcs)
      BY <2>1, <2>2, InPlan, FS_AddElement
    <3>2. Obj.vpcs \cap w.spec.vpcs \subseteq vpcs
      OBVIOUS
    <3> HIDE DEF vpcs
    <3>3. Healthy(obj, cr.spec.kind) /\ Spared(obj)
      BY <2>1, <2>2, <3>1, <3>2, VPCsChanged
    <3> HIDE DEF obj
    <3> QED BY <2>1, <2>2, <3>3, CallIsSafe
  <2> QED BY <2>1, <2>2, GoingOnIsSafe
<1>6. CASE detachVPC
  <2> DEFINE vpcs == Obj.vpcs \ {Arg}
             obj == [Obj EXCEPT !.vpcs = vpcs]
  <2>1. /\ Doing("detachVPC") /\ At("plan") /\ Follows(Done) /\ Follows(Unnoticed)
        /\ (Obj.live /\ Call(obj, Done, Unnoticed)) \/ Go(Unnoticed)
    BY <1>6, FollowersAre DEF detachVPC, Doing
  <2>2. CASE Obj.live /\ Call(obj, Done, Unnoticed)
    <3>1. Kind("dhcp_options") => IsFiniteSet(vpcs)
      BY <2>1, <2>2, InPlan, FS_Subset
    <3>2. w.spec.kind = cr.spec.kind
      BY <2>1, <2>2, InPlan
    <3>3. w.mode = "update" => Arg \notin w.spec.vpcs
      BY <2>1, <3>2, HeadSpares DEF Spares
    <3>4. w.mode = "update" => Obj.vpcs \cap w.spec.vpcs \subseteq vpcs
      BY <3>3
    <3> HIDE DEF vpcs
    <3>5. Healthy(obj, cr.spec.kind) /\ Spared(obj)
      BY <2>1, <2>2, <3>1, <3>4, VPCsChanged
    <3> HIDE DEF obj
    <3> QED BY <2>1, <2>2, <3>5, CallIsSafe
  <2> QED BY <2>1, <2>2, GoingOnIsSafe
<1>7. CASE sdkDeleteDHCPOptions
  <2>1. /\ Deleting \/ Doing("delete")
        /\ (\E calls : Go(Plan(calls))) \/ \E allowed : Delete(allowed)
    BY <1>7 DEF sdkDeleteDHCPOptions
  <2> QED BY <2>1, DeletingIsNoUpdate, ElsewhereInAPass
<1> QED BY <1>1, <1>2, <1>3, <1>4, <1>5, <1>6, <1>7 DEF DHCPOptionsStep

\* What an update of a network ACL is to do.
LEMMA EntryCallsAre ==
  ASSUME NEW spec, IsFiniteSet(spec.entries), NEW have, IsFiniteSet(have), Numbered(have),
         Numbered(spec.entries),
         NEW calls, calls \in EntryCalls(spec.entries, have), NEW entries, entries \subseteq have
  PROVE  Sparing(calls, spec) /\ Orderly(calls, entries, spec)
<1> DEFINE want == spec.entries
           missing == want \ have
           changed == {e \in missing : e[1] \in Numbers(have)}
           C == ForEach("createEntry", missing \ changed)
           D == ForEach("deleteEntry", have \ want)
           U == ForEach("updateEntry", changed)
           J == {create \o delete \o update : create \in C, delete \in D, update \in U}
<1>0. calls \in EntryCalls(want, have)
  OBVIOUS
<1>1. EntryCalls(want, have) = J
  BY DEF EntryCalls
<1>2. /\ IsFiniteSet(missing \ changed) /\ IsFiniteSet(have \ want) /\ IsFiniteSet(changed)
  <2>1. IsFiniteSet(missing)
    BY FS_Subset
  <2> HIDE DEF missing
  <2> QED BY <2>1, FS_Subset
<1>3. /\ \A x \in missing \ changed : Spares(<<"createEntry", x>>, spec)
      /\ \A x \in have \ want : Spares(<<"deleteEntry", x>>, spec)
      /\ \A x \in changed : Spares(<<"updateEntry", x>>, spec)
  BY DEF Spares
<1>4. \A x \in missing \ changed, y \in have \ want : x[1] # y[1]
  BY DEF Numbers
<1>5. \A y \in have \ want : \A e \in entries \cap spec.entries : e[1] # y[1]
  BY DEF Numbered
<1>6. calls \in J
  <2> HIDE DEF J, want
  <2> QED BY <1>0, <1>1
<1> DEFINE creating == missing \ changed
           deleting == have \ want
           updating == changed
<1>7. /\ IsFiniteSet(creating) /\ IsFiniteSet(deleting) /\ IsFiniteSet(updating)
      /\ \A x \in creating : Spares(<<"createEntry", x>>, spec)
      /\ \A x \in deleting : Spares(<<"deleteEntry", x>>, spec)
      /\ \A x \in updating : Spares(<<"updateEntry", x>>, spec)
      /\ \A x \in creating, y \in deleting : x[1] # y[1]
      /\ \A y \in deleting : \A e \in entries \cap spec.entries : e[1] # y[1]
  BY <1>2, <1>3, <1>4, <1>5
<1> HIDE DEF C, D, U
<1>8. PICK create \in C, delete \in D, update \in U : calls = create \o delete \o update
  BY <1>6 DEF J
<1> HIDE DEF J
<1>9. /\ create \in ForEach("createEntry", creating) /\ delete \in ForEach("deleteEntry", deleting)
      /\ update \in ForEach("updateEntry", updating)
  BY <1>8 DEF C, D, U
<1> HIDE DEF want, missing, changed, creating, deleting, updating
<1>10. {"createEntry", "deleteEntry", "updateEntry"} \subseteq UpdateOps
  BY DEF UpdateOps
<1>11. /\ Sparing(create, spec) /\ Ops(create) \subseteq {"createEntry"}
       /\ Sparing(delete, spec) /\ Ops(delete) \subseteq {"deleteEntry"}
       /\ Sparing(update, spec) /\ Ops(update) \subseteq {"updateEntry"}
  BY <1>7, <1>9, <1>10, ForEachSpares
<1>12. /\ \A i \in DOMAIN create : \E x \in creating : create[i] = <<"createEntry", x>>
       /\ \A i \in DOMAIN delete : \E x \in deleting : delete[i] = <<"deleteEntry", x>>
  BY <1>7, <1>9, ForEachIs
<1>13. Orderly(create, entries, spec) /\ Orderly(update, entries, spec)
  BY <1>11, NothingDeleted
<1>14. Orderly(delete, entries, spec)
  <2> SUFFICES ASSUME NEW i \in DOMAIN delete
               PROVE  /\ \A e \in entries \cap spec.entries : e[1] # delete[i][2][1]
                      /\ \A j \in DOMAIN delete :
                           j < i /\ delete[j][1] \in {"createEntry", "updateEntry"}
                             => delete[j][2][1] # delete[i][2][1]
    BY DEF Orderly
  <2>1. PICK y \in deleting : delete[i] = <<"deleteEntry", y>>
    BY <1>12
  <2>2. delete[i][2] = y
    BY <2>1
  <2>3. \A j \in DOMAIN delete : delete[j][1] = "deleteEntry"
    BY <1>11 DEF Ops
  <2> QED BY <1>7, <2>2, <2>3
<1>15. \A i \in DOMAIN create, j \in DOMAIN delete :
         create[i][1] \in {"createEntry", "updateEntry"} /\ delete[j][1] = "deleteEntry"
           => create[i][2][1] # delete[j][2][1]
  <2> SUFFICES ASSUME NEW i \in DOMAIN create, NEW j \in DOMAIN delete
               PROVE  create[i][2][1] # delete[j][2][1]
    OBVIOUS
  <2>1. PICK x \in creating : create[i] = <<"createEntry", x>>
    BY <1>12
  <2>2. PICK y \in deleting : delete[j] = <<"deleteEntry", y>>
    BY <1>12
  <2>3. create[i][2] = x /\ delete[j][2] = y
    BY <2>1, <2>2
  <2> QED BY <1>7, <2>3
<1>16. Orderly(create \o delete, entries, spec)
  BY <1>11, <1>13, <1>14, <1>15, ConcatIsOrderly
<1>17. /\ Sparing(create \o delete, spec) /\ Ops(create \o delete) = Ops(create) \cup Ops(delete)
  BY <1>11, ConcatSpares
<1> DEFINE first == create \o delete
<1> HIDE DEF first
<1>18. /\ Sparing(first, spec) /\ Orderly(first, entries, spec)
       /\ Ops(first) = Ops(create) \cup Ops(delete) /\ calls = first \o update
  BY <1>8, <1>16, <1>17 DEF first
<1>19. "deleteEntry" \notin Ops(update)
  BY <1>11
<1>20. Orderly(first \o update, entries, spec)
  BY <1>11, <1>13, <1>18, <1>19, OneAfterTheOther
<1>21. Sparing(first \o update, spec) /\ Ops(first \o update) = Ops(first) \cup Ops(update)
  BY <1>11, <1>18, ConcatSpares
<1> QED BY <1>11, <1>18, <1>20, <1>21

LEMMA EntriesPlanIs ==
  ASSUME NEW spec, IsFiniteSet(spec.entries), NEW have, IsFiniteSet(have), Numbered(have),
         NEW calls, calls \in syncEntries(spec.entries, have), NEW entries, entries \subseteq have
  PROVE  Sparing(calls, spec) /\ Orderly(calls, entries, spec)
<1>1. CASE Numbered(spec.entries)
  <2>1. calls \in EntryCalls(spec.entries, have)
    BY <1>1 DEF syncEntries
  <2> QED BY <1>1, <2>1, EntryCallsAre
<1>2. CASE ~Numbered(spec.entries)
  <2>1. calls = When(TRUE, "refuse", {})
    BY <1>2 DEF syncEntries
  <2>2. "refuse" \in UpdateOps /\ Spares(<<"refuse", {}>>, spec)
    BY DEF UpdateOps, Spares
  <2>3. Sparing(calls, spec) /\ Ops(calls) \subseteq {"refuse"}
    BY <2>1, <2>2, WhenSpares
  <2> QED BY <2>3, NothingDeleted
<1> QED BY <1>1, <1>2

LEMMA SubnetsPlanIs ==
  ASSUME NEW spec, IsFiniteSet(spec.subnets), NEW have, IsFiniteSet(have),
         NEW calls, calls \in syncAssociation(spec.subnets, have)
  PROVE  Sparing(calls, spec) /\ "deleteEntry" \notin Ops(calls)
<1> DEFINE want == spec.subnets
           Ways == {"NetworkACLAssociationID", "SubnetID"}
           arriving == want \ have
           leaving == (have \ want) \X Ways
           A == ForEach("upsert", arriving)
           D == ForEach("deleteOld", leaving)
           middle == <<<<"defaultACL", {}>>>>
           J == {add \o middle \o delete : add \in A, delete \in D}
<1>1. syncAssociation(want, have) = J
  BY DEF syncAssociation
<1>2. calls \in J
  <2>1. calls \in syncAssociation(want, have)
    OBVIOUS
  <2> HIDE DEF J, want
  <2> QED BY <1>1, <2>1
<1> HIDE DEF A, D, middle
<1>3. PICK add \in A, delete \in D : calls = add \o middle \o delete
  BY <1>2 DEF J
<1> HIDE DEF J
<1>4. IsFiniteSet(arriving) /\ IsFiniteSet(have \ want)
  BY FS_Subset
<1>5. IsFiniteSet(Ways)
  <2>1. IsFiniteSet({}) 
    BY FS_EmptySet
  <2>2. IsFiniteSet({"SubnetID"})
    BY FS_Singleton
  <2>3. IsFiniteSet({"SubnetID"} \cup {"NetworkACLAssociationID"})
    BY <2>2, FS_AddElement
  <2>4. Ways = {"SubnetID"} \cup {"NetworkACLAssociationID"}
    OBVIOUS
  <2> HIDE DEF Ways
  <2> QED BY <2>3, <2>4
<1>6. IsFiniteSet(leaving)
  <2> DEFINE gone == have \ want
  <2>1. IsFiniteSet(gone)
    BY <1>4
  <2> HIDE DEF gone, Ways
  <2>2. IsFiniteSet(gone \X Ways)
    BY <1>5, <2>1, FS_Product
  <2> QED BY <2>2 DEF gone
<1>7. /\ \A x \in arriving : Spares(<<"upsert", x>>, spec)
      /\ \A x \in leaving : Spares(<<"deleteOld", x>>, spec)
  BY DEF Spares
<1> HIDE DEF arriving, leaving, want, Ways
<1>8. /\ "upsert" \in UpdateOps /\ "deleteOld" \in UpdateOps /\ "defaultACL" \in UpdateOps
  BY DEF UpdateOps
<1>9. Sparing(add, spec) /\ Ops(add) \subseteq {"upsert"}
  BY <1>3, <1>4, <1>7, <1>8, ForEachSpares DEF A
<1>10. Sparing(delete, spec) /\ Ops(delete) \subseteq {"deleteOld"}
  BY <1>3, <1>6, <1>7, <1>8, ForEachSpares DEF D
<1>11. Sparing(middle, spec) /\ Ops(middle) \subseteq {"defaultACL"}
  <2>1. Spares(<<"defaultACL", {}>>, spec)
    BY DEF Spares
  <2>2. middle = When(TRUE, "defaultACL", {})
    BY DEF middle, When
  <2> QED BY <1>8, <2>1, <2>2, WhenSpares
<1> DEFINE first == add \o middle
<1>12. Sparing(first, spec) /\ Ops(first) = Ops(add) \cup Ops(middle)
  BY <1>9, <1>11, ConcatSpares
<1>13. calls = first \o delete
  BY <1>3
<1> HIDE DEF first
<1>14. Sparing(first \o delete, spec) /\ Ops(first \o delete) = Ops(first) \cup Ops(delete)
  BY <1>10, <1>12, ConcatSpares
<1> QED BY <1>9, <1>10, <1>11, <1>12, <1>13, <1>14

\* An entry that the first call of a plan puts there.
LEMMA PutInPlace ==
  ASSUME NEW calls, NEW spec, Sparing(calls, spec), 1 \in DOMAIN calls,
         calls[1][1] \in {"createEntry", "updateEntry"},
         NEW entries, Orderly(calls, entries, spec), NEW left, left \subseteq entries
  PROVE  Orderly(calls, left \cup {calls[1][2]}, spec)
<1> DEFINE x == calls[1][2]
<1> SUFFICES ASSUME NEW i \in DOMAIN calls, calls[i][1] = "deleteEntry"
             PROVE  /\ \A e \in (left \cup {x}) \cap spec.entries : e[1] # calls[i][2][1]
                    /\ \A j \in DOMAIN calls :
                         j < i /\ calls[j][1] \in {"createEntry", "updateEntry"}
                           => calls[j][2][1] # calls[i][2][1]
  BY DEF Orderly
<1>1. DOMAIN calls = 1 .. Len(calls) /\ Len(calls) \in Nat
  BY SparingIs
<1>2. /\ \A e \in entries \cap spec.entries : e[1] # calls[i][2][1]
      /\ \A j \in DOMAIN calls :
           j < i /\ calls[j][1] \in {"createEntry", "updateEntry"}
             => calls[j][2][1] # calls[i][2][1]
  BY DEF Orderly
<1>3. i # 1
  OBVIOUS
<1>4. 1 < i
  BY <1>1, <1>3
<1>5. x[1] # calls[i][2][1]
  BY <1>2, <1>4
<1> HIDE DEF x
<1> QED BY <1>2, <1>5

\* sdkUpdate of a network ACL.
LEMMA NetworkACLUpdateIsSafe ==
  ASSUME TieInv, cr.spec.kind \in TieKinds, customUpdateNetworkAcl
  PROVE  TieSafe
<1> DEFINE differs == "subnets" \in newNetworkACLDelta
           any == newNetworkACLDelta # {}
           tags == When("tags" \in newNetworkACLDelta, "tags", {})
           find == When(any, "findACL", {})
<1>1. Kind("network_acl") /\ Updating /\ ~At("idle")
  BY DEF customUpdateNetworkAcl, Kind, Updating, At
<1>2. PICK entries \in syncEntries(w.spec.entries, w.seen.entries),
           subnets \in syncAssociation(w.spec.subnets, w.seen.subnets) :
        Go(Plan(tags \o entries \o (IF differs THEN subnets ELSE <<>>) \o find))
  BY DEF customUpdateNetworkAcl
<1>3. /\ IsFiniteSet(w.spec.entries) /\ IsFiniteSet(w.spec.subnets)
      /\ IsFiniteSet(w.seen.entries) /\ IsFiniteSet(w.seen.subnets) /\ Numbered(w.seen.entries)
      /\ Obj.live => Obj.entries \subseteq w.seen.entries
  <2>1. /\ w.seen # Gone /\ Healthy(w.seen, "network_acl")
        /\ Obj.live => Obj.entries \subseteq w.seen.entries
    BY <1>1 DEF TieInv, PassSpares, SeenWhole, Updating, Kind, TieKinds
  <2> QED BY <1>1, <2>1, SpecsAre DEF Healthy, TieKinds
<1> DEFINE declared == w.spec
           E == IF Obj.live THEN Obj.entries ELSE {}
           S == IF differs THEN subnets ELSE <<>>
<1>4. /\ Sparing(entries, declared) /\ Orderly(entries, E, declared)
  <2>1. E \subseteq w.seen.entries
    BY <1>3
  <2>2. entries \in syncEntries(declared.entries, w.seen.entries)
    BY <1>2
  <2>3. IsFiniteSet(declared.entries)
    BY <1>3
  <2> DEFINE have == w.seen.entries
  <2>4. IsFiniteSet(have) /\ Numbered(have) /\ E \subseteq have
    BY <1>3, <2>1
  <2>5. entries \in syncEntries(declared.entries, have)
    BY <2>2
  <2> HIDE DEF declared, E, have
  <2> QED BY <2>3, <2>4, <2>5, EntriesPlanIs
<1>5. Sparing(subnets, declared) /\ "deleteEntry" \notin Ops(subnets)
  <2> DEFINE have == w.seen.subnets
  <2>1. IsFiniteSet(declared.subnets) /\ IsFiniteSet(have)
    BY <1>3
  <2>2. subnets \in syncAssociation(declared.subnets, have)
    BY <1>2
  <2> HIDE DEF declared, have
  <2> QED BY <2>1, <2>2, SubnetsPlanIs
<1>6. Sparing(S, declared) /\ "deleteEntry" \notin Ops(S)
  <2>1. Sparing(<<>>, declared) /\ Ops(<<>>) = {}
    BY NoCalls DEF Sparing, Ops
  <2> QED BY <1>5, <2>1
<1>7. /\ Sparing(tags, declared) /\ Ops(tags) \subseteq {"tags"}
      /\ Sparing(find, declared) /\ Ops(find) \subseteq {"findACL"}
  <2>1. Spares(<<"tags", {}>>, declared) /\ Spares(<<"findACL", {}>>, declared)
    BY DEF Spares
  <2>2. ("tags" \in newNetworkACLDelta) \in BOOLEAN /\ any \in BOOLEAN
    OBVIOUS
  <2>3. "tags" \in UpdateOps /\ "findACL" \in UpdateOps
    BY DEF UpdateOps
  <2> HIDE DEF any, declared
  <2> QED BY <2>1, <2>2, <2>3, WhenSpares
<1>8. Go(Plan(tags \o entries \o S \o find))
  BY <1>2
<1>9. w.spec = declared
  OBVIOUS
<1>10. Obj.live => E = Obj.entries
  OBVIOUS
<1> HIDE DEF tags, find, S, E, declared
<1>11. /\ Orderly(tags, E, declared) /\ Orderly(S, E, declared) /\ Orderly(find, E, declared)
       /\ "deleteEntry" \notin Ops(find)
       /\ Ops(tags) \cap {"createEntry", "updateEntry"} = {}
  BY <1>6, <1>7, NothingDeleted
<1> DEFINE one == tags \o entries
<1>12. Sparing(one, declared) /\ Orderly(one, E, declared)
  BY <1>4, <1>7, <1>11, ConcatSpares, OneAfterTheOther
<1> HIDE DEF one
<1> DEFINE two == one \o S
<1>13. Sparing(two, declared) /\ Orderly(two, E, declared)
  BY <1>6, <1>11, <1>12, ConcatSpares, OneAfterTheOther
<1> HIDE DEF two
<1> DEFINE calls == two \o find
<1>14. Sparing(calls, declared) /\ Orderly(calls, E, declared)
  BY <1>7, <1>11, <1>13, ConcatSpares, OneAfterTheOther
<1>15. Go(Plan(calls))
  BY <1>8 DEF two, one
<1> HIDE DEF calls
<1>16. /\ Sparing(calls, w.spec)
       /\ Kind("network_acl") /\ Obj.live => Orderly(calls, Obj.entries, w.spec)
  BY <1>9, <1>10, <1>14
<1> QED BY <1>1, <1>15, <1>16, PlannedIsSafe

\* The calls on the entries.
LEMMA EntryCallIsSafe ==
  ASSUME TieInv, cr.spec.kind \in TieKinds,
         createEntry \/ deleteEntry \/ updateEntry
  PROVE  TieSafe
<1>1. /\ At("plan") /\ ~At("idle") /\ Follows(Done) /\ Follows(onError)
      /\ Follows(orLogged("createEntry"))
  BY FollowersAre DEF createEntry, deleteEntry, updateEntry, Doing, At
<1>2. ASSUME Obj.live
      PROVE  /\ w.spec.kind = cr.spec.kind
             /\ Kind("network_acl") =>
                  /\ IsFiniteSet(Obj.entries) /\ Numbered(Obj.entries)
  BY <1>1, <1>2, InPlan
<1>3. CASE createEntry
  <2> DEFINE entries == Obj.entries \cup {Arg}
             obj == [Obj EXCEPT !.entries = entries]
             failed == orLogged("createEntry")
  <2>1. /\ Doing("createEntry")
        /\ \/ Obj.live /\ Arg[1] \notin Numbers(Obj.entries) /\ Call(obj, Done, failed)
           \/ Go(failed)
    BY <1>3 DEF createEntry
  <2>2. CASE Obj.live /\ Arg[1] \notin Numbers(Obj.entries) /\ Call(obj, Done, failed)
    <3>1. Kind("network_acl") => IsFiniteSet(entries) /\ Numbered(entries)
      BY <1>2, <2>2, FS_AddElement DEF Numbered, Numbers
    <3>2. ASSUME Kind("network_acl"), w.mode = "update", Orderly(w.plan, Obj.entries, w.spec)
          PROVE  Orderly(w.plan, entries, w.spec)
      <4> DEFINE all == Obj.entries
                 spec == w.spec
                 calls == w.plan
      <4>1. /\ Sparing(calls, spec) /\ 1 \in DOMAIN calls
            /\ calls[1][1] \in {"createEntry", "updateEntry"} /\ calls[1][2] = Arg
            /\ Orderly(calls, all, spec) /\ all \subseteq all
        BY <1>2, <2>1, <2>2, <3>2, HeadSpares
      <4>2. entries = all \cup {Arg}
        OBVIOUS
      <4> HIDE DEF all, spec, calls, entries
      <4>3. Orderly(calls, entries, spec)
        BY <4>1, <4>2, PutInPlace
      <4> QED BY <4>3 DEF spec, calls
    <3>3. Obj.entries \cap w.spec.entries \subseteq entries
      OBVIOUS
    <3> HIDE DEF entries
    <3>4. Healthy(obj, cr.spec.kind) /\ Spared(obj)
      BY <1>1, <2>2, <3>1, <3>2, <3>3, EntriesChanged
    <3> HIDE DEF obj, failed
    <3>5. Call(obj, Done, failed) /\ Follows(failed)
      BY <1>1, <2>2 DEF failed
    <3> QED BY <1>1, <2>1, <2>2, <3>4, <3>5, CallIsSafe
  <2> QED BY <1>1, <2>1, <2>2, GoingOnIsSafe
<1>4. CASE deleteEntry
  <2> DEFINE entries == {e \in Obj.entries : e[1] # Arg[1]}
             obj == [Obj EXCEPT !.entries = entries]
  <2>1. /\ Doing("deleteEntry")
        /\ (Obj.live /\ Call(obj, Done, onError)) \/ Go(onError)
    BY <1>4 DEF deleteEntry
  <2>2. CASE Obj.live /\ Call(obj, Done, onError)
    <3>1. Kind("network_acl") => IsFiniteSet(entries) /\ Numbered(entries)
      BY <1>2, <2>2, FS_Subset DEF Numbered
    <3>2. Orderly(w.plan, Obj.entries, w.spec) => Orderly(w.plan, entries, w.spec)
      BY DEF Orderly
    <3>3. ASSUME Kind("network_acl"), w.mode = "update"
          PROVE  Obj.entries \cap w.spec.entries \subseteq entries
      <4>1. /\ 1 \in DOMAIN w.plan /\ w.plan[1][1] = "deleteEntry" /\ w.plan[1][2] = Arg
            /\ Orderly(w.plan, Obj.entries, w.spec)
        BY <1>2, <2>1, <2>2, <3>3, HeadSpares
      <4>2. \A e \in Obj.entries \cap w.spec.entries : e[1] # Arg[1]
        BY <4>1 DEF Orderly
      <4> QED BY <4>2
    <3> HIDE DEF entries
    <3>4. Healthy(obj, cr.spec.kind) /\ Spared(obj)
      BY <1>1, <2>2, <3>1, <3>2, <3>3, EntriesChanged
    <3> HIDE DEF obj
    <3> QED BY <1>1, <2>1, <2>2, <3>4, CallIsSafe
  <2> QED BY <1>1, <2>1, <2>2, GoingOnIsSafe
<1>5. CASE updateEntry
  <2> DEFINE left == {e \in Obj.entries : e[1] # Arg[1]}
             entries == left \cup {Arg}
             obj == [Obj EXCEPT !.entries = entries]
  <2>1. /\ Doing("updateEntry")
        /\ (Obj.live /\ Call(obj, Done, onError)) \/ Go(onError)
    BY <1>5 DEF updateEntry
  <2>2. CASE Obj.live /\ Call(obj, Done, onError)
    <3>1. Kind("network_acl") => IsFiniteSet(entries) /\ Numbered(entries)
      <4>1. Kind("network_acl") => IsFiniteSet(left)
        BY <1>2, <2>2, FS_Subset
      <4>2. Kind("network_acl") => IsFiniteSet(entries)
        <5> HIDE DEF left
        <5> QED BY <4>1, FS_AddElement
      <4>3. Kind("network_acl") => Numbered(entries)
        BY <1>2, <2>2 DEF Numbered
      <4> QED BY <4>2, <4>3
    <3>2. ASSUME Kind("network_acl"), w.mode = "update"
          PROVE  /\ Arg \in w.spec.entries /\ Numbered(w.spec.entries)
                 /\ Orderly(w.plan, Obj.entries, w.spec) => Orderly(w.plan, entries, w.spec)
      <4> DEFINE all == Obj.entries
                 spec == w.spec
                 calls == w.plan
      <4>1. /\ Sparing(calls, spec) /\ 1 \in DOMAIN calls /\ Spares(calls[1], spec)
            /\ calls[1][1] = "updateEntry" /\ calls[1][2] = Arg /\ left \subseteq all
        BY <1>2, <2>1, <2>2, <3>2, HeadSpares
      <4> HIDE DEF all, spec, calls, left
      <4>2. Arg \in spec.entries /\ Numbered(spec.entries)
        BY <4>1 DEF Spares
      <4>3. Orderly(calls, all, spec) => Orderly(calls, left \cup {Arg}, spec)
        BY <4>1, PutInPlace
      <4> QED BY <4>2, <4>3 DEF spec, calls, all
    <3>3. ASSUME Kind("network_acl"), w.mode = "update"
          PROVE  Obj.entries \cap w.spec.entries \subseteq entries
      BY <1>2, <2>2, <3>2, <3>3 DEF Numbered
    <3> HIDE DEF entries
    <3>4. Healthy(obj, cr.spec.kind) /\ Spared(obj)
      BY <1>1, <2>2, <3>1, <3>2, <3>3, EntriesChanged
    <3> HIDE DEF obj
    <3> QED BY <1>1, <2>1, <2>2, <3>4, CallIsSafe
  <2> QED BY <1>1, <2>1, <2>2, GoingOnIsSafe
<1> QED BY <1>3, <1>4, <1>5

LEMMA NetworkACLIsSafe ==
  ASSUME TieInv, cr.spec.kind \in TieKinds, NetworkACLStep
  PROVE  TieSafe
<1>1. CASE sdkFindNetworkACL
  BY <1>1, DescribeIsSafe DEF sdkFindNetworkACL, Kind, TieKinds
<1>2. CASE sdkCreateNetworkACL
  <2> DEFINE obj == [live |-> TRUE, entries |-> {}, subnets |-> {}, tags |-> w.spec.tags]
  <2>1. At("create") /\ Kind("network_acl") /\ cr.spec.kind = "network_acl"
    BY <1>2, TieInvIs DEF sdkCreateNetworkACL, At, Kind
  <2>2. PICK calls : CreateObject(obj, Plan(calls))
    BY <1>2 DEF sdkCreateNetworkACL
  <2>3. Healthy(obj, cr.spec.kind)
    <3>1. IsFiniteSet({})
      BY FS_EmptySet
    <3> QED BY <2>1, <3>1 DEF Healthy, Numbered
  <2> HIDE DEF obj
  <2> QED BY <2>1, <2>2, <2>3, NextOfCreate, CreateIsSafe
<1>3. CASE upsertNewAssociations
  <2> DEFINE subnets == Obj.subnets \cup {Arg}
             obj == [Obj EXCEPT !.subnets = subnets]
             failed == orLogged("upsert")
  <2>1. /\ Doing("upsert") /\ At("plan") /\ Follows(Done) /\ Follows(failed)
        /\ (Obj.live /\ Call(obj, Done, failed)) \/ Go(failed)
    BY <1>3, FollowersAre DEF upsertNewAssociations, Doing
  <2> HIDE DEF failed
  <2>2. CASE Obj.live /\ Call(obj, Done, failed)
    <3>1. Kind("network_acl") => IsFiniteSet(subnets)
      BY <2>1, <2>2, InPlan, FS_AddElement
    <3>2. Obj.subnets \cap w.spec.subnets \subseteq subnets
      OBVIOUS
    <3> HIDE DEF subnets
    <3>3. Healthy(obj, cr.spec.kind) /\ Spared(obj)
      BY <2>1, <2>2, <3>1, <3>2, SubnetsChanged
    <3> HIDE DEF obj
    <3> QED BY <2>1, <2>2, <3>3, CallIsSafe
  <2> QED BY <2>1, <2>2, GoingOnIsSafe
<1>4. CASE refuseEntries \/ describeDefaultACL \/ findACLAfterUpdate
  <2>1. PICK op : Doing(op) /\ (Go(Done) \/ Go(onError) \/ Unread(onError))
    BY <1>4 DEF refuseEntries, describeDefaultACL, findACLAfterUpdate
  <2>2. Follows(Done) /\ Follows(onError)
    BY <2>1, FollowersAre DEF Doing
  <2> QED BY <2>1, <2>2, GoingOnIsSafe
<1>5. CASE deleteOldAssociations
  <2> DEFINE subnets == Obj.subnets \ {Arg[1]}
             obj == [Obj EXCEPT !.subnets = subnets]
  <2>1. /\ Doing("deleteOld") /\ At("plan") /\ Follows(Done) /\ Follows(onError)
        /\ (Obj.live /\ Call(obj, Done, onError)) \/ Go(onError)
    BY <1>5, FollowersAre DEF deleteOldAssociations, Doing
  <2>2. CASE Obj.live /\ Call(obj, Done, onError)
    <3>1. Kind("network_acl") => IsFiniteSet(subnets)
      BY <2>1, <2>2, InPlan, FS_Subset
    <3>2. w.spec.kind = cr.spec.kind
      BY <2>1, <2>2, InPlan
    <3>3. w.mode = "update" => Arg[1] \notin w.spec.subnets
      BY <2>1, <3>2, HeadSpares DEF Spares
    <3>4. w.mode = "update" => Obj.subnets \cap w.spec.subnets \subseteq subnets
      BY <3>3
    <3> HIDE DEF subnets
    <3>5. Healthy(obj, cr.spec.kind) /\ Spared(obj)
      BY <2>1, <2>2, <3>1, <3>4, SubnetsChanged
    <3> HIDE DEF obj
    <3> QED BY <2>1, <2>2, <3>5, CallIsSafe
  <2> QED BY <2>1, <2>2, GoingOnIsSafe
<1>6. CASE sdkDeleteNetworkACL
  <2>1. /\ Deleting \/ Doing("delete")
        /\ (\E calls : Go(Plan(calls))) \/ \E allowed : Delete(allowed)
    BY <1>6 DEF sdkDeleteNetworkACL
  <2> QED BY <2>1, DeletingIsNoUpdate, ElsewhereInAPass
<1> QED BY <1>1, <1>2, <1>3, <1>4, <1>5, <1>6, NetworkACLUpdateIsSafe, EntryCallIsSafe
        DEF NetworkACLStep

----------------------------------------------------------------------------
(* The other kinds, the runtime and the rest of the world.                 *)

\* A call that is no part of an update of the kinds that tie.
LEMMA OutsideUpdatesIsSafe ==
  ASSUME TieInv, cr.spec.kind \in TieKinds, NEW op, Doing(op), op \notin UpdateOps,
         NEW obj, Healthy(Obj, cr.spec.kind) => Healthy(obj, cr.spec.kind),
         ec2' \in {ec2, [ec2 EXCEPT ![w.id] = obj]}, UNCHANGED cr,
         w'.mode = w.mode \/ w'.pc = "idle"
  PROVE  TieSafe
<1>1. w.mode # "update"
  BY NotOfAnUpdate
<1>2. w.id \in Ids /\ Healthy(Obj, cr.spec.kind)
  BY TieInvIs, DoingIs DEF Doing, Obj
<1>3. ObjectsHealthy'
  BY <1>2, ObjectIsHealthy
<1> QED BY <1>1, <1>3, OtherModeIsSafe

LEMMA FollowersKeepMode ==
  ASSUME TieInv, At("plan"), NEW x
  PROVE  /\ Done.mode = w.mode /\ onError.mode = w.mode /\ orDeferred.mode = w.mode
         /\ [Done EXCEPT !.version = x].mode = w.mode
         /\ IdleWorker.pc = "idle"
<1>1. DOMAIN w = WorkerFields /\ Follows(Done) /\ Follows(onError)
  BY TieInvIs, FollowersAre
<1>2. Done.mode = w.mode /\ onError.mode = w.mode
  BY <1>1 DEF Follows
<1>3. [Done EXCEPT !.version = x].mode = w.mode
  BY <1>1 DEF Done, WorkerFields
<1>4. orDeferred.mode = w.mode
  <2>1. ASSUME NEW plan
        PROVE  [w EXCEPT !.plan = plan, !.blind = TRUE].mode = w.mode
    BY <1>1 DEF WorkerFields
  <2> QED BY <1>2, <2>1 DEF orDeferred
<1> QED BY <1>2, <1>3, <1>4, IdleIs

LEMMA OtherKindsAreSafe ==
  ASSUME TieInv, cr.spec.kind \in TieKinds,
         InstanceStep \/ LaunchTemplateStep \/ ManagedPrefixListStep \/ CapacityReservationStep
  PROVE  TieSafe
<1>0. ~At("idle") => w.spec.kind \in TieKinds
  BY TieInvIs
<1>1. \/ modifyInstanceAttributes
      \/ setLatestLaunchTemplateAttributes \/ CreateLaunchTemplateVersion
      \/ updateDefaultVersion \/ returnNothing
      \/ getManagedPrefixListEntries
      \/ modifyCapacityReservation \/ findReservationAfterUpdate
  <2>1. ~InstanceStep \/ modifyInstanceAttributes
    BY <1>0 DEF InstanceStep, sdkFindInstance, sdkCreateInstance, customUpdateInstance,
                sdkDeleteInstance, Describe, Updating, Deleting, Kind, At, TieKinds
  <2>2. \/ ~LaunchTemplateStep
        \/ setLatestLaunchTemplateAttributes \/ CreateLaunchTemplateVersion
        \/ updateDefaultVersion \/ returnNothing
    BY <1>0 DEF LaunchTemplateStep, sdkFindLaunchTemplate, sdkCreateLaunchTemplate, patchSpec,
                sdkUpdateLaunchTemplate, sdkDeleteLaunchTemplate, Describe, Updating, Deleting,
                Kind, At, TieKinds
  <2>3. ~ManagedPrefixListStep \/ getManagedPrefixListEntries
    BY <1>0 DEF ManagedPrefixListStep, sdkFindManagedPrefixList, sdkCreateManagedPrefixList,
                customUpdateManagedPrefixList, ModifyManagedPrefixList,
                sdkDeleteManagedPrefixList, Describe, Updating, Deleting, Doing, Kind, At,
                TieKinds
  <2>4. ~CapacityReservationStep \/ modifyCapacityReservation \/ findReservationAfterUpdate
    BY <1>0 DEF CapacityReservationStep, sdkFindCapacityReservation,
                sdkCreateCapacityReservation, sdkUpdateCapacityReservation,
                sdkDeleteCapacityReservation, Describe, Updating, Deleting, Kind, At, TieKinds
  <2> QED BY <2>1, <2>2, <2>3, <2>4
<1>2. CASE setLatestLaunchTemplateAttributes \/ getManagedPrefixListEntries
  <2>1. /\ w.pc \in {"version", "entries"} /\ ec2' = ec2 /\ UNCHANGED cr /\ ~At("idle")
    BY <1>2 DEF setLatestLaunchTemplateAttributes, getManagedPrefixListEntries, Go, Unread, At
  <2>2. w.mode # "update"
    BY <1>0, <2>1 DEF TieInv, PassSpares
  <2>3. DOMAIN w = WorkerFields /\ Frame /\ onError.mode = w.mode
    BY <2>1, TieInvIs, InHand DEF Working, Kept
  <2>4. w'.mode = w.mode
    <3>1. CASE setLatestLaunchTemplateAttributes
      <4> DEFINE read(data) == [w EXCEPT !.pc = "found", !.version = Len(w.seen.data),
                                  !.seen.data = data]
      <4>1. \/ w' = [read(Obj.data[w.version]) EXCEPT !.blind = w.version # Len(w.seen.data)]
            \/ w' = [read(w.spec.data) EXCEPT !.blind = TRUE]
        BY <3>1 DEF setLatestLaunchTemplateAttributes, Go, Unread
      <4>2. \A data : DOMAIN read(data) = WorkerFields /\ read(data).mode = w.mode
        BY <2>3 DEF WorkerFields
      <4> HIDE DEF read
      <4>3. ASSUME NEW data, NEW b, w' = [read(data) EXCEPT !.blind = b]
            PROVE  w'.mode = w.mode
        BY <4>2, <4>3 DEF WorkerFields
      <4> QED BY <4>1, <4>3
    <3>2. CASE getManagedPrefixListEntries
      <4>1. CASE w' = onError
        BY <2>3, <4>1
      <4>2. CASE w' = [Reported(Final(w.seen)) EXCEPT !.pc = "found", !.seen.entries = Obj.entries]
        BY <2>3, <4>2 DEF Reported, WorkerFields
      <4> QED BY <3>2, <4>1, <4>2 DEF getManagedPrefixListEntries, Go, Unread
    <3> QED BY <1>2, <3>1, <3>2
  <2> QED BY <2>1, <2>2, <2>4, ReadingIsSafe
<1>3. CASE modifyInstanceAttributes
  <2> DEFINE x == [Obj.attrs EXCEPT ![Arg] = w.spec.attrs[Arg]]
             obj == [Obj EXCEPT !.attrs = x]
  <2>1. /\ Doing("modifyInstance") /\ At("plan") /\ UNCHANGED cr /\ w' \in {Done, onError}
        /\ ec2' \in {ec2, [ec2 EXCEPT ![w.id] = obj]}
    BY <1>3 DEF modifyInstanceAttributes, Doing, Call, Go
  <2>2. Healthy(Obj, cr.spec.kind) => Healthy(obj, cr.spec.kind)
    BY ChangesAreHealthy
  <2> HIDE DEF obj, x
  <2> QED BY <2>1, <2>2, FollowersKeepMode, OutsideUpdatesIsSafe DEF UpdateOps
<1>4. CASE CreateLaunchTemplateVersion
  <2> DEFINE x == newLaunchTemplateVersion(Arg)
             obj == [Obj EXCEPT !.data = x]
             next == [Done EXCEPT !.version = Len(Obj.data) + 1]
  <2>1. /\ Doing("newVersion") /\ At("plan") /\ UNCHANGED cr
        /\ w' \in {next, orDeferred}
        /\ ec2' \in {ec2, [ec2 EXCEPT ![w.id] = obj]}
    BY <1>4 DEF CreateLaunchTemplateVersion, Doing, Call
  <2>2. Healthy(Obj, cr.spec.kind) => Healthy(obj, cr.spec.kind)
    BY ChangesAreHealthy
  <2>3. w'.mode = w.mode
    BY <2>1, FollowersKeepMode
  <2> HIDE DEF obj, x, next
  <2> QED BY <2>1, <2>2, <2>3, OutsideUpdatesIsSafe DEF UpdateOps
<1>5. CASE updateDefaultVersion
  <2> DEFINE obj == [Obj EXCEPT !.default = Arg]
  <2>1. /\ Doing("defaultVersion") /\ At("plan") /\ UNCHANGED cr /\ w' \in {Done, onError}
        /\ ec2' \in {ec2, [ec2 EXCEPT ![w.id] = obj]}
    BY <1>5 DEF updateDefaultVersion, Doing, Call, Go
  <2>2. Healthy(Obj, cr.spec.kind) => Healthy(obj, cr.spec.kind)
    BY ChangesAreHealthy
  <2> HIDE DEF obj
  <2> QED BY <2>1, <2>2, FollowersKeepMode, OutsideUpdatesIsSafe DEF UpdateOps
<1>6. CASE returnNothing \/ findReservationAfterUpdate
  <2>1. PICK op : /\ Doing(op) /\ op \notin UpdateOps /\ At("plan") /\ UNCHANGED cr /\ ec2' = ec2
                  /\ w' \in {Done, onError, IdleWorker}
    BY <1>6 DEF returnNothing, findReservationAfterUpdate, Doing, Go, Unread, UpdateOps
  <2>2. w'.mode = w.mode \/ w'.pc = "idle"
    BY <2>1, FollowersKeepMode
  <2>3. ec2' \in {ec2, [ec2 EXCEPT ![w.id] = Obj]}
    BY <2>1
  <2>4. Healthy(Obj, cr.spec.kind) => Healthy(Obj, cr.spec.kind)
    OBVIOUS
  <2> QED BY <2>1, <2>2, <2>3, <2>4, OutsideUpdatesIsSafe
<1>7. CASE modifyCapacityReservation
  <2> DEFINE o1 == [Obj EXCEPT !.info = Arg]
             o2 == [Obj EXCEPT !.count = Arg]
  <2>1. PICK op \in {"modifyInfo", "modifyCount"}, obj \in {o1, o2} :
          /\ Doing(op) /\ At("plan") /\ UNCHANGED cr /\ w' \in {Done, onError}
          /\ ec2' \in {ec2, [ec2 EXCEPT ![w.id] = obj]}
    BY <1>7 DEF modifyCapacityReservation, Doing, Call, Go
  <2>2. Healthy(Obj, cr.spec.kind)
          => Healthy(o1, cr.spec.kind) /\ Healthy(o2, cr.spec.kind)
    BY ChangesAreHealthy
  <2> HIDE DEF o1, o2
  <2>3. op \notin UpdateOps /\ (Healthy(Obj, cr.spec.kind) => Healthy(obj, cr.spec.kind))
    BY <2>2 DEF UpdateOps
  <2> QED BY <2>1, <2>3, FollowersKeepMode, OutsideUpdatesIsSafe
<1> QED BY <1>1, <1>2, <1>3, <1>4, <1>5, <1>6, <1>7

LEMMA RuntimeIsSafe ==
  ASSUME TieInv, cr.spec.kind \in TieKinds, RuntimeStep, cr'.spec.kind = cr.spec.kind
  PROVE  TieSafe
<1>0. Frame /\ DOMAIN w = WorkerFields
  BY TieInvIs
<1>1. CASE Begin
  <2>1. w'.pc = "describe" /\ ec2' = ec2
    BY <1>1 DEF Begin, Go, IdleWorker
  <2> QED BY <2>1, Elsewise, UntouchedIsSafe
<1>2. CASE setResourceManaged
  <2>1. w'.pc \in {"idle", "create"} /\ ec2' = ec2
    BY <1>0, <1>2, IdleIs DEF setResourceManaged, WorkerFields
  <2> QED BY <2>1, Elsewise, UntouchedIsSafe
<1>3. CASE returnDesired
  <2>1. /\ Doing("desired") /\ At("plan") /\ ec2' = ec2 /\ UNCHANGED cr
        /\ w' = [Done EXCEPT !.version = cr.version]
    BY <1>3 DEF returnDesired, Doing, Go
  <2>2. w.mode # "update"
    BY <2>1, NotOfAnUpdate DEF UpdateOps
  <2> QED BY <2>1, <2>2, FollowersKeepMode, ReadingIsSafe
<1>4. CASE finish
  <2>1. w'.pc = w.end /\ ec2' = ec2 /\ w.end \in Ends
    BY <1>0, <1>4, DoingIs DEF finish, Go, Over, WorkerFields
  <2> QED BY <2>1, Elsewise, UntouchedIsSafe DEF Ends
<1>5. CASE setResourceUnmanaged \/ PatchStatus
  <2>1. w'.pc = "idle" /\ ec2' = ec2
    BY <1>5, IdleIs DEF setResourceUnmanaged, PatchStatus
  <2> QED BY <2>1, Elsewise, UntouchedIsSafe
<1> QED BY <1>1, <1>2, <1>3, <1>4, <1>5, syncTagsIsSafe DEF RuntimeStep

LEMMA WorldIsSafe ==
  ASSUME TieInv, WorldStep \/ UNCHANGED vars, cr'.spec.kind = cr.spec.kind
  PROVE  TieSafe
<1>1. CASE Crash
  <2>1. w'.pc = "idle" /\ ec2' = ec2
    BY <1>1, IdleIs DEF Crash, Unread
  <2> QED BY <2>1, Elsewise, UntouchedIsSafe
<1>2. CASE EditSpec \/ DeleteCR \/ RecreateCR \/ UNCHANGED vars
  <2>1. w' = w /\ ec2' = ec2
    BY <1>2 DEF EditSpec, DeleteCR, RecreateCR, vars
  <2>2. PassSpares'
    BY <2>1 DEF TieInv, PassSpares, SeenWhole, PlanSpares, At, Kind, Obj
  <2> QED BY <2>1, <2>2, UntouchedIsSafe
<1> QED BY <1>1, <1>2 DEF WorldStep

\* Other clients take away, but put nothing in a controller's way.
LEMMA InterferenceIsHealthy ==
  ASSUME TieInv, NEW i \in Live, NEW obj, OtherClient(i, obj), Healthy(obj, cr.spec.kind),
         cr.spec.kind = "network_acl" /\ obj.live => obj.entries \subseteq ec2[i].entries
  PROVE  ObjectsHealthy' /\ PassSpares'
<1>1. /\ DOMAIN w = WorkerFields /\ DOMAIN ec2 = Ids /\ i \in Ids /\ ec2[i].live
      /\ ~At("idle") => w.spec.kind = cr.spec.kind
      /\ ec2' = [ec2 EXCEPT ![i] = obj] /\ UNCHANGED cr
  BY TieInvIs DEF Live, OtherClient
<1>2. ObjectsHealthy'
  BY <1>1, ObjectIsHealthy
<1>3. /\ w'.pc = w.pc /\ w'.mode = w.mode /\ w'.id = w.id /\ w'.spec = w.spec
      /\ w'.plan = w.plan /\ w'.seen = w.seen
  BY <1>1 DEF OtherClient, WorkerFields
<1>4. ASSUME Kind("network_acl"), ~At("idle"), ec2'[w.id].live
      PROVE  Obj.live /\ ec2'[w.id].entries \subseteq Obj.entries
  BY <1>1, <1>4 DEF Obj, Kind
<1>5. SeenWhole => SeenWhole'
  BY <1>3, <1>4 DEF SeenWhole, At, Kind, Obj
<1>6. PlanSpares => PlanSpares'
  <2> SUFFICES ASSUME PlanSpares, At("plan")
               PROVE  /\ Sparing(w.plan, w.spec)
                      /\ Kind("network_acl") /\ ec2'[w.id].live
                           => Orderly(w.plan, ec2'[w.id].entries, w.spec)
    BY <1>3 DEF PlanSpares, At, Kind, Obj
  <2>1. ASSUME Kind("network_acl"), ec2'[w.id].live
        PROVE  Orderly(w.plan, ec2'[w.id].entries, w.spec)
    <3>1. Obj.live /\ ec2'[w.id].entries \subseteq Obj.entries
      BY <1>4, <2>1 DEF At
    <3>2. Orderly(w.plan, Obj.entries, w.spec)
      BY <2>1, <3>1 DEF PlanSpares
    <3> DEFINE less == ec2'[w.id].entries
    <3> HIDE DEF less
    <3>3. less \subseteq Obj.entries
      BY <3>1 DEF less
    <3>4. Orderly(w.plan, less, w.spec)
      BY <3>2, <3>3 DEF Orderly
    <3> QED BY <3>4 DEF less
  <2> QED BY <2>1 DEF PlanSpares
<1>7. PassSpares'
  BY <1>3, <1>5, <1>6 DEF TieInv, PassSpares, At
<1> QED BY <1>2, <1>7

LEMMA DriftIsHealthy ==
  ASSUME TieInv, cr.spec.kind \in TieKinds, Drift
  PROVE  ObjectsHealthy' /\ PassSpares'
<1>1. PICK i \in Live :
        \/ cr.spec.kind = "subnet" /\ SubnetDrift(i)
        \/ cr.spec.kind = "internet_gateway" /\ InternetGatewayDrift(i)
        \/ cr.spec.kind = "dhcp_options" /\ DHCPOptionsDrift(i)
        \/ cr.spec.kind = "network_acl" /\ NetworkACLDrift(i)
  BY DEF Drift, TieKinds
<1>2. /\ i \in Ids /\ ec2[i].live /\ ec2[i] # Gone /\ Healthy(ec2[i], cr.spec.kind)
  BY TieInvIs DEF Live, Gone
<1>3. IsFiniteSet({})
  BY FS_EmptySet
<1>4. CASE cr.spec.kind \in {"subnet", "internet_gateway"}
  <2> DEFINE o1 == [ec2[i] EXCEPT !.tables = {}]
             o2 == [ec2[i] EXCEPT !.vpc = NoVPC]
  <2>1. Healthy(o1, cr.spec.kind) /\ Healthy(o2, cr.spec.kind)
    BY <1>2, <1>3, <1>4 DEF Healthy, TieKinds
  <2>2. \A x : Healthy([ec2[i] EXCEPT !.attrs = x], cr.spec.kind)
    BY <1>2, ChangesAreHealthy
  <2>3. \E obj : OtherClient(i, obj) /\ Healthy(obj, cr.spec.kind)
    BY <1>1, <1>4, <2>1, <2>2 DEF SubnetDrift, InternetGatewayDrift, DisassociatedByOthers
  <2> QED BY <1>4, <2>3, InterferenceIsHealthy
<1>5. CASE cr.spec.kind = "dhcp_options"
  <2>1. PICK v : OtherClient(i, [ec2[i] EXCEPT !.vpcs = ec2[i].vpcs \ {v}])
    BY <1>1, <1>5 DEF DHCPOptionsDrift
  <2> DEFINE vpcs == ec2[i].vpcs \ {v}
  <2>2. IsFiniteSet(vpcs)
    BY <1>2, <1>5, FS_Subset DEF Healthy, TieKinds
  <2> HIDE DEF vpcs
  <2>3. Healthy([ec2[i] EXCEPT !.vpcs = vpcs], cr.spec.kind)
    BY <1>2, <1>5, <2>2 DEF Healthy, TieKinds
  <2>4. OtherClient(i, [ec2[i] EXCEPT !.vpcs = vpcs])
    BY <2>1 DEF vpcs
  <2> QED BY <1>5, <2>3, <2>4, InterferenceIsHealthy
<1>6. CASE cr.spec.kind = "network_acl"
  <2>1. /\ "entries" \in DOMAIN ec2[i] /\ IsFiniteSet(ec2[i].entries) /\ Numbered(ec2[i].entries)
        /\ "subnets" \in DOMAIN ec2[i] /\ IsFiniteSet(ec2[i].subnets)
    BY <1>2, <1>6 DEF Healthy, TieKinds
  <2>2. CASE \E s : OtherClient(i, [ec2[i] EXCEPT !.subnets = ec2[i].subnets \ {s}])
    <3>1. PICK s : OtherClient(i, [ec2[i] EXCEPT !.subnets = ec2[i].subnets \ {s}])
      BY <2>2
    <3> DEFINE subnets == ec2[i].subnets \ {s}
               obj == [ec2[i] EXCEPT !.subnets = subnets]
    <3>2. IsFiniteSet(subnets)
      BY <2>1, FS_Subset
    <3>3. OtherClient(i, obj)
      BY <3>1
    <3> HIDE DEF subnets
    <3>4. obj.entries = ec2[i].entries /\ obj.live /\ DOMAIN obj = DOMAIN ec2[i]
          /\ obj.subnets = subnets
      BY <1>2, <2>1, TieInvIs DEF Frame, WellFormedAll, EC2WellFormed, WellFormed
    <3> HIDE DEF obj
    <3>5. Healthy(obj, cr.spec.kind)
      BY <1>6, <2>1, <3>2, <3>4 DEF Healthy
    <3> QED BY <3>3, <3>4, <3>5, InterferenceIsHealthy
  <2>3. CASE \E e : OtherClient(i, [ec2[i] EXCEPT !.entries = ec2[i].entries \ {e}])
    <3>1. PICK e : OtherClient(i, [ec2[i] EXCEPT !.entries = ec2[i].entries \ {e}])
      BY <2>3
    <3> DEFINE entries == ec2[i].entries \ {e}
               obj == [ec2[i] EXCEPT !.entries = entries]
    <3>2. IsFiniteSet(entries) /\ Numbered(entries) /\ entries \subseteq ec2[i].entries
      BY <2>1, FS_Subset DEF Numbered
    <3>3. OtherClient(i, obj)
      BY <3>1
    <3> HIDE DEF entries
    <3>4. obj.entries = entries /\ obj.live /\ DOMAIN obj = DOMAIN ec2[i]
          /\ obj.subnets = ec2[i].subnets
      BY <1>2, <2>1, TieInvIs DEF Frame, WellFormedAll, EC2WellFormed, WellFormed
    <3> HIDE DEF obj
    <3>5. Healthy(obj, cr.spec.kind)
      BY <1>6, <2>1, <3>2, <3>4 DEF Healthy
    <3> QED BY <3>2, <3>3, <3>4, <3>5, InterferenceIsHealthy
  <2> QED BY <1>1, <1>6, <2>2, <2>3 DEF NetworkACLDrift
<1> QED BY <1>4, <1>5, <1>6 DEF TieKinds

LEMMA TiesInit == Init => ObjectsHealthy /\ PassSpares /\ SpecsOK
<1> SUFFICES ASSUME Init PROVE ObjectsHealthy /\ PassSpares /\ SpecsOK
  OBVIOUS
<1>1. At("idle") /\ cr.spec \in Specs
  BY IdleIs DEF Init, At, NewCR
<1> QED BY <1>1 DEF Init, ObjectsHealthy, Healthy, PassSpares, SeenWhole, PlanSpares, At, SpecsOK

LEMMA TieStep ==
  ASSUME TieInv, [Next]_vars
  PROVE  /\ ObjectsHealthy' /\ PassSpares'
         /\ ~Drift => TiesStay
<1>1. Frame /\ Frame' /\ cr'.spec.kind = cr.spec.kind
  BY TieInvIs, FrameStep, KindStays
<1>2. CASE cr.spec.kind \notin TieKinds
  <2>1. ObjectsHealthy'
    BY <1>1, <1>2 DEF ObjectsHealthy, Healthy
  <2>2. PassSpares'
    <3>1. w'.pc # "idle" => w'.spec.kind \notin TieKinds
      BY <1>1, <1>2 DEF Frame, WellFormedAll, WorkerWellFormed, At
    <3> QED BY <3>1, Elsewise DEF PassSpares
  <2>3. w.id # 0 => w.spec.kind \notin TieKinds
    BY <1>1, <1>2 DEF Frame, WellFormedAll, WorkerWellFormed, At
  <2>4. TiesStay
    BY <2>3 DEF TiesStay, Ties, TieKinds
  <2> QED BY <2>1, <2>2, <2>4
<1>3. CASE cr.spec.kind \in TieKinds
  <2>1. CASE Reconcile
    <3>1. TieSafe
      BY <1>1, <1>3, <2>1, RuntimeIsSafe, RouteTablesAreSafe, SubnetIsSafe, InternetGatewayIsSafe,
         DHCPOptionsAreSafe, NetworkACLIsSafe, OtherKindsAreSafe
         DEF Reconcile
    <3> QED BY <3>1 DEF TieSafe
  <2>2. CASE WorldStep \/ UNCHANGED vars
    BY <1>1, <2>2, WorldIsSafe DEF TieSafe
  <2>3. CASE Drift
    BY <1>3, <2>3, DriftIsHealthy
  <2>4. ~((\E i \in Ids : Settle(i)) \/ Fails)
    BY <1>3 DEF Settle, Fails, TieKinds
  <2> QED BY <2>1, <2>2, <2>3, <2>4 DEF Next
<1> QED BY <1>2, <1>3

LEMMA SpecsStep ==
  ASSUME Frame, SpecsOK, [Next]_vars
  PROVE  SpecsOK'
<1>0. DOMAIN cr = CRFields
  BY DEF Frame, WellFormedAll, CRWellFormed
<1>1. CASE Keeping \/ Stopping \/ Elsewhere \/ Creating
  BY <1>1, ClassesKeepSpecs
<1>2. CASE RuntimeStep
  <2>1. CASE Begin
    <3>1. UNCHANGED cr /\ w'.spec = cr.spec
      BY <2>1 DEF Begin, Go, IdleWorker
    <3> QED BY <3>1 DEF SpecsOK
  <2>2. CASE setResourceManaged
    <3>1. DOMAIN w = WorkerFields /\ ~At("idle")
      BY <2>2, WorkerIs DEF setResourceManaged, At
    <3>2. (w'.pc = "idle" \/ w'.spec = w.spec) /\ cr'.spec = cr.spec
      BY <1>0, <2>2, <3>1, IdleIs DEF setResourceManaged, WorkerFields, CRFields
    <3> QED BY <3>1, <3>2 DEF SpecsOK, At
  <2>3. CASE syncTags \/ returnDesired \/ finish
    BY <1>1, <2>3, syncTagsKeeps, PlanStepsKeep
  <2>4. CASE setResourceUnmanaged \/ PatchStatus
    <3>1. cr'.spec = cr.spec /\ w'.pc = "idle"
      BY <1>0, <2>4, IdleIs DEF setResourceUnmanaged, PatchStatus, CRFields
    <3> QED BY <3>1 DEF SpecsOK, At
  <2> QED BY <1>2, <2>1, <2>2, <2>3, <2>4 DEF RuntimeStep
<1>3. CASE WorldStep
  <2>1. CASE Crash
    <3>1. w'.pc = "idle" /\ UNCHANGED cr
      BY <2>1, IdleIs DEF Crash, Unread
    <3> QED BY <3>1 DEF SpecsOK, At
  <2>2. CASE EditSpec \/ DeleteCR \/ RecreateCR
    <3>1. UNCHANGED w /\ (cr'.spec = cr.spec \/ cr'.spec \in Specs)
      BY <1>0, <2>2 DEF EditSpec, DeleteCR, RecreateCR, NewCR, CRFields
    <3> QED BY <3>1 DEF SpecsOK, At
  <2> QED BY <1>3, <2>1, <2>2 DEF WorldStep
<1>4. CASE UNCHANGED vars
  BY <1>4 DEF vars, SpecsOK, At
<1>5. CASE Reconcile
  <2>1. RuntimeStep \/ Keeping \/ Creating \/ Stopping
    BY <1>5, AssociationsKeep, SubnetKeeps, InternetGatewayKeeps, DHCPOptionsKeep,
       NetworkACLKeeps, InstanceKeeps, LaunchTemplateKeeps, ManagedPrefixListKeeps,
       CapacityReservationKeeps
       DEF Reconcile
  <2> QED BY <1>1, <1>2, <2>1
<1>6. CASE Drift \/ (\E i \in Ids : Settle(i)) \/ Fails
  BY <1>1, <1>6, DriftIs, SettleIs, FailsIs
<1> QED BY <1>3, <1>4, <1>5, <1>6 DEF Next

LEMMA DeclaredTieStep ==
  ASSUME TieInv, Counted, [Next]_vars, UNCHANGED drifts
  PROVE  TiesStay
<1>1. ~Drift
  BY DriftCounts DEF Counted
<1> QED BY <1>1, TieStep

\* An update takes away nothing that the spec declares and EC2 has: whatever calls
\* fail and whatever other clients remove meanwhile, each call of its plan leaves a
\* declared association, attachment or ACL entry in place or puts it back
\* (updateRouteTableAssociations, customUpdateInternetGateway, syncVPCs, syncEntries
\* and syncAssociation, and the find each of them plans from).
THEOREM DeclaredTieStaysCorrect == Spec => DeclaredTieStays
<1>1. Init => TieInv /\ Counted
  BY FrameInit, TiesInit DEF TieInv, Init, Counted
<1>2. TieInv /\ Counted /\ [Next]_vars => TieInv' /\ Counted'
  <2> SUFFICES ASSUME TieInv, Counted, [Next]_vars
               PROVE  TieInv' /\ Counted'
    OBVIOUS
  <2>1. Frame /\ SpecsOK
    BY DEF TieInv
  <2> QED BY <2>1, FrameStep, SpecsStep, TieStep, CountedStep DEF TieInv
<1>3. TieInv /\ Counted /\ [Next]_vars
        => (drifts' = drifts /\ w.mode = "update" /\ w.id # 0
            => Ties(Obj) \cap Declared \subseteq Ties(ec2'[w.id]))
  BY DeclaredTieStep DEF TiesStay
<1> QED BY <1>1, <1>2, <1>3, PTL DEF Spec, DeclaredTieStays

==============================================================================
