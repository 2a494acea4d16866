------------------------ MODULE Provisioning_proofs ------------------------
(***************************************************************************)
(* Theorems about Provisioning: the kinds that EC2 provides in its own     *)
(* time implement Lifecycle, an orphan costs each of them a fault, and an  *)
(* update that reports success leaves the object as it was declared.       *)
(***************************************************************************)
EXTENDS Provisioning, Controller_proofs

----------------------------------------------------------------------------
(* The invariant: the frame, and that these kinds create in one call, so   *)
(* that no pass has an object in hand that it has yet to complete.         *)

Reported == {"synced", "requeue", "failed"}

CreatesAtOnce == w.mode = "create" => w.pc \in {"idle", "create"} \cup Reported

IInv == Frame /\ CreatesAtOnce

\* What the steps of a pass are: those that create, and those that do not.
Making ==
  \/ Keeping /\ w.mode # "create"
  \/ (Creating \/ (Keeping /\ FairDrop)) /\ w'.pc \in Reported

LEMMA MakingIsSound ==
  ASSUME IInv, Making
  PROVE  Sound /\ CreatesAtOnce'
<1>1. CASE Keeping /\ w.mode # "create"
  <2>1. FairDrop /\ w'.mode # "create"
    BY <1>1 DEF FairDrop, Keeping, Kept, Missed
  <2> QED BY <1>1, <2>1, ClassesAreSound DEF IInv, CreatesAtOnce
<1>2. CASE (Creating \/ (Keeping /\ FairDrop)) /\ w'.pc \in Reported
  BY <1>2, ClassesAreSound DEF IInv, CreatesAtOnce
<1> QED BY <1>1, <1>2 DEF Making

\* A pass that has an object in hand creates nothing.
LEMMA WorkingIs ==
  ASSUME IInv, w.pc \in Working
  PROVE  /\ ~At("idle") /\ w.mode # "create" /\ w.id \in Ids /\ w.id # 0
         /\ DOMAIN w = WorkerFields /\ w.end \in Ends /\ w.spec.kind = cr.spec.kind
         /\ WellFormed(Obj, cr.spec.kind) /\ Kept(onError) /\ Kept(RequeueLater)
         /\ \A calls : Kept(Plan(calls))
         /\ Missed([w EXCEPT !.pc = "release"])
BY WorkerIs, WorkersKept
   DEF IInv, CreatesAtOnce, Reported, Working, At, RequeueLater

LEMMA PlanningIs ==
  ASSUME IInv, At("plan")
  PROVE  w.pc \in Working /\ Kept(Done)
BY DoingIs DEF IInv

LEMMA GoIsMaking ==
  ASSUME IInv, w.pc \in Working, NEW next, Go(next), Kept(next)
  PROVE  Making
BY WorkingIs, GoKeeps DEF IInv, Making

LEMMA UnreadIsMaking ==
  ASSUME IInv, w.pc \in Working, NEW failed, Unread(failed), Kept(failed)
  PROVE  Making
BY WorkingIs, UnreadKeeps DEF IInv, Making

LEMMA CallIsMaking ==
  ASSUME IInv, w.pc \in Working, NEW obj, NEW next, Call(obj, next, onError), Tame(obj, Obj),
         Kept(next) \/ (Missed(next) /\ ~obj.live)
  PROVE  Making
BY WorkingIs, CallKeeps DEF IInv, Making

\* A call of a plan on the object in hand, or its refusal.
LEMMA PlanCallIsMaking ==
  ASSUME IInv, At("plan"), NEW obj, Call(obj, Done, onError) \/ Go(onError), Tame(obj, Obj)
  PROVE  Making
BY PlanningIs, WorkingIs, GoIsMaking, CallIsMaking

LEMMA RetireIsMaking ==
  ASSUME IInv, w.pc \in Working, Retire
  PROVE  Making
<1> DEFINE retired == [Obj EXCEPT !.live = FALSE, !.state = "deleting"]
<1>1. CASE Go(onError)
  BY <1>1, WorkingIs, GoIsMaking
<1>2. CASE Call(retired, [w EXCEPT !.pc = "release"], onError)
  <2>1. Tame(retired, Obj) /\ ~retired.live
    BY WorkingIs, ChangesAreTame DEF WellFormed
  <2> HIDE DEF retired
  <2> QED BY <1>2, <2>1, WorkingIs, CallIsMaking
<1> QED BY <1>1, <1>2 DEF Retire

LEMMA DescribeIsMaking ==
  ASSUME IInv, NEW found, NEW missing, Describe(found, missing),
         w.id # 0 => \/ Kept(found)
                     \/ found = NotFound /\ ~Obj.live,
         missing \in {onError, NotFound}
  PROVE  Making
<1>1. w.mode # "create"
  BY WorkerIs DEF IInv, Describe, At
<1>2. Frame
  BY DEF IInv
<1> QED BY <1>1, <1>2, DescribeKeeps DEF Making

\* CreateObject reports what came of it.
LEMMA CreateIsMaking ==
  ASSUME IInv, At("create"), NEW obj, NEW l \in {"synced", "requeue"},
         CreateObject(obj, [w EXCEPT !.pc = l]), WellFormed(obj, cr.spec.kind)
  PROVE  Making
<1> DEFINE next == [w EXCEPT !.pc = l]
<1>1. /\ DOMAIN w = WorkerFields /\ w.end \in Ends /\ w.mode = "create" /\ Frame
      /\ CreateFailed.pc = "failed"
  BY WorkerIs, WorkersKept DEF At, IInv
<1>2. /\ DOMAIN next = WorkerFields /\ next.mode = w.mode /\ next.spec = w.spec
      /\ next.end = w.end /\ next.pc = l /\ CreateObject(obj, next)
  BY <1>1 DEF WorkerFields
<1> HIDE DEF next
<1>3. Creating \/ (Keeping /\ FairDrop)
  BY <1>1, <1>2, CreateObjectCreates
<1>4. w' \in {CreateFailed, [next EXCEPT !.id = nextId]}
  BY DEF CreateObject, next
<1>5. w'.pc \in Reported
  BY <1>1, <1>2, <1>4 DEF Reported, WorkerFields
<1> QED BY <1>3, <1>5 DEF Making

----------------------------------------------------------------------------
(* The kinds, one by one.                                                  *)

\* What a kind adds to the object that sdkFind hands on.
LEMMA FoundIs ==
  ASSUME IInv, At("describe"), w.id # 0, NEW ready \in BOOLEAN, NEW e \in Ends
  PROVE  /\ Kept(Found) /\ Kept(RequeueLater) /\ Kept(ReportReady(Found, ready))
         /\ Kept([ReportReady(Found, ready) EXCEPT !.pc = "principals"])
         /\ Kept([Found EXCEPT !.end = e])
         /\ WellFormed(Obj, cr.spec.kind) /\ w.spec.kind = cr.spec.kind
<1>1. DOMAIN w = WorkerFields /\ w.id \in Ids /\ w.spec.kind = cr.spec.kind /\ ~At("idle")
  BY WorkerIs DEF IInv, At
<1>2. Kept(Found) /\ Kept(RequeueLater)
  BY <1>1, WorkersKept DEF IInv, RequeueLater
<1>3. WellFormed(Obj, cr.spec.kind)
  BY <1>1 DEF IInv, Frame, WellFormedAll, EC2WellFormed, Obj
<1> DEFINE f == Found
<1>4. DOMAIN f = WorkerFields /\ f.mode = w.mode /\ f.spec = w.spec /\ f.id = w.id
      /\ f.pc = "found"
  BY <1>1 DEF Found, WorkerFields
<1>5. Kept([f EXCEPT !.end = e])
  <2> HIDE DEF f
  <2> QED BY <1>4 DEF Kept, WorkerFields
<1> DEFINE g == ReportReady(f, ready)
<1>6. DOMAIN g = WorkerFields /\ g.mode = w.mode /\ g.spec = w.spec /\ g.id = w.id
      /\ g.pc = "found" /\ g.end \in Ends
  <2> HIDE DEF f
  <2> QED BY <1>4 DEF ReportReady, WorkerFields, Ends
<1>7. Kept(g) /\ Kept([g EXCEPT !.pc = "principals"])
  <2> HIDE DEF g
  <2> QED BY <1>6, w.id # 0 DEF Kept, WorkerFields
<1> QED BY <1>1, <1>2, <1>3, <1>5, <1>7

LEMMA NATGatewayIsMaking ==
  ASSUME IInv,
         \/ sdkFindNATGateway \/ sdkCreateNATGateway \/ customUpdateNATGateway
         \/ sdkDeleteNATGateway
  PROVE  Making
<1>1. CASE sdkFindNATGateway
  <2> DEFINE found == CASE Obj.state = "deleted" -> NotFound
                        [] Obj.state = "pending" -> RequeueLater
                        [] OTHER                 -> ReportReady(Found, Obj.state = "available")
  <2>1. At("describe") /\ Kind("nat_gateway") /\ Describe(found, onError)
    BY <1>1 DEF sdkFindNATGateway, Describe
  <2>2. ASSUME w.id # 0
        PROVE  Kept(found) \/ (found = NotFound /\ ~Obj.live)
    <3>1. /\ WellFormed(Obj, cr.spec.kind) /\ cr.spec.kind = "nat_gateway"
          /\ Kept(RequeueLater) /\ Kept(ReportReady(Found, Obj.state = "available"))
      BY <2>1, <2>2, FoundIs DEF Kind, Ends
    <3>2. Obj.state = "deleted" => ~Obj.live
      BY <3>1 DEF WellFormed, Ending, StateKinds
    <3>3. CASE Obj.state = "deleted"
      BY <3>2, <3>3
    <3>4. CASE Obj.state = "pending"
      BY <3>1, <3>4
    <3>5. CASE Obj.state \notin {"deleted", "pending"}
      BY <3>1, <3>5
    <3> QED BY <3>3, <3>4, <3>5
  <2> HIDE DEF found
  <2> QED BY <2>1, <2>2, DescribeIsMaking
<1>2. CASE sdkCreateNATGateway
  <2>1. At("create") /\ cr.spec.kind = "nat_gateway" /\ w.mode = "create" /\ w.id = cr.id
        /\ ~At("idle") /\ Frame
    BY <1>2, WorkerIs DEF IInv, sdkCreateNATGateway, Kind, At
  <2>2. CASE Go(CreateFailed)
    <3>1. w' = CreateFailed /\ w'.pc = "failed" /\ Keeping /\ FairDrop
      BY <2>1, <2>2, WorkersKept, GoKeeps DEF Go
    <3> QED BY <3>1 DEF Making, Reported
  <2>3. CASE CreateObject(newNATGateway, RequeueLater)
    <3>1. WellFormed(newNATGateway, cr.spec.kind)
      BY DEF WellFormed, newNATGateway, Ending
    <3> QED BY <2>1, <2>3, <3>1, CreateIsMaking DEF RequeueLater
  <2> QED BY <1>2, <2>2, <2>3 DEF sdkCreateNATGateway
<1>3. CASE customUpdateNATGateway
  BY <1>3, WorkingIs, GoIsMaking DEF customUpdateNATGateway, Updating, At, Working
<1>4. CASE sdkDeleteNATGateway
  BY <1>4, RetireIsMaking DEF sdkDeleteNATGateway, Deleting, At, Working
<1> QED BY <1>1, <1>2, <1>3, <1>4

LEMMA TransitGatewayIsMaking ==
  ASSUME IInv,
         \/ sdkFindTransitGateway \/ sdkCreateTransitGateway \/ customUpdateTransitGateway
         \/ sdkDeleteTransitGateway
  PROVE  Making
<1>1. CASE sdkFindTransitGateway
  <2> DEFINE found == CASE Obj.state = "deleted" -> NotFound
                        [] Obj.state = "pending" -> RequeueLater
                        [] OTHER                 -> Found
  <2>1. At("describe") /\ Kind("transit_gateway") /\ Describe(found, onError)
    BY <1>1 DEF sdkFindTransitGateway, Describe
  <2>2. ASSUME w.id # 0
        PROVE  Kept(found) \/ (found = NotFound /\ ~Obj.live)
    <3>1. /\ WellFormed(Obj, cr.spec.kind) /\ cr.spec.kind = "transit_gateway"
          /\ Kept(RequeueLater) /\ Kept(Found)
      BY <2>1, <2>2, FoundIs DEF Kind, Ends
    <3>2. Obj.state = "deleted" => ~Obj.live
      BY <3>1 DEF WellFormed, Ending, StateKinds
    <3>3. CASE Obj.state = "deleted"
      BY <3>2, <3>3
    <3>4. CASE Obj.state = "pending"
      BY <3>1, <3>4
    <3>5. CASE Obj.state \notin {"deleted", "pending"}
      BY <3>1, <3>5
    <3> QED BY <3>3, <3>4, <3>5
  <2> HIDE DEF found
  <2> QED BY <2>1, <2>2, DescribeIsMaking
<1>2. CASE sdkCreateTransitGateway
  <2>1. WellFormed(newTransitGateway, cr.spec.kind)
    BY DEF WellFormed, newTransitGateway, Ending
  <2> QED BY <1>2, <2>1, CreateIsMaking DEF sdkCreateTransitGateway
<1>3. CASE customUpdateTransitGateway
  BY <1>3, WorkingIs, GoIsMaking DEF customUpdateTransitGateway, Updating, At, Working
<1>4. CASE sdkDeleteTransitGateway
  BY <1>4, RetireIsMaking DEF sdkDeleteTransitGateway, Deleting, At, Working
<1> QED BY <1>1, <1>2, <1>3, <1>4

LEMMA AttachmentIsMaking ==
  ASSUME IInv, AttachmentStep
  PROVE  Making
<1>1. CASE sdkFindAttachment
  <2>1. Describe(Found, onError) /\ At("describe")
    BY <1>1 DEF sdkFindAttachment, Describe
  <2>2. w.id # 0 => Kept(Found)
    BY <2>1, FoundIs DEF Ends
  <2> QED BY <2>1, <2>2, DescribeIsMaking
<1>2. CASE sdkCreateAttachment
  <2>1. WellFormed(newAttachment, cr.spec.kind)
    BY DEF WellFormed, newAttachment, Ending
  <2> QED BY <1>2, <2>1, CreateIsMaking DEF sdkCreateAttachment
<1>3. CASE sdkUpdateAttachment
  <2> DEFINE later   == "subnets" \in newAttachmentDelta /\ w.seen.state # "available"
             planned == Plan(When("tags" \in newAttachmentDelta, "tags", {})
                               \o When("subnets" \in newAttachmentDelta
                                       /\ w.seen.state = "available", "modifyAttachment", {}))
  <2>1. Go([planned EXCEPT !.end = IF later THEN "requeue" ELSE @])
    BY <1>3 DEF sdkUpdateAttachment
  <2>2. w.pc \in Working /\ Kept(planned)
    BY <1>3, WorkingIs DEF sdkUpdateAttachment, Updating, At, Working
  <2> HIDE DEF planned, later
  <2>3. Kept([planned EXCEPT !.end = IF later THEN "requeue" ELSE @])
    BY <2>2 DEF Kept, WorkerFields, Ends
  <2> QED BY <2>1, <2>2, <2>3, GoIsMaking
<1>4. CASE ModifyTransitGatewayVpcAttachment
  <2>1. At("plan") /\ WellFormed(Obj, cr.spec.kind)
    BY <1>4, PlanningIs, WorkingIs DEF ModifyTransitGatewayVpcAttachment, Doing
  <2>2. CASE Go(onError)
    BY <2>1, <2>2, PlanningIs, WorkingIs, GoIsMaking
  <2>3. ASSUME NEW change,
               Call([Obj EXCEPT !.subnets = (@ \cup change.add) \ change.remove,
                       !.state = "modifying"], Done, onError)
        PROVE  Making
    <3> DEFINE obj == [Obj EXCEPT !.subnets = (@ \cup change.add) \ change.remove,
                         !.state = "modifying"]
    <3>1. Tame(obj, Obj)
      BY <2>1 DEF WellFormed, Tame, Ending
    <3> HIDE DEF obj
    <3> QED BY <2>1, <2>3, <3>1, PlanCallIsMaking DEF obj
  <2> QED BY <1>4, <2>2, <2>3 DEF ModifyTransitGatewayVpcAttachment
<1>5. CASE sdkDeleteAttachment
  BY <1>5, RetireIsMaking DEF sdkDeleteAttachment, Deleting, At, Working
<1> QED BY <1>1, <1>2, <1>3, <1>4, <1>5 DEF AttachmentStep

LEMMA PeeringIsMaking ==
  ASSUME IInv, PeeringStep
  PROVE  Making
<1>1. CASE sdkFindPeering
  <2> DEFINE found == IF Obj.state = "initiating-request" THEN RequeueLater ELSE Found
  <2>1. Describe(found, onError) /\ At("describe")
    BY <1>1 DEF sdkFindPeering, Describe
  <2>2. w.id # 0 => Kept(found)
    BY <2>1, FoundIs DEF Ends
  <2> HIDE DEF found
  <2> QED BY <2>1, <2>2, DescribeIsMaking
<1>2. CASE sdkCreatePeering
  <2> DEFINE obj == [live |-> TRUE, state |-> "initiating-request", options |-> {},
                     tags |-> w.spec.tags]
  <2>1. WellFormed(obj, cr.spec.kind)
    BY DEF WellFormed, Ending
  <2>2. At("create") /\ CreateObject(obj, RequeueLater)
    BY <1>2 DEF sdkCreatePeering
  <2> HIDE DEF obj
  <2> QED BY <2>1, <2>2, CreateIsMaking DEF RequeueLater
<1>3. CASE sdkUpdatePeering
  <2>0. w.pc \in Working /\ Kept(RequeueLater) /\ \A calls : Kept(Plan(calls))
    BY <1>3, WorkingIs DEF sdkUpdatePeering, Updating, At, Working
  <2>1. CASE Go(RequeueLater)
    BY <2>0, <2>1, GoIsMaking
  <2>2. ASSUME NEW calls, NEW e \in Ends \cup {"same"},
               Go([Plan(calls) EXCEPT !.end = IF e = "same" THEN @ ELSE e])
        PROVE  Making
    <3> DEFINE planned == Plan(calls)
    <3>1. Kept(planned)
      BY <2>0
    <3> HIDE DEF planned
    <3>2. Kept([planned EXCEPT !.end = IF e = "same" THEN @ ELSE e])
      BY <3>1 DEF Kept, WorkerFields, Ends
    <3> QED BY <2>0, <2>2, <3>2, GoIsMaking DEF planned
  <2> DEFINE delta == newPeeringDelta
             e == IF "accept" \notin delta THEN "same"
                  ELSE IF w.spec.accept THEN "requeue" ELSE "failed"
             calls == When("tags" \in delta, "tags", {})
                         \o When("accept" \in delta /\ w.spec.accept, "accept", {})
                         \o When("accept" \in delta /\ w.spec.accept, "findPeering", {})
                         \o When("accept" \notin delta /\ "options" \in delta,
                                 "modifyOptions", {})
  <2>3. \/ Go(RequeueLater)
        \/ Go([Plan(calls) EXCEPT !.end = IF e = "same" THEN @ ELSE e])
    <3> HIDE DEF delta
    <3> QED BY <1>3 DEF sdkUpdatePeering, delta
  <2>4. e \in Ends \cup {"same"}
    BY DEF Ends
  <2> HIDE DEF e, calls
  <2> QED BY <2>1, <2>2, <2>3, <2>4
<1>4. CASE AcceptVpcPeeringConnection
  <2>1. At("plan") /\ Tame([Obj EXCEPT !.state = "provisioning"], Obj)
    BY <1>4, PlanningIs, WorkingIs, ChangesAreTame
       DEF AcceptVpcPeeringConnection, Doing, Ending
  <2> QED BY <1>4, <2>1, PlanCallIsMaking DEF AcceptVpcPeeringConnection
<1>5. CASE findPeeringAfterAccept
  BY <1>5, PlanningIs, WorkingIs, GoIsMaking, UnreadIsMaking DEF findPeeringAfterAccept, Doing
<1>6. CASE ModifyVpcPeeringConnectionOptions
  <2> DEFINE obj == [Obj EXCEPT !.options = @ \cup w.spec.options]
  <2>1. At("plan") /\ Tame(obj, Obj)
    BY <1>6, PlanningIs, WorkingIs, ChangesAreTame
       DEF ModifyVpcPeeringConnectionOptions, Doing
  <2>2. Call(obj, Done, onError) \/ Go(onError)
    BY <1>6 DEF ModifyVpcPeeringConnectionOptions
  <2> HIDE DEF obj
  <2> QED BY <2>1, <2>2, PlanCallIsMaking
<1>7. CASE sdkDeletePeering
  BY <1>7, RetireIsMaking DEF sdkDeletePeering, Deleting, At, Working
<1> QED BY <1>1, <1>2, <1>3, <1>4, <1>5, <1>6, <1>7 DEF PeeringStep

LEMMA VPCEndpointIsMaking ==
  ASSUME IInv, VPCEndpointStep
  PROVE  Making
<1>1. CASE sdkFindVPCEndpoint
  <2> DEFINE e     == IF Obj.state = "pending" THEN "requeue" ELSE "synced"
             f     == Found
             found == [f EXCEPT !.seen.groups = w.spec.groups, !.end = e]
  <2>1. Describe(found, onError) /\ At("describe") /\ e \in Ends
    BY <1>1 DEF sdkFindVPCEndpoint, Describe, Ends
  <2> HIDE DEF e
  <2>2. w.id # 0 => Kept(f) /\ f.pc = "found" /\ w.id # 0
    BY <2>1, FoundIs, WorkerIs DEF Found, WorkerFields, IInv, At
  <2> HIDE DEF f
  <2>3. w.id # 0 => Kept(found)
    BY <2>1, <2>2 DEF Kept, WorkerFields
  <2> HIDE DEF found
  <2> QED BY <2>1, <2>3, DescribeIsMaking
<1>2. CASE sdkCreateVPCEndpoint
  <2>1. WellFormed(newVPCEndpoint, cr.spec.kind)
    BY DEF WellFormed, newVPCEndpoint, Ending
  <2> QED BY <1>2, <2>1, CreateIsMaking DEF sdkCreateVPCEndpoint, RequeueLater
<1>3. CASE customUpdateVPCEndpoint
  <2> DEFINE tags    == "tags" \in newVPCEndpointDelta
             others  == newVPCEndpointDelta \ {"tags"} # {}
             changed == tags \/ others
             planned == Plan(When(tags, "tags", {}) \o When(others, "modifyEndpoint", {}))
  <2>1. Go([planned EXCEPT !.end   = IF changed THEN "synced" ELSE @,
                           !.blind = @ \/ (changed /\ w.seen.state = "pending")])
    BY <1>3 DEF customUpdateVPCEndpoint
  <2>2. w.pc \in Working /\ Kept(planned)
    BY <1>3, WorkingIs DEF customUpdateVPCEndpoint, Updating, At, Working
  <2> HIDE DEF planned, tags, others, changed
  <2>3. Kept([planned EXCEPT !.end   = IF changed THEN "synced" ELSE @,
                             !.blind = @ \/ (changed /\ w.seen.state = "pending")])
    BY <2>2 DEF Kept, WorkerFields, Ends
  <2> QED BY <2>1, <2>2, <2>3, GoIsMaking
<1>4. CASE ModifyVpcEndpoint
  <2> DEFINE subnets == calculateSubnetDifferences(w.spec.subnets, w.seen.subnets)
             groups  == calculateSubnetDifferences(w.spec.groups, w.seen.groups)
             obj     == [Obj EXCEPT !.subnets = (@ \cup subnets.add) \ subnets.remove,
                                    !.groups = (@ \cup groups.add) \ groups.remove]
  <2>1. Call(obj, Done, onError) \/ Go(onError)
    BY <1>4 DEF ModifyVpcEndpoint
  <2> HIDE DEF subnets, groups
  <2>2. At("plan") /\ WellFormed(Obj, cr.spec.kind)
    BY <1>4, PlanningIs, WorkingIs DEF ModifyVpcEndpoint, Doing
  <2>3. Tame(obj, Obj)
    BY <2>2 DEF Tame, WellFormed
  <2> HIDE DEF obj
  <2> QED BY <2>1, <2>2, <2>3, PlanCallIsMaking
<1>5. CASE sdkDeleteVPCEndpoint
  BY <1>5, RetireIsMaking DEF sdkDeleteVPCEndpoint, Deleting, At, Working
<1> QED BY <1>1, <1>2, <1>3, <1>4, <1>5 DEF VPCEndpointStep

LEMMA ServiceIsMaking ==
  ASSUME IInv, ServiceStep
  PROVE  Making
<1>1. CASE sdkFindService
  <2> DEFINE ready == Obj.state = "available"
             found == [ReportReady(Found, ready) EXCEPT !.pc = "principals"]
  <2>1. Describe(found, onError) /\ At("describe") /\ ready \in BOOLEAN
    BY <1>1 DEF sdkFindService, Describe
  <2> HIDE DEF ready
  <2>2. w.id # 0 => Kept(found)
    BY <2>1, FoundIs DEF Ends
  <2> HIDE DEF found
  <2> QED BY <2>1, <2>2, DescribeIsMaking
<1>2. CASE setAdditionalFields
  <2>1. w.pc \in Working /\ DOMAIN w = WorkerFields /\ w.end \in Ends /\ w.id # 0
    BY <1>2, WorkingIs DEF setAdditionalFields, At, Working
  <2>2. ASSUME NEW x
        PROVE  /\ Kept([w EXCEPT !.pc = "found", !.seen.principals = x])
               /\ Kept([[w EXCEPT !.pc = "found", !.seen.principals = x] EXCEPT !.blind = TRUE])
    <3> DEFINE r == [w EXCEPT !.pc = "found", !.seen.principals = x]
    <3>1. DOMAIN r = WorkerFields /\ r.mode = w.mode /\ r.spec = w.spec /\ r.id = w.id
          /\ r.end = w.end /\ r.pc = "found"
      BY <2>1 DEF WorkerFields
    <3> HIDE DEF r
    <3>2. Kept(r) /\ Kept([r EXCEPT !.blind = TRUE])
      BY <2>1, <3>1 DEF Kept, WorkerFields
    <3> QED BY <3>2 DEF r
  <2> DEFINE read(x) == [w EXCEPT !.pc = "found", !.seen.principals = x]
  <2>3. \/ Go(read(Obj.principals))
        \/ Go([read(w.spec.principals) EXCEPT !.blind = TRUE])
        \/ Unread([read(w.spec.principals) EXCEPT !.blind = TRUE])
    BY <1>2 DEF setAdditionalFields
  <2>4. Kept(read(Obj.principals)) /\ Kept([read(w.spec.principals) EXCEPT !.blind = TRUE])
    BY <2>2
  <2> HIDE DEF read
  <2> QED BY <2>1, <2>3, <2>4, GoIsMaking, UnreadIsMaking
<1>3. CASE sdkCreateService
  <2>1. WellFormed(newService, cr.spec.kind)
    BY DEF WellFormed, newService, Ending
  <2> QED BY <1>3, <2>1, CreateIsMaking DEF sdkCreateService, RequeueLater
<1>4. CASE sdkUpdateService
  <2>1. w.pc \in Working /\ Kept(RequeueLater) /\ \A calls : Kept(Plan(calls))
    BY <1>4, WorkingIs DEF sdkUpdateService, Updating, At, Working
  <2> DEFINE delta == newServiceDelta
             calls == When("tags" \in delta, "tags", {})
                        \o When("principals" \in delta, "modifyPermissions", {})
                        \o When("acceptance" \in delta, "modifyService", {})
                        \o <<<<"desired", {}>>>>
             planned == Plan(calls)
  <2>2. \/ Go(RequeueLater) \/ Go(Plan(<<>>))
        \/ Go([planned EXCEPT !.end = IF cr.version = 1 THEN "synced" ELSE "requeue"])
    <3> HIDE DEF delta
    <3> QED BY <1>4 DEF sdkUpdateService, delta
  <2>3. Kept(planned)
    BY <2>1
  <2> HIDE DEF planned
  <2>4. Kept([planned EXCEPT !.end = IF cr.version = 1 THEN "synced" ELSE "requeue"])
    BY <2>3 DEF Kept, WorkerFields, Ends
  <2> QED BY <2>1, <2>2, <2>4, GoIsMaking
<1>5. CASE modifyAllowedPrincipals
  <2> DEFINE obj == [Obj EXCEPT !.principals = (@ \cup (w.spec.principals \ w.seen.principals))
                                                \ (w.seen.principals \ w.spec.principals)]
  <2>1. Call(obj, Done, onError) \/ Go(onError)
    BY <1>5 DEF modifyAllowedPrincipals
  <2>2. At("plan") /\ Tame(obj, Obj)
    BY <1>5, PlanningIs, WorkingIs, ChangesAreTame DEF modifyAllowedPrincipals, Doing
  <2> HIDE DEF obj
  <2> QED BY <2>1, <2>2, PlanCallIsMaking
<1>6. CASE ModifyVpcEndpointServiceConfiguration
  <2>1. At("plan") /\ Tame([Obj EXCEPT !.acceptance = w.spec.acceptance], Obj)
    BY <1>6, PlanningIs, WorkingIs, ChangesAreTame
       DEF ModifyVpcEndpointServiceConfiguration, Doing
  <2> QED BY <1>6, <2>1, PlanCallIsMaking DEF ModifyVpcEndpointServiceConfiguration
<1>7. CASE sdkDeleteService
  BY <1>7, RetireIsMaking DEF sdkDeleteService, Deleting, At, Working
<1> QED BY <1>1, <1>2, <1>3, <1>4, <1>5, <1>6, <1>7 DEF ServiceStep

LEMMA PlainObjectIsMaking ==
  ASSUME IInv, PlainObjectStep
  PROVE  Making
<1>1. CASE sdkFindPlain
  <2>1. Describe(Found, onError) /\ At("describe")
    BY <1>1 DEF sdkFindPlain, Describe
  <2>2. w.id # 0 => Kept(Found)
    BY <2>1, FoundIs DEF Ends
  <2> QED BY <2>1, <2>2, DescribeIsMaking
<1>2. CASE sdkCreatePlain
  <2> DEFINE obj == [live |-> TRUE, tags |-> w.spec.tags]
  <2>1. At("create") /\ Plain /\ CreateObject(obj, [w EXCEPT !.pc = "synced"])
    BY <1>2 DEF sdkCreatePlain
  <2>2. cr.spec.kind \in PlainKinds
    BY <2>1, WorkerIs DEF IInv, Plain, At
  <2>3. WellFormed(obj, cr.spec.kind)
    BY <2>2 DEF WellFormed, PlainKinds, StateKinds, Ending
  <2> HIDE DEF obj
  <2> QED BY <2>1, <2>3, CreateIsMaking
\* CreateFlowLogs without a flow log: a success that leaves the id out.
<1>3. CASE sdkCreateNoFlowLog
  <2>1. /\ w.mode = "create" /\ w.id = cr.id /\ ~At("idle") /\ Frame
        /\ Unread([CreateFailed EXCEPT !.pc = "synced"])
    BY <1>3, WorkerIs DEF IInv, sdkCreateNoFlowLog, At
  <2> DEFINE f == CreateFailed
  <2>2. Kept(f)
    BY <2>1, WorkersKept
  <2> HIDE DEF f
  <2>3. Kept([f EXCEPT !.pc = "synced"]) /\ [f EXCEPT !.pc = "synced"].pc = "synced"
    BY <2>2 DEF Kept, WorkerFields, Working
  <2>4. Keeping /\ FairDrop
    BY <2>1, <2>3, UnreadKeeps DEF f
  <2>5. w' = [f EXCEPT !.pc = "synced"]
    BY <2>1 DEF Unread, f
  <2> QED BY <2>3, <2>4, <2>5 DEF Making, Reported
<1>4. CASE customUpdatePlain
  BY <1>4, WorkingIs, GoIsMaking DEF customUpdatePlain, Updating, At, Working
<1>5. CASE sdkDeletePlain
  <2>1. w.pc \in Working /\ Delete(TRUE)
    BY <1>5 DEF sdkDeletePlain, Deleting, At, Working
  <2> QED BY <2>1, WorkingIs, DeleteKeeps DEF IInv, Making
<1> QED BY <1>1, <1>2, <1>3, <1>4, <1>5 DEF PlainObjectStep

----------------------------------------------------------------------------
(* The runtime, and the rest of the world.                                 *)

LEMMA RuntimeIsSound ==
  ASSUME IInv, RuntimeStep
  PROVE  Sound /\ CreatesAtOnce'
<1>0. Frame /\ DOMAIN w = WorkerFields
  BY DEF IInv, Frame, WellFormedAll, WorkerWellFormed
<1>1. CASE Begin
  <2>1. w'.mode # "create"
    BY <1>1, IdleIs DEF Begin, Go, WorkerFields
  <2> QED BY <1>0, <1>1, <2>1, BeginIsSound DEF CreatesAtOnce
<1>2. CASE setResourceManaged
  <2>1. w'.pc \in {"idle", "create"}
    BY <1>0, <1>2, IdleIs DEF setResourceManaged, WorkerFields
  <2> QED BY <1>0, <1>2, <2>1, setResourceManagedIsSound DEF CreatesAtOnce
<1>3. CASE syncTags \/ returnDesired \/ finish
  <2>1. At("plan")
    BY <1>3 DEF syncTags, returnDesired, finish, Doing
  <2>2. Keeping /\ w.mode # "create"
    BY <1>0, <1>3, <2>1, PlanningIs, WorkingIs, syncTagsKeeps, PlanStepsKeep
  <2> QED BY <2>2, MakingIsSound DEF Making
<1>4. CASE setResourceUnmanaged
  <2>1. w'.pc = "idle"
    BY <1>4, IdleIs DEF setResourceUnmanaged
  <2> QED BY <1>0, <1>4, <2>1, setResourceUnmanagedIsSound DEF CreatesAtOnce
<1>5. CASE PatchStatus
  <2>1. w'.pc = "idle"
    BY <1>5, IdleIs DEF PatchStatus
  <2> QED BY <1>0, <1>5, <2>1, PatchStatusIsSound DEF CreatesAtOnce
<1> QED BY <1>1, <1>2, <1>3, <1>4, <1>5 DEF RuntimeStep

LEMMA WorldIsSound ==
  ASSUME IInv, WorldStep
  PROVE  Sound /\ CreatesAtOnce'
<1>1. w' = w \/ w'.pc = "idle"
  BY IdleIs DEF WorldStep, Crash, Unread, EditSpec, DeleteCR, RecreateCR
<1> QED BY <1>1, WorldStepIsSound DEF IInv, CreatesAtOnce

\* What happens to the objects behind the worker's back.
LEMMA ElsewhereIsSound ==
  ASSUME IInv, Elsewhere
  PROVE  Sound /\ CreatesAtOnce'
BY ClassesAreSound DEF IInv, CreatesAtOnce, Elsewhere

LEMMA BecomesIsElsewhere ==
  ASSUME IInv, NEW i \in Ids, NEW from, NEW to, Becomes(i, from, to),
         to \notin Ending \/ from \in Ending
  PROVE  Elsewhere
<1>1. WellFormed(ec2[i], cr.spec.kind) /\ ec2[i].state = from /\ Frame
  BY DEF IInv, Frame, WellFormedAll, EC2WellFormed, Becomes
<1> DEFINE obj == [ec2[i] EXCEPT !.state = to]
<1>2. Tame(obj, ec2[i])
  <2>1. CASE to \notin Ending
    BY <1>1, <2>1, ChangesAreTame
  <2>2. CASE ~ec2[i].live
    BY <1>1, <2>2, ChangesAreTame
  <2>3. CASE ec2[i].live /\ "state" \in DOMAIN ec2[i] /\ from \in Ending
    BY <1>1, <2>3 DEF WellFormed
  <2>4. CASE "state" \notin DOMAIN ec2[i]
    BY <1>1, <2>4 DEF WellFormed, Tame
  <2> QED BY <2>1, <2>2, <2>3, <2>4
<1>3. Background(i, obj)
  BY DEF Becomes
<1> HIDE DEF obj
<1> QED BY <1>1, <1>2, <1>3, ElsewhereIs

LEMMA SettleIsSound ==
  ASSUME IInv, NEW i \in Ids, Settle(i)
  PROVE  Sound /\ CreatesAtOnce'
<1>1. CASE Background(i, Gone)
  <2>1. Tame(Gone, ec2[i]) /\ Frame
    BY ChangesAreTame DEF IInv, Frame, WellFormedAll, EC2WellFormed
  <2> QED BY <1>1, <2>1, ElsewhereIs, ElsewhereIsSound
<1>2. CASE AwaitedSettles(i) \/ PeeringSettles(i)
  BY <1>1, <1>2, BecomesIsElsewhere, ElsewhereIsSound
     DEF AwaitedSettles, PeeringSettles, Ending
<1> QED BY <1>2 DEF Settle

LEMMA FailsIsSound ==
  ASSUME IInv, Fails
  PROVE  Sound /\ CreatesAtOnce'
<1>1. PICK i \in Ids : AwaitedFails(i)
  BY DEF Fails, Live
<1>2. Frame /\ WellFormed(ec2[i], cr.spec.kind) /\ DOMAIN w = WorkerFields
  BY DEF IInv, Frame, WellFormedAll, EC2WellFormed, WorkerWellFormed
<1> DEFINE obj == [ec2[i] EXCEPT !.state = "failed"]
<1>3. Tame(obj, ec2[i])
  BY <1>2, ChangesAreTame DEF Ending
<1>4. ec2' = [ec2 EXCEPT ![i] = obj] /\ faults' = faults + 1 /\ UNCHANGED <<cr, w, env>>
  BY <1>1 DEF AwaitedFails
<1> HIDE DEF obj
<1>5. CRKeeps /\ EC2Keeps
  BY <1>2, <1>3, <1>4, ObjectKeeps, UnchangedKeeps
<1>6. Elsewhere
  BY <1>2, <1>4, <1>5 DEF Elsewhere
<1> QED BY <1>6, ElsewhereIsSound

LEMMA DriftIsSound ==
  ASSUME IInv, Drift
  PROVE  Sound /\ CreatesAtOnce'
<1>1. PICK i \in Ids : AwaitedDrift(i) \/ PlainObjectDrift(i) \/ PeeringDrift(i)
                         \/ ServiceDrift(i)
  BY DEF Drift, Live
<1>2. Frame /\ WellFormed(ec2[i], cr.spec.kind)
  BY DEF IInv, Frame, WellFormedAll, EC2WellFormed
<1>3. /\ Tame([ec2[i] EXCEPT !.live = FALSE, !.state = "deleting"], ec2[i])
      /\ Tame([ec2[i] EXCEPT !.tags = {}], ec2[i])
      /\ Tame([ec2[i] EXCEPT !.state = "provisioning"], ec2[i])
      /\ Tame([ec2[i] EXCEPT !.principals = {}], ec2[i])
  BY <1>2, ChangesAreTame DEF Ending
<1>4. Elsewhere
  BY <1>1, <1>2, <1>3, ElsewhereIs
     DEF AwaitedDrift, PlainObjectDrift, PeeringDrift, ServiceDrift
<1> QED BY <1>4, ElsewhereIsSound

LEMMA ReconcileIsSound ==
  ASSUME IInv, Reconcile
  PROVE  Sound /\ CreatesAtOnce'
<1>1. CASE PendingGatewayStep
  BY <1>1, NATGatewayIsMaking, TransitGatewayIsMaking, MakingIsSound DEF PendingGatewayStep
<1> QED BY <1>1, RuntimeIsSound, AttachmentIsMaking, PeeringIsMaking, VPCEndpointIsMaking,
           ServiceIsMaking, PlainObjectIsMaking, MakingIsSound
        DEF Reconcile

LEMMA NextIsSound ==
  ASSUME IInv, [Next]_vars
  PROVE  Sound /\ CreatesAtOnce'
<1>1. CASE UNCHANGED vars
  BY <1>1, StutterIsSound DEF IInv, CreatesAtOnce, vars
<1> QED BY <1>1, ReconcileIsSound, WorldIsSound, DriftIsSound, SettleIsSound, FailsIsSound
        DEF Next

----------------------------------------------------------------------------
(* The theorems.                                                           *)

LEMMA InvInit == Init => IInv
BY FrameInit, IdleIs DEF IInv, CreatesAtOnce, Init

LEMMA InvCorrect == Spec => []IInv
<1>1. IInv /\ [Next]_vars => IInv'
  BY NextIsSound DEF IInv, Sound
<1> QED BY <1>1, InvInit, PTL DEF Spec

\* Whatever calls fail, whatever EC2 does in its own time and other clients do to
\* an object, the recorded objects of a CR of these kinds come and go as Lifecycle
\* allows: one at a time, under the finalizer, which goes last (sdkFind, sdkCreate
\* and sdkDelete of the seven managers, with setResourceManaged and
\* setResourceUnmanaged of the runtime).
THEOREM LifecycleCorrect == Spec => ImplementsLifecycle
<1>1. IInv /\ [Next]_vars => [Abs!Next]_(Abs!vars)
  BY NextIsSound, LifecycleStep DEF IInv, Sound
<1> QED BY <1>1, InvCorrect, LifecycleInit, PTL DEF Spec, ImplementsLifecycle, Abs!Spec

\* An object that no CR has recorded and no pass has in hand has cost a fault, a
\* call that failed, a lost reply or a crash between the Create call of sdkCreate
\* and the status patch: there are never more of them than faults.
THEOREM OrphanCorrect == Spec => []OrphanNeedsFault
<1>1. IInv /\ OrphanNeedsFault /\ [Next]_vars => OrphanNeedsFault'
  BY NextIsSound, OrphanStep DEF IInv
<1> QED BY <1>1, InvCorrect, OrphanInit, PTL DEF Spec

----------------------------------------------------------------------------
(* Types.                                                                  *)

LEMMA RetireTyped == WellTyped /\ Retire => Types'
BY OutcomesTyped, GoTyped, CallTyped DEF Retire

LEMMA RequeueTyped ==
  WellTyped => Typed(RequeueLater) /\ DOMAIN RequeueLater = WorkerFields
BY OutcomesTyped, TypedIs DEF RequeueLater, WorkerFields

LEMMA ReadyTyped ==
  ASSUME WellTyped, NEW ready \in BOOLEAN
  PROVE  /\ Typed(ReportReady(Found, ready))
         /\ DOMAIN ReportReady(Found, ready) = WorkerFields
<1> DEFINE r == Found
<1>1. Typed(r) /\ DOMAIN r = WorkerFields
  BY OutcomesTyped
<1> HIDE DEF r
<1>2. Typed(ReportReady(r, ready)) /\ DOMAIN ReportReady(r, ready) = WorkerFields
  BY <1>1 DEF Typed, WorkerFields, ReportReady
<1> QED BY <1>2 DEF r

LEMMA PendingGatewayTyped == WellTyped /\ PendingGatewayStep => Types'
<1> SUFFICES ASSUME WellTyped, PendingGatewayStep PROVE Types'
  OBVIOUS
<1>1. CASE sdkFindNATGateway \/ sdkFindTransitGateway
  <2>1. PICK found :
          /\ found \in {NotFound, RequeueLater, Found, ReportReady(Found, Obj.state = "available")}
          /\ Describe(found, onError)
    <3>1. CASE sdkFindNATGateway
      BY <3>1, Zenon DEF sdkFindNATGateway
    <3>2. CASE sdkFindTransitGateway
      BY <3>2, Zenon DEF sdkFindTransitGateway
    <3> QED BY <1>1, <3>1, <3>2
  <2>2. Typed(ReportReady(Found, Obj.state = "available"))
    <3>1. (Obj.state = "available") \in BOOLEAN
      OBVIOUS
    <3> QED BY <3>1, ReadyTyped
  <2>3. Typed(found) /\ Typed(onError)
    BY <2>1, <2>2, OutcomesTyped, RequeueTyped
  <2> QED BY <2>1, <2>3, DescribeTyped
<1>2. CASE sdkCreateNATGateway
  BY <1>2, OutcomesTyped, RequeueTyped, GoTyped, CreateTyped DEF sdkCreateNATGateway
<1>3. CASE sdkCreateTransitGateway
  <2>1. Typed([w EXCEPT !.pc = "synced"]) /\ DOMAIN [w EXCEPT !.pc = "synced"] = WorkerFields
    BY OutcomesTyped, TypedIs
  <2> QED BY <1>3, <2>1, CreateTyped DEF sdkCreateTransitGateway
<1>4. CASE customUpdateNATGateway \/ customUpdateTransitGateway
  BY <1>4, OutcomesTyped, GoTyped DEF customUpdateNATGateway, customUpdateTransitGateway
<1>5. CASE sdkDeleteNATGateway \/ sdkDeleteTransitGateway
  BY <1>5, RetireTyped DEF sdkDeleteNATGateway, sdkDeleteTransitGateway
<1> QED BY <1>1, <1>2, <1>3, <1>4, <1>5 DEF PendingGatewayStep

LEMMA AttachmentTyped == WellTyped /\ AttachmentStep => Types'
<1> SUFFICES ASSUME WellTyped, AttachmentStep PROVE Types'
  OBVIOUS
<1>1. CASE sdkFindAttachment
  BY <1>1, OutcomesTyped, DescribeTyped DEF sdkFindAttachment
<1>2. CASE sdkCreateAttachment
  <2>1. Typed([w EXCEPT !.pc = "synced"]) /\ DOMAIN [w EXCEPT !.pc = "synced"] = WorkerFields
    BY OutcomesTyped, TypedIs
  <2> QED BY <1>2, <2>1, CreateTyped DEF sdkCreateAttachment
<1>3. CASE sdkUpdateAttachment
  <2>1. \E calls, e : Go([Plan(calls) EXCEPT !.end = e])
    BY <1>3, Zenon DEF sdkUpdateAttachment
  <2> QED BY <2>1, PlanTyped
<1>4. CASE ModifyTransitGatewayVpcAttachment
  <2>1. \E obj : Call(obj, Done, onError) \/ Go(onError)
    BY <1>4 DEF ModifyTransitGatewayVpcAttachment
  <2> QED BY <2>1, PlanCallTyped
<1>5. CASE sdkDeleteAttachment
  BY <1>5, RetireTyped DEF sdkDeleteAttachment
<1> QED BY <1>1, <1>2, <1>3, <1>4, <1>5 DEF AttachmentStep

LEMMA PeeringTyped == WellTyped /\ PeeringStep => Types'
<1> SUFFICES ASSUME WellTyped, PeeringStep PROVE Types'
  OBVIOUS
<1>1. CASE sdkFindPeering
  BY <1>1, OutcomesTyped, RequeueTyped, DescribeTyped DEF sdkFindPeering
<1>2. CASE sdkCreatePeering
  BY <1>2, RequeueTyped, CreateTyped DEF sdkCreatePeering
<1>3. CASE sdkUpdatePeering
  <2>1. Go(RequeueLater) \/ \E calls, e : Go([Plan(calls) EXCEPT !.end = e])
    BY <1>3, Zenon DEF sdkUpdatePeering
  <2> QED BY <2>1, PlanTyped, RequeueTyped, GoTyped
<1>4. CASE AcceptVpcPeeringConnection \/ ModifyVpcPeeringConnectionOptions
  <2>1. \E obj : Call(obj, Done, onError) \/ Go(onError)
    BY <1>4 DEF AcceptVpcPeeringConnection, ModifyVpcPeeringConnectionOptions
  <2> QED BY <2>1, PlanCallTyped
<1>5. CASE findPeeringAfterAccept
  BY <1>5, OutcomesTyped, GoTyped, UnreadTyped DEF findPeeringAfterAccept
<1>6. CASE sdkDeletePeering
  BY <1>6, RetireTyped DEF sdkDeletePeering
<1> QED BY <1>1, <1>2, <1>3, <1>4, <1>5, <1>6 DEF PeeringStep

LEMMA VPCEndpointTyped == WellTyped /\ VPCEndpointStep => Types'
<1> SUFFICES ASSUME WellTyped, VPCEndpointStep PROVE Types'
  OBVIOUS
<1>1. CASE sdkFindVPCEndpoint
  <2> DEFINE f == Found
  <2>1. Typed(f) /\ DOMAIN f = WorkerFields
    BY OutcomesTyped
  <2>2. PICK e : Describe([f EXCEPT !.seen.groups = w.spec.groups, !.end = e], onError)
    BY <1>1, Zenon DEF sdkFindVPCEndpoint
  <2> HIDE DEF f
  <2> DEFINE found == [f EXCEPT !.seen.groups = w.spec.groups, !.end = e]
  <2>3. Typed(found)
    BY <2>1 DEF Typed, WorkerFields
  <2> HIDE DEF found
  <2> QED BY <2>2, <2>3, OutcomesTyped, DescribeTyped DEF found
<1>2. CASE sdkCreateVPCEndpoint
  BY <1>2, RequeueTyped, CreateTyped DEF sdkCreateVPCEndpoint
<1>3. CASE customUpdateVPCEndpoint
  <2>1. PICK calls, e, c : Go([Plan(calls) EXCEPT !.end = e, !.blind = @ \/ c])
    BY <1>3, Zenon DEF customUpdateVPCEndpoint
  <2> DEFINE p == Plan(calls)
             r == [p EXCEPT !.end = e, !.blind = @ \/ c]
  <2>2. Typed(p) /\ DOMAIN p = WorkerFields
    BY OutcomesTyped
  <2>3. (p.blind \/ c) \in BOOLEAN
    OBVIOUS
  <2> DEFINE b == p.blind \/ c
  <2>4. r = [p EXCEPT !.end = e, !.blind = b]
    OBVIOUS
  <2> HIDE DEF p, b
  <2>5. Typed([p EXCEPT !.end = e, !.blind = b])
    BY <2>2, <2>3 DEF Typed, WorkerFields, b
  <2> HIDE DEF r
  <2> QED BY <2>1, <2>4, <2>5, GoTyped DEF r, p
<1>4. CASE ModifyVpcEndpoint
  <2>1. \E obj : Call(obj, Done, onError) \/ Go(onError)
    BY <1>4 DEF ModifyVpcEndpoint
  <2> QED BY <2>1, PlanCallTyped
<1>5. CASE sdkDeleteVPCEndpoint
  BY <1>5, RetireTyped DEF sdkDeleteVPCEndpoint
<1> QED BY <1>1, <1>2, <1>3, <1>4, <1>5 DEF VPCEndpointStep

LEMMA ServiceTyped == WellTyped /\ ServiceStep => Types'
<1> SUFFICES ASSUME WellTyped, ServiceStep PROVE Types'
  OBVIOUS
<1>1. CASE sdkFindService
  <2> DEFINE ready == Obj.state = "available"
             found == [ReportReady(Found, ready) EXCEPT !.pc = "principals"]
  <2>1. Describe(found, onError) /\ ready \in BOOLEAN
    BY <1>1 DEF sdkFindService
  <2> HIDE DEF ready
  <2>2. Typed(found)
    BY <2>1, ReadyTyped, AmendedTyped
  <2> QED BY <2>1, <2>2, OutcomesTyped, DescribeTyped
<1>2. CASE setAdditionalFields
  <2>1. ASSUME NEW x
        PROVE  /\ Typed([w EXCEPT !.pc = "found", !.seen.principals = x])
               /\ Typed([[w EXCEPT !.pc = "found", !.seen.principals = x] EXCEPT !.blind = TRUE])
    <3> DEFINE r == [w EXCEPT !.pc = "found", !.seen.principals = x]
    <3>1. Typed(r) /\ DOMAIN r = WorkerFields
      BY TypedIs DEF Typed, WorkerFields
    <3> HIDE DEF r
    <3>2. Typed([r EXCEPT !.blind = TRUE])
      BY <3>1, AmendedTyped
    <3> QED BY <3>1, <3>2 DEF r
  <2> QED BY <1>2, <2>1, GoTyped, UnreadTyped DEF setAdditionalFields
<1>3. CASE sdkCreateService
  BY <1>3, RequeueTyped, CreateTyped DEF sdkCreateService
<1>4. CASE sdkUpdateService
  <2>1. \/ Go(RequeueLater) \/ Go(Plan(<<>>))
        \/ \E calls, e : Go([Plan(calls) EXCEPT !.end = e])
    BY <1>4, Zenon DEF sdkUpdateService
  <2> QED BY <2>1, PlanTyped, RequeueTyped, OutcomesTyped, GoTyped
<1>5. CASE modifyAllowedPrincipals \/ ModifyVpcEndpointServiceConfiguration
  <2>1. \E obj : Call(obj, Done, onError) \/ Go(onError)
    BY <1>5 DEF modifyAllowedPrincipals, ModifyVpcEndpointServiceConfiguration
  <2> QED BY <2>1, PlanCallTyped
<1>6. CASE sdkDeleteService
  BY <1>6, RetireTyped DEF sdkDeleteService
<1> QED BY <1>1, <1>2, <1>3, <1>4, <1>5, <1>6 DEF ServiceStep

LEMMA PlainObjectTyped == WellTyped /\ PlainObjectStep => Types'
<1> SUFFICES ASSUME WellTyped, PlainObjectStep PROVE Types'
  OBVIOUS
<1>1. CASE sdkFindPlain
  BY <1>1, OutcomesTyped, DescribeTyped DEF sdkFindPlain
<1>2. CASE sdkCreatePlain
  <2>1. Typed([w EXCEPT !.pc = "synced"]) /\ DOMAIN [w EXCEPT !.pc = "synced"] = WorkerFields
    BY OutcomesTyped, TypedIs
  <2> QED BY <1>2, <2>1, CreateTyped DEF sdkCreatePlain
<1>3. CASE sdkCreateNoFlowLog
  <2>1. Typed([CreateFailed EXCEPT !.pc = "synced"])
    BY OutcomesTyped, AmendedTyped
  <2> QED BY <1>3, <2>1, UnreadTyped DEF sdkCreateNoFlowLog
<1>4. CASE customUpdatePlain
  BY <1>4, OutcomesTyped, GoTyped DEF customUpdatePlain
<1>5. CASE sdkDeletePlain
  BY <1>5, DeleteTyped DEF sdkDeletePlain
<1> QED BY <1>1, <1>2, <1>3, <1>4, <1>5 DEF PlainObjectStep

\* What EC2 and other clients do.
LEMMA WorldOfTyped ==
  ASSUME WellTyped, Drift \/ (\E i \in Ids : Settle(i)) \/ Fails
  PROVE  Types'
<1>1. CASE \E i, obj : OtherClient(i, obj) \/ Background(i, obj)
  BY <1>1, ElsewhereTyped
<1>2. CASE Fails
  <2>1. /\ faults < MaxFaults /\ faults' = faults + 1 /\ Typed(w')
        /\ UNCHANGED <<cr, edits, drifts>>
    BY <1>2, TypesAre DEF Fails, AwaitedFails, Types, env, Typed
  <2> QED BY <2>1, PassTyped
<1>3. CASE Drift
  BY <1>1, <1>3 DEF Drift, AwaitedDrift, PlainObjectDrift, PeeringDrift, ServiceDrift
<1>4. CASE \E i \in Ids : Settle(i)
  BY <1>1, <1>4 DEF Settle, AwaitedSettles, PeeringSettles, Becomes
<1> QED BY <1>2, <1>3, <1>4

\* Every variable keeps its type, for every spec of these kinds, whatever happens.
THEOREM TypeCorrect == Spec => []TypeOK
<1>1. Init => IInv /\ Types
  BY InvInit, InitTyped, TypesAre
<1>2. IInv /\ Types /\ [Next]_vars => IInv' /\ Types'
  <2> SUFFICES ASSUME IInv, Types, [Next]_vars PROVE Types'
    BY NextIsSound DEF IInv, Sound
  <2>1. WellTyped
    BY TypesAre DEF IInv
  <2>2. CASE Reconcile
    BY <2>1, <2>2, RuntimeTyped, PendingGatewayTyped, AttachmentTyped, PeeringTyped,
       VPCEndpointTyped, ServiceTyped, PlainObjectTyped DEF Reconcile
  <2>3. CASE WorldStep
    BY <2>1, <2>3, WorldTyped
  <2>4. CASE Drift \/ (\E i \in Ids : Settle(i)) \/ Fails
    BY <2>1, <2>4, WorldOfTyped
  <2>5. CASE UNCHANGED vars
    BY <2>5 DEF vars, env, Types, Typed, CRs, Ids
  <2> QED BY <2>2, <2>3, <2>4, <2>5 DEF Next
<1>3. IInv /\ Types => TypeOK
  BY TypesAre DEF IInv, WellTyped
<1> QED BY <1>1, <1>2, <1>3, PTL DEF Spec

----------------------------------------------------------------------------
(* What a pass knows of its object, from the read to the success it        *)
(* reports: the fields that an update sees to are as read or as declared,  *)
(* and those that no call of the plan is left for are as declared.         *)

Attachment == "transit_gateway_vpc_attachment"
Peering    == "vpc_peering_connection"
Service    == "vpc_endpoint_service_configuration"
Kinds      == PlainKinds \cup
  {"nat_gateway", "transit_gateway", "vpc_endpoint", Attachment, Peering, Service}

Fields(kind) ==
  {"live", "tags"}
    \cup (IF kind \in PlainKinds THEN {} ELSE {"state"})
    \cup (IF kind = "nat_gateway" THEN {"connectivity"} ELSE {})
    \cup (IF kind \in {Attachment, "vpc_endpoint"} THEN {"subnets"} ELSE {})
    \cup (IF kind = "vpc_endpoint" THEN {"groups"} ELSE {})
    \cup (IF kind = Peering THEN {"options"} ELSE {})
    \cup (IF kind = Service THEN {"principals", "acceptance"} ELSE {})

\* The fields that an update sees to, and the calls that do.
Watched(kind) == Fields(kind) \cap {"tags", "subnets", "principals", "acceptance"}
CallsFor ==
  [tags       |-> {"tags"},
   subnets    |-> {"modifyAttachment", "modifyEndpoint"},
   principals |-> {"modifyPermissions"},
   acceptance |-> {"modifyService"}]

UpdateOps(kind) ==
  {"tags"}
    \cup (IF kind = Attachment THEN {"modifyAttachment"} ELSE {})
    \cup (IF kind = "vpc_endpoint" THEN {"modifyEndpoint"} ELSE {})
    \cup (IF kind = Peering THEN {"accept", "findPeering", "modifyOptions"} ELSE {})
    \cup (IF kind = Service THEN {"modifyPermissions", "modifyService", "desired"} ELSE {})

\* A peering that nobody has accepted yet; an object that is as its kind needs it.
Asked(state)   == state \in {"initiating-request", "pending-acceptance"}
ReadyIs(state) ==
  /\ w.spec.kind \in {"nat_gateway", Service} => state = "available"
  /\ w.spec.kind = "vpc_endpoint" => state # "pending"

\* The objects are made from specs, and on their way out when they are not live.
ObjectIs(obj) ==
  /\ DOMAIN obj = Fields(cr.spec.kind)
  /\ Awaited /\ ~obj.live => obj.state \in {"deleting", "deleted"}
  /\ cr.spec.kind = "nat_gateway" =>
       \A s \in Specs : s.kind = "nat_gateway" => obj.connectivity = s.connectivity
  /\ cr.spec.kind = Attachment =>
       \E s \in Specs : s.kind = Attachment /\ obj.subnets = s.subnets

ObjectsOK == \A i \in Ids : ec2[i] # Gone => ObjectIs(ec2[i])
SpecsOK   == cr.spec \in Specs /\ (~At("idle") => w.spec \in Specs)

StageOK ==
  /\ w.pc \in {"idle", "describe", "principals", "found", "plan", "manage", "create", "release"}
               \cup Ends
  /\ w.pc \notin {"idle", "describe"} => w.spec.kind \in Kinds
  /\ At("principals") => Kind(Service)
  /\ At("plan") => w.mode = "update" /\ IsPlan(w.plan, UpdateOps(w.spec.kind))
  /\ At("synced") /\ w.mode = "update" => w.id \in Ids

\* Nothing has come between the read and the calls that the code could not know.
Unbiased == ~w.interfered /\ ~w.blind /\ Obj # Gone

ReadOK ==
  w.pc \in {"principals", "found"} =>
    /\ DOMAIN w.seen = Fields(w.spec.kind)
    /\ w.end = "synced" => ReadyIs(w.seen.state)
    /\ Kind(Peering) => w.seen.state # "initiating-request"
    /\ Unbiased =>
         /\ \A f \in Watched(w.spec.kind) : At("found") \/ f # "principals" => Obj[f] = w.seen[f]
         /\ Awaited /\ w.seen.state = "available" => Obj.state = "available"
         /\ Awaited /\ ~Asked(w.seen.state) => ~Asked(Obj.state)
         /\ Awaited /\ w.seen.state # "pending" => Obj.state # "pending"

\* The subnets of an attachment are those of some spec, whoever interferes.
AttachmentOK ==
  Kind(Attachment) /\ w.pc \in {"found", "plan"} =>
    /\ \E s \in Specs : s.kind = Attachment /\ w.seen.subnets = s.subnets
    /\ Obj # Gone => Obj.subnets \in {w.seen.subnets, w.spec.subnets}

\* The object will be as declared once the operations in `pending` are done.
ComesTo(obj, pending) ==
  /\ \A f \in Watched(w.spec.kind) :
       /\ obj[f] \in {w.seen[f], w.spec[f]}
       /\ CallsFor[f] \cap pending = {} => obj[f] = w.spec[f]
  /\ ReadyIs(obj.state)
  /\ Kind(Peering) =>
       /\ w.spec.accept => ~Asked(obj.state)
       /\ "accepter" \in w.spec.options /\ "modifyOptions" \notin pending =>
            w.spec.options \subseteq obj.options

PlanOK == At("plan") /\ w.end = "synced" /\ Unbiased => ComesTo(Obj, Ops(w.plan))
DoneOK == At("synced") /\ w.mode = "update" /\ Unbiased => ComesTo(Obj, {})

InSight == StageOK /\ ReadOK /\ AttachmentOK /\ PlanOK /\ DoneOK
Tracked == IInv /\ ObjectsOK /\ SpecsOK /\ InSight

\* What EC2 gives to a NAT gateway is not compared with what is declared, and
\* compareSubnetIDs lets one subnet go at most.
FixedConnectivity ==
  \A s, t \in Specs : s.kind = "nat_gateway" /\ t.kind = "nat_gateway" =>
    s.connectivity \in {"public", "private"} /\ s.connectivity = t.connectivity
OneLeaves ==
  \A s, t \in Specs : s.kind = Attachment /\ t.kind = Attachment /\ t.subnets \subseteq s.subnets =>
    \A x, y \in s.subnets \ t.subnets : x = y

----------------------------------------------------------------------------
(* Steps that keep it.                                                     *)

LEMMA KindsDiffer ==
  /\ Attachment \notin PlainKinds /\ Peering \notin PlainKinds /\ Service \notin PlainKinds
  /\ "nat_gateway" \notin PlainKinds /\ "vpc_endpoint" \notin PlainKinds
  /\ "transit_gateway" \notin PlainKinds
BY DEF Attachment, Peering, Service, PlainKinds

LEMMA TrackedIs ==
  ASSUME Tracked
  PROVE  /\ DOMAIN ec2 = Ids /\ DOMAIN cr = CRFields /\ DOMAIN w = WorkerFields
         /\ ~At("idle") => w.spec.kind = cr.spec.kind
         /\ Frame
BY DEF Tracked, IInv, Frame, WellFormedAll, EC2WellFormed, CRWellFormed, WorkerWellFormed

\* A pass that has nothing in hand.
LEMMA NothingInSight ==
  ASSUME w'.pc \in {"idle", "describe", "manage", "create", "release", "requeue", "failed"}
           \/ (w'.pc = "synced" /\ w'.mode # "update"),
         w'.pc \notin {"idle", "describe"} => w'.spec.kind \in Kinds
  PROVE  InSight'
BY DEF InSight, StageOK, ReadOK, AttachmentOK, PlanOK, DoneOK, At, Ends

LEMMA ObjectsKept ==
  ASSUME Tracked, NEW obj, \A j \in Ids : ec2'[j] \in {ec2[j], obj},
         obj # Gone => ObjectIs(obj), cr'.spec.kind = cr.spec.kind
  PROVE  ObjectsOK'
BY DEF Tracked, ObjectsOK, ObjectIs, Awaited

LEMMA ComesToExact ==
  ASSUME Tracked, ~At("idle"), w.spec.kind \in Kinds, Obj # Gone, w.id \in Ids, ComesTo(Obj, {})
  PROVE  Exact(Obj, w.spec)
<1>1. w.spec.kind = cr.spec.kind /\ ObjectIs(Obj) /\ w.spec \in Specs
  BY TrackedIs DEF Tracked, ObjectsOK, SpecsOK, Obj
<1>2. \A f \in Watched(w.spec.kind) : Obj[f] = w.spec[f]
  BY DEF ComesTo
<1>3. Obj.tags = w.spec.tags
  BY <1>2 DEF Watched, Fields
<1>4. CASE Kind("nat_gateway")
  BY <1>1, <1>3, <1>4 DEF Kind, ObjectIs, ComesTo, ReadyIs, Exact, NATGatewayIs, Awaited, PlainKinds
<1>5. CASE Kind("transit_gateway")
  BY <1>3, <1>5 DEF Kind, Exact, TransitGatewayIs, PlainKinds
<1>6. CASE Kind(Attachment)
  BY <1>2, <1>3, <1>6 DEF Kind, Exact, AttachmentIs, Watched, Fields, Attachment,
                                PlainKinds
<1>7. CASE Kind(Peering)
  BY <1>3, <1>7 DEF Kind, Exact, PeeringIs, ComesTo, Asked, Peering, PlainKinds
<1>8. CASE Kind("vpc_endpoint")
  BY <1>2, <1>3, <1>8 DEF Kind, ComesTo, ReadyIs, Exact, VPCEndpointIs, Watched, Fields,
                                PlainKinds
<1>9. CASE Kind(Service)
  BY <1>1, <1>2, <1>3, <1>9 DEF Kind, ObjectIs, ComesTo, ReadyIs, Exact, ServiceIs, Awaited,
                                PlainKinds, Service, Watched, Fields
<1>10. CASE w.spec.kind \in PlainKinds
  BY <1>3, <1>10 DEF Exact, PlainObjectIs, PlainKinds
<1> QED BY <1>4, <1>5, <1>6, <1>7, <1>8, <1>9, <1>10 DEF Kinds, Kind

LEMMA FailureIs ==
  ASSUME Tracked, ~At("idle")
  PROVE  onError.pc = "failed" /\ onError.spec = w.spec /\ onError.mode = w.mode
<1>1. DOMAIN w = WorkerFields
  BY TrackedIs
<1> DEFINE o == Over("failed")
<1>2. DOMAIN o = WorkerFields /\ o.pc = "failed" /\ o.spec = w.spec /\ o.mode = w.mode
  BY <1>1 DEF Over, WorkerFields
<1> HIDE DEF o
<1>3. CreateFailed.pc = "failed" /\ CreateFailed.spec = w.spec /\ CreateFailed.mode = w.mode
  BY <1>2 DEF CreateFailed, o, WorkerFields
<1> QED BY <1>2, <1>3 DEF onError, o

\* A pass that stops with an error.
LEMMA FailedOK ==
  ASSUME Tracked, ~At("idle"), w.spec.kind \in Kinds, w' = onError
  PROVE  InSight'
BY FailureIs, NothingInSight

\* What EC2 does in its own time changes the state of an object only, and that of
\* one that is ready not at all.
LEMMA BackgroundOK ==
  ASSUME Tracked, Awaited, NEW i \in Ids, NEW obj, UNCHANGED <<cr, w>>,
         ec2' = [ec2 EXCEPT ![i] = obj], ec2[i] # Gone,
         obj # Gone =>
           /\ ObjectIs(obj) /\ \A f \in Fields(cr.spec.kind) \ {"state"} : obj[f] = ec2[i][f]
           /\ ec2[i].state = "available" => obj.state = "available"
           /\ ~Asked(ec2[i].state) => ~Asked(obj.state)
           /\ ec2[i].state # "pending" => obj.state # "pending"
  PROVE  ObjectsOK' /\ SpecsOK' /\ InSight'
<1>1. /\ DOMAIN ec2 = Ids /\ Frame /\ StageOK /\ ReadOK /\ AttachmentOK /\ PlanOK /\ DoneOK
      /\ SpecsOK
  BY TrackedIs DEF Tracked, InSight
<1>2. ObjectsOK' /\ SpecsOK' /\ StageOK' /\ Awaited'
  <2>1. (\A j \in Ids : ec2'[j] \in {ec2[j], obj}) /\ cr'.spec.kind = cr.spec.kind
    BY <1>1
  <2>2. obj # Gone => ObjectIs(obj)
    OBVIOUS
  <2>3. ObjectsOK'
    BY <2>1, <2>2, ObjectsKept
  <2> QED BY <1>1, <2>3 DEF SpecsOK, StageOK, At, Kind, Awaited
<1>3. CASE w.id = i
  <2>1. Obj' = obj /\ Obj # Gone /\ Obj = ec2[i]
    BY <1>1, <1>3 DEF Obj
  <2>2. Obj' # Gone =>
          /\ \A f \in Fields(cr.spec.kind) \ {"state"} : Obj'[f] = Obj[f]
          /\ Obj.state = "available" => Obj'.state = "available"
          /\ ~Asked(Obj.state) => ~Asked(Obj'.state)
          /\ Obj.state # "pending" => Obj'.state # "pending"
          /\ Unbiased' => Unbiased
    BY <2>1 DEF Unbiased
  <2>3. ~At("idle") => Watched(w.spec.kind) \subseteq Fields(cr.spec.kind) \ {"state"}
    BY TrackedIs DEF Watched
  <2>4. ReadOK'
    BY <1>1, <1>2, <2>2, <2>3 DEF ReadOK, At, Kind, Unbiased, ReadyIs
  <2>5. AttachmentOK'
    <3>1. ~At("idle") /\ Kind(Attachment) => "subnets" \in Fields(cr.spec.kind) \ {"state"}
      BY TrackedIs DEF Kind, Fields
    <3> QED BY <1>1, <2>1, <2>2, <3>1 DEF AttachmentOK, At, Kind
  <2>6. ASSUME NEW pending, ComesTo(Obj, pending), Obj' # Gone, ~At("idle")
        PROVE  ComesTo(Obj, pending)'
    <3>1. Kind(Peering) => Obj'.options = Obj.options
      BY <2>2, <2>6, TrackedIs DEF Kind, Fields
    <3> QED BY <2>2, <2>3, <2>6, <3>1 DEF ComesTo, ReadyIs, Kind
  <2>7. PlanOK' /\ DoneOK'
    <3>1. At("plan") /\ w.end = "synced" /\ Unbiased' => ComesTo(Obj, Ops(w.plan))'
      BY <1>1, <2>2, <2>6 DEF PlanOK, Unbiased, At
    <3>2. At("synced") /\ w.mode = "update" /\ Unbiased' => ComesTo(Obj, {})'
      BY <1>1, <2>2, <2>6 DEF DoneOK, Unbiased, At
    <3> QED BY <3>1, <3>2 DEF PlanOK, DoneOK, At
  <2> QED BY <1>2, <2>4, <2>5, <2>7 DEF InSight
<1>4. CASE w.id # i
  <2>1. CASE At("idle")
    BY <1>2, <2>1, NothingInSight DEF At
  <2>2. CASE ~At("idle") /\ w.id \in Ids
    <3>1. Obj' = Obj
      BY <1>1, <1>4, <2>2 DEF Obj
    <3>2. ReadOK' /\ AttachmentOK' /\ PlanOK' /\ DoneOK'
      BY <1>1, <1>2, <3>1 DEF ReadOK, AttachmentOK, PlanOK, DoneOK, ComesTo, Unbiased, ReadyIs,
                              Kind, At
    <3> QED BY <1>2, <3>2 DEF InSight
  <2>3. CASE ~At("idle") /\ w.id \notin Ids
    <3>1. w.pc \notin Working /\ ~(At("synced") /\ w.mode = "update")
      BY <1>1, <2>3, WorkerIs DEF StageOK, Working
    <3>2. ReadOK' /\ AttachmentOK' /\ PlanOK' /\ DoneOK'
      BY <3>1 DEF ReadOK, AttachmentOK, PlanOK, DoneOK, Working, At
    <3> QED BY <1>2, <3>2 DEF InSight
  <2> QED BY <2>1, <2>2, <2>3
<1> QED BY <1>3, <1>4

\* Whatever another client does to the object of a pass, the pass is marked.
LEMMA InterferedOK ==
  ASSUME Tracked, NEW i \in Ids, NEW obj, OtherClient(i, obj), ec2[i] # Gone,
         obj # Gone =>
           /\ ObjectIs(obj)
           /\ cr.spec.kind = Attachment => obj.subnets = ec2[i].subnets
  PROVE  ObjectsOK' /\ SpecsOK' /\ InSight'
<1>1. /\ DOMAIN ec2 = Ids /\ DOMAIN w = WorkerFields /\ Frame
      /\ StageOK /\ ReadOK /\ AttachmentOK /\ SpecsOK
  BY TrackedIs DEF Tracked, InSight
<1>2. /\ ec2' = [ec2 EXCEPT ![i] = obj] /\ cr' = cr
      /\ w' = IF At("idle") THEN w ELSE [w EXCEPT !.interfered = TRUE]
  BY DEF OtherClient
<1>3. ObjectsOK'
  <2>1. (\A j \in Ids : ec2'[j] \in {ec2[j], obj}) /\ cr'.spec.kind = cr.spec.kind
    BY <1>1, <1>2
  <2> QED BY <2>1, ObjectsKept
<1>4. CASE At("idle")
  <2>1. w' = w
    BY <1>2, <1>4
  <2> QED BY <1>1, <1>2, <1>3, <1>4, <2>1, NothingInSight DEF At, SpecsOK
<1>5. CASE ~At("idle")
  <2>1. /\ w'.pc = w.pc /\ w'.mode = w.mode /\ w'.id = w.id /\ w'.spec = w.spec
        /\ w'.seen = w.seen /\ w'.plan = w.plan /\ w'.end = w.end /\ w'.interfered = TRUE
    BY <1>1, <1>2, <1>5 DEF WorkerFields
  <2>2. SpecsOK' /\ StageOK' /\ PlanOK' /\ DoneOK'
    BY <1>1, <1>2, <2>1 DEF SpecsOK, StageOK, PlanOK, DoneOK, Unbiased, At, Kind
  <2>3. ReadOK'
    BY <1>1, <2>1 DEF ReadOK, ReadyIs, Unbiased, At, Kind
  <2>4. AttachmentOK'
    <3> SUFFICES ASSUME Kind(Attachment), w.pc \in {"found", "plan"}, Obj' # Gone
                 PROVE  Obj # Gone /\ Obj'.subnets = Obj.subnets
      BY <1>1, <2>1 DEF AttachmentOK, At, Kind
    <3>1. w.id \in Ids /\ cr.spec.kind = Attachment
      BY <1>1, <1>5, WorkerIs DEF Working, Kind
    <3>2. CASE w.id = i
      BY <1>1, <1>2, <2>1, <3>1, <3>2 DEF Obj
    <3>3. CASE w.id # i
      BY <1>1, <1>2, <2>1, <3>1, <3>3 DEF Obj
    <3> QED BY <3>2, <3>3
  <2> QED BY <1>3, <2>2, <2>3, <2>4 DEF InSight
<1> QED BY <1>4, <1>5

\* The Describe call hands on the object as it is, or nothing.
LEMMA DescribeOK ==
  ASSUME Tracked, NEW found, NEW missing, Describe(found, missing), w.spec.kind \in Kinds,
         missing \in {onError, NotFound},
         w.id \in Ids /\ Obj # Gone =>
           \/ found \in {NotFound, RequeueLater}
           \/ /\ found.pc = "found" \/ (found.pc = "principals" /\ Kind(Service))
              /\ found.spec = w.spec /\ found.mode = w.mode /\ found.id = w.id
              /\ \/ found.seen = Obj
                 \/ Kind("vpc_endpoint") /\ \E g : found.seen = [Obj EXCEPT !.groups = g]
              /\ found.end = "synced" => ReadyIs(Obj.state)
              /\ Kind(Peering) => Obj.state # "initiating-request"
  PROVE  ObjectsOK' /\ SpecsOK' /\ InSight'
<1>1. /\ DOMAIN ec2 = Ids /\ DOMAIN w = WorkerFields /\ Frame /\ At("describe") /\ ~At("idle")
      /\ ObjectsOK /\ SpecsOK /\ w.id \in Ids \cup {0} /\ w.mode # "create"
      /\ w.spec.kind = cr.spec.kind
  BY TrackedIs, WorkerIs DEF Tracked, Describe, At
<1>2. UNCHANGED <<cr, ec2>>
  BY DEF Describe, Go, Unread
<1>3. ObjectsOK'
  BY <1>1, <1>2 DEF ObjectsOK, ObjectIs, Awaited
<1>4. /\ NotFound.pc \in {"release", "manage"} /\ NotFound.spec = w.spec
      /\ RequeueLater.pc = "requeue" /\ RequeueLater.spec = w.spec
  BY <1>1 DEF NotFound, RequeueLater, WorkerFields
<1>5. CASE w' \in {onError, NotFound, RequeueLater}
  <2>1. w'.spec = w.spec /\ w'.pc \in {"release", "manage", "requeue", "failed"}
    BY <1>1, <1>4, <1>5, FailureIs
  <2> QED BY <1>1, <1>2, <1>3, <2>1, NothingInSight DEF SpecsOK, At
<1>6. CASE w' \notin {onError, NotFound, RequeueLater}
  <2>1. w' = found /\ w.id \in Ids /\ Obj # Gone /\ Obj' = Obj
    BY <1>1, <1>2, <1>6 DEF Describe, Go, Unread, Obj
  <2>2. /\ w'.pc = "found" \/ (w'.pc = "principals" /\ Kind(Service))
        /\ w'.spec = w.spec /\ w'.mode = w.mode /\ w'.id = w.id
        /\ DOMAIN w'.seen = DOMAIN Obj /\ \A f \in DOMAIN Obj \ {"groups"} : w'.seen[f] = Obj[f]
        /\ w'.end = "synced" => ReadyIs(Obj.state)
        /\ Kind(Peering) => Obj.state # "initiating-request"
    BY <1>6, <2>1
  <2>3. /\ ObjectIs(Obj) /\ Watched(w.spec.kind) \subseteq DOMAIN Obj \ {"groups"}
        /\ Awaited => "state" \in DOMAIN Obj
        /\ w.spec.kind \in {"nat_gateway", "vpc_endpoint", Service, Peering} => Awaited
        /\ Kind(Attachment) => "subnets" \in DOMAIN Obj
    BY <1>1, <2>1, KindsDiffer DEF ObjectsOK, Obj, ObjectIs, Fields, Watched, Awaited, Kind
  <2>4. SpecsOK' /\ StageOK' /\ PlanOK' /\ DoneOK'
    BY <1>1, <1>2, <2>2 DEF SpecsOK, StageOK, PlanOK, DoneOK, At, Kind
  <2>5. ReadOK'
    <3>1. /\ Awaited' = Awaited /\ (Awaited => w'.seen.state = Obj.state)
          /\ DOMAIN w'.seen = Fields(w.spec.kind)
          /\ \A f \in Watched(w.spec.kind) : Obj'[f] = w'.seen[f]
      BY <1>1, <1>2, <2>1, <2>2, <2>3 DEF Awaited, ObjectIs
    <3>2. w'.end = "synced" => ReadyIs(w'.seen.state)
      BY <2>2, <2>3, <3>1 DEF ReadyIs
    <3>3. Kind(Peering) => w'.seen.state # "initiating-request"
      BY <2>2, <2>3, <3>1 DEF Kind
    <3> QED BY <2>1, <2>2, <3>1, <3>2, <3>3 DEF ReadOK, ReadyIs, At, Kind
  <2>6. AttachmentOK'
    BY <1>1, <2>1, <2>2, <2>3 DEF AttachmentOK, Kind, At, ObjectIs
  <2> QED BY <1>3, <2>4, <2>5, <2>6 DEF InSight
<1> QED BY <1>5, <1>6

----------------------------------------------------------------------------
(* The steps of a pass, by what they do.                                   *)

LEMMA ObjectsStay ==
  ASSUME Tracked, UNCHANGED ec2, cr'.spec.kind = cr.spec.kind
  PROVE  ObjectsOK'
BY DEF Tracked, ObjectsOK, ObjectIs, Awaited

\* An object that is made as declared.
LEMMA CreateOK ==
  ASSUME Tracked, At("create"), NEW obj, NEW l \in {"synced", "requeue"},
         CreateObject(obj, [w EXCEPT !.pc = l]), ObjectIs(obj)
  PROVE  ObjectsOK' /\ SpecsOK' /\ InSight'
<1>1. /\ DOMAIN w = WorkerFields /\ DOMAIN ec2 = Ids
      /\ Frame /\ w.mode = "create" /\ ~At("idle") /\ SpecsOK
      /\ w.spec.kind \in Kinds
  BY TrackedIs, WorkerIs DEF Tracked, InSight, StageOK, At
<1> DEFINE next == [w EXCEPT !.pc = l]
<1>2. DOMAIN next = WorkerFields /\ next.mode = w.mode /\ next.spec = w.spec /\ next.pc = l
  BY <1>1 DEF WorkerFields
<1>3. /\ cr' = cr
      /\ w' \in {CreateFailed, [next EXCEPT !.id = nextId]}
      /\ ec2' = ec2 \/ (nextId \in Ids /\ ec2' = [ec2 EXCEPT ![nextId] = obj])
  BY DEF CreateObject
<1> HIDE DEF next
<1>4. onError = CreateFailed
  BY <1>1 DEF onError
<1>5. /\ w'.pc \in {"synced", "requeue", "failed"} /\ w'.mode = "create"
      /\ w'.spec = w.spec
  <2>1. CASE w' = CreateFailed
    BY <1>1, <1>4, <2>1, FailureIs
  <2>2. CASE w' = [next EXCEPT !.id = nextId]
    BY <1>1, <1>2, <2>2 DEF WorkerFields
  <2> QED BY <1>3, <2>1, <2>2
<1>6. ObjectsOK'
  <2>1. CASE ec2' = ec2
    BY <1>3, <2>1, ObjectsStay
  <2>2. CASE nextId \in Ids /\ ec2' = [ec2 EXCEPT ![nextId] = obj]
    <3>1. /\ \A j \in Ids : ec2'[j] \in {ec2[j], obj}
          /\ cr'.spec.kind = cr.spec.kind
          /\ obj # Gone => ObjectIs(obj)
      BY <1>1, <1>3, <2>2
    <3> QED BY <3>1, ObjectsKept
  <2> QED BY <1>3, <2>1, <2>2
<1> QED BY <1>1, <1>3, <1>5, <1>6, NothingInSight DEF SpecsOK, At

\* A pass that is over, or leaves the object to the runtime.
LEMMA OverOK ==
  ASSUME Tracked, ~At("idle"), w.spec.kind \in Kinds, cr' = cr, w'.spec = w.spec,
         w'.pc \in {"release", "requeue", "failed"}
  PROVE  SpecsOK' /\ InSight'
BY NothingInSight DEF Tracked, SpecsOK, At

\* A call on the object in hand that ends the pass, or fails.
LEMMA LastCallOK ==
  ASSUME Tracked, ~At("idle"), w.id \in Ids, w.spec.kind \in Kinds, cr' = cr, NEW obj,
         ec2' \in {ec2, [ec2 EXCEPT ![w.id] = obj]}, obj # Gone => ObjectIs(obj),
         w' \in {onError, RequeueLater, [w EXCEPT !.pc = "release"]}
  PROVE  ObjectsOK' /\ SpecsOK' /\ InSight'
<1>1. DOMAIN w = WorkerFields /\ DOMAIN ec2 = Ids
  BY TrackedIs
<1>2. w'.spec = w.spec /\ w'.pc \in {"release", "requeue", "failed"}
  BY <1>1, FailureIs DEF RequeueLater, WorkerFields
<1>3. ObjectsOK'
  <2>1. (\A j \in Ids : ec2'[j] \in {ec2[j], obj}) /\ cr'.spec.kind = cr.spec.kind
    BY <1>1
  <2> QED BY <2>1, ObjectsKept
<1> QED BY <1>2, <1>3, OverOK

----------------------------------------------------------------------------
(* An update, and the calls of its plan.                                   *)

LEMMA UpdatingIs ==
  ASSUME Tracked, Updating
  PROVE  /\ ~At("idle") /\ w.id \in Ids /\ DOMAIN w = WorkerFields /\ w.spec.kind \in Kinds
         /\ w.spec.kind = cr.spec.kind /\ w.spec \in Specs
         /\ ReadOK /\ AttachmentOK /\ Frame
BY TrackedIs, WorkerIs
   DEF Tracked, InSight, SpecsOK, StageOK, Updating, At, Working

\* The plan that an update makes.
LEMMA PlannedOK ==
  ASSUME Tracked, Updating, NEW calls, NEW next, Go(next),
         next.pc = "plan", next.plan = calls, next.mode = w.mode, next.id = w.id,
         next.spec = w.spec, next.seen = w.seen, next.interfered = w.interfered,
         w.blind => next.blind, IsPlan(calls, UpdateOps(w.spec.kind)),
         next.end = "synced" /\ Unbiased /\ ~next.blind => ComesTo(Obj, Ops(calls))
  PROVE  ObjectsOK' /\ SpecsOK' /\ InSight'
<1>1. /\ ~At("idle") /\ w.spec.kind \in Kinds /\ AttachmentOK
      /\ At("found") /\ w.mode = "update" /\ SpecsOK
  BY UpdatingIs DEF Updating, Tracked
<1>2. w' = next /\ UNCHANGED <<cr, ec2>>
  BY DEF Go
<1>3. ObjectsOK'
  BY <1>2, ObjectsStay
<1>4. SpecsOK' /\ StageOK' /\ ReadOK' /\ DoneOK'
  BY <1>1, <1>2 DEF SpecsOK, StageOK, ReadOK, DoneOK, At
<1>5. AttachmentOK'
  BY <1>1, <1>2 DEF AttachmentOK, At, Kind, Obj
<1>6. PlanOK'
  BY <1>2 DEF PlanOK, At, Unbiased, ComesTo, ReadyIs, Kind, Obj
<1> QED BY <1>3, <1>4, <1>5, <1>6 DEF InSight

LEMMA UpdateOK ==
  ASSUME Tracked, Updating, NEW calls, NEW next, Go(next),
         next \in {Plan(calls), [Plan(calls) EXCEPT !.end = next.end]},
         IsPlan(calls, UpdateOps(w.spec.kind)),
         next.end = "synced" /\ Unbiased => ComesTo(Obj, Ops(calls))
  PROVE  ObjectsOK' /\ SpecsOK' /\ InSight'
<1>1. DOMAIN w = WorkerFields
  BY UpdatingIs
<1> DEFINE p == Plan(calls)
<1>2. /\ DOMAIN p = WorkerFields /\ p.pc = "plan" /\ p.plan = calls /\ p.mode = w.mode
      /\ p.id = w.id /\ p.spec = w.spec /\ p.seen = w.seen /\ p.blind = w.blind
      /\ p.interfered = w.interfered
  BY <1>1 DEF Plan, WorkerFields
<1> HIDE DEF p
<1>3. /\ next.pc = "plan" /\ next.plan = calls /\ next.mode = w.mode
      /\ next.id = w.id /\ next.spec = w.spec /\ next.seen = w.seen /\ next.blind = w.blind
      /\ next.interfered = w.interfered
  <2>1. CASE next = p
    BY <1>2, <2>1
  <2>2. CASE next = [p EXCEPT !.end = next.end]
    <3> DEFINE e == next.end
    <3>1. next = [p EXCEPT !.end = e]
      BY <2>2
    <3> HIDE DEF e
    <3> QED BY <1>2, <3>1 DEF WorkerFields
  <2> QED BY <2>1, <2>2 DEF p
<1> QED BY <1>3, PlannedOK

\* What has been read, and a call for every field that differs.
LEMMA UpdateComes ==
  ASSUME Tracked, Updating, Unbiased, NEW pending, ReadyIs(w.seen.state) \/ ReadyIs(Obj.state),
         \A f \in Watched(w.spec.kind) : w.spec[f] # w.seen[f] => CallsFor[f] \cap pending # {},
         Kind(Peering) =>
           /\ w.spec.accept => ~Asked(w.seen.state)
           /\ "accepter" \in w.spec.options => "modifyOptions" \in pending
  PROVE  ComesTo(Obj, pending)
<1>1. /\ \A f \in Watched(w.spec.kind) : Obj[f] = w.seen[f]
      /\ Awaited /\ w.seen.state = "available" => Obj.state = "available"
      /\ Awaited /\ ~Asked(w.seen.state) => ~Asked(Obj.state)
      /\ Awaited /\ w.seen.state # "pending" => Obj.state # "pending"
      /\ w.spec.kind = cr.spec.kind
  BY UpdatingIs DEF ReadOK, Updating, At
<1>2. w.spec.kind \in {"nat_gateway", "vpc_endpoint", Service, Peering} => Awaited
  BY <1>1, KindsDiffer DEF Awaited
<1>3. ReadyIs(Obj.state)
  BY <1>1, <1>2 DEF ReadyIs
<1> QED BY <1>1, <1>2, <1>3 DEF ComesTo, Kind

LEMMA PlanningOn ==
  ASSUME Tracked, NEW op, Doing(op)
  PROVE  /\ ~At("idle") /\ w.id \in Ids /\ DOMAIN w = WorkerFields /\ w.spec.kind \in Kinds
         /\ w.spec.kind = cr.spec.kind /\ w.spec \in Specs /\ AttachmentOK
         /\ Obj # Gone => ObjectIs(Obj)
         /\ w.mode = "update" /\ IsPlan(w.plan, UpdateOps(w.spec.kind))
         /\ IsPlan(Tail(w.plan), UpdateOps(w.spec.kind))
         /\ Ops(w.plan) \subseteq {op} \cup Ops(Tail(w.plan))
<1>1. /\ ~At("idle") /\ w.id \in Ids /\ DOMAIN w = WorkerFields
      /\ w.spec.kind = cr.spec.kind /\ Head(w.plan)[1] = op /\ w.plan # <<>> /\ At("plan")
  BY TrackedIs, WorkerIs DEF Doing, At, Working
<1>2. /\ w.spec.kind \in Kinds /\ w.spec \in Specs /\ AttachmentOK
      /\ w.mode = "update" /\ IsPlan(w.plan, UpdateOps(w.spec.kind))
  BY <1>1 DEF Tracked, InSight, SpecsOK, StageOK, At
<1>3. Obj # Gone => ObjectIs(Obj)
  BY <1>1 DEF Tracked, ObjectsOK, Obj
<1>4. IsPlan(Tail(w.plan), UpdateOps(w.spec.kind)) /\ Ops(w.plan) \subseteq {op} \cup Ops(Tail(w.plan))
  BY <1>1, <1>2, TailIsPlan, OpsOfTail
<1> QED BY <1>1, <1>2, <1>3, <1>4

\* What an operation makes of an object that comes to be as declared.
Carried(op, obj) ==
  /\ \A f \in Watched(w.spec.kind) :
       obj[f] = IF op \in CallsFor[f] THEN w.spec[f] ELSE Obj[f]
  /\ ReadyIs(Obj.state) => ReadyIs(obj.state)
  /\ Kind(Peering) =>
       /\ ~Asked(Obj.state) => ~Asked(obj.state)
       /\ IF op = "modifyOptions" THEN w.spec.options \subseteq obj.options
                                  ELSE obj.options = Obj.options

\* A call of a plan that succeeds.
LEMMA PlanStepOK ==
  ASSUME Tracked, NEW op, Doing(op), NEW obj, cr' = cr,
         ec2' \in {ec2, [ec2 EXCEPT ![w.id] = obj]}, Obj' = obj,
         w' \in {Done, [Done EXCEPT !.version = cr.version]},
         obj # Gone => /\ Obj # Gone /\ ObjectIs(obj)
                       /\ Kind(Attachment) => obj.subnets \in {w.seen.subnets, w.spec.subnets},
         obj # Gone /\ ComesTo(Obj, Ops(w.plan)) => Carried(op, obj)
  PROVE  ObjectsOK' /\ SpecsOK' /\ InSight'
<1>1. /\ ~At("idle") /\ w.id \in Ids /\ DOMAIN w = WorkerFields /\ w.spec.kind \in Kinds
      /\ AttachmentOK /\ w.mode = "update" /\ IsPlan(Tail(w.plan), UpdateOps(w.spec.kind))
      /\ Ops(w.plan) \subseteq {op} \cup Ops(Tail(w.plan))
      /\ DOMAIN ec2 = Ids /\ SpecsOK /\ PlanOK /\ At("plan")
  BY PlanningOn, TrackedIs DEF Tracked, InSight, Doing
<1> DEFINE d == Done
<1>2. /\ DOMAIN d = WorkerFields /\ d.pc = "plan" /\ d.plan = Tail(w.plan) /\ d.mode = w.mode
      /\ d.id = w.id /\ d.spec = w.spec /\ d.seen = w.seen /\ d.blind = w.blind
      /\ d.interfered = w.interfered /\ d.end = w.end
  BY <1>1 DEF Done, WorkerFields, At
<1> HIDE DEF d
<1>3. /\ w'.pc = "plan" /\ w'.plan = Tail(w.plan) /\ w'.mode = w.mode
      /\ w'.id = w.id /\ w'.spec = w.spec /\ w'.seen = w.seen /\ w'.blind = w.blind
      /\ w'.interfered = w.interfered /\ w'.end = w.end
  <2>1. CASE w' = d
    BY <1>2, <2>1
  <2>2. CASE w' = [d EXCEPT !.version = cr.version]
    BY <1>2, <2>2 DEF WorkerFields
  <2> QED BY <2>1, <2>2 DEF d
<1>4. ObjectsOK'
  <2>1. /\ \A j \in Ids : ec2'[j] \in {ec2[j], obj}
        /\ cr'.spec.kind = cr.spec.kind
        /\ obj # Gone => ObjectIs(obj)
    BY <1>1
  <2> QED BY <2>1, ObjectsKept
<1>5. SpecsOK' /\ StageOK' /\ ReadOK' /\ DoneOK'
  BY <1>1, <1>3 DEF SpecsOK, StageOK, ReadOK, DoneOK, At
<1>6. AttachmentOK'
  BY <1>1, <1>3 DEF AttachmentOK, At, Kind
<1>7. PlanOK'
  <2> SUFFICES ASSUME w.end = "synced", Unbiased'
               PROVE  ComesTo(obj, Ops(Tail(w.plan)))
    BY <1>3 DEF PlanOK, At, ComesTo, ReadyIs, Kind
  <2>1. obj # Gone /\ ComesTo(Obj, Ops(w.plan)) /\ Carried(op, obj)
    BY <1>1, <1>3 DEF PlanOK, Unbiased
  <2> QED BY <1>1, <2>1 DEF ComesTo, Carried
<1> QED BY <1>4, <1>5, <1>6, <1>7 DEF InSight

\* The same for a call that may fail.
LEMMA PlanCallOK ==
  ASSUME Tracked, NEW op, Doing(op), NEW obj, Call(obj, Done, onError), Obj # Gone,
         ObjectIs(obj),
         Kind(Attachment) => obj.subnets \in {w.seen.subnets, w.spec.subnets},
         ComesTo(Obj, Ops(w.plan)) => Carried(op, obj)
  PROVE  ObjectsOK' /\ SpecsOK' /\ InSight'
<1>1. /\ ~At("idle") /\ w.id \in Ids /\ w.spec.kind \in Kinds /\ DOMAIN ec2 = Ids
      /\ DOMAIN w = WorkerFields
  BY PlanningOn, TrackedIs
<1>2. cr' = cr
  BY DEF Call
<1>3. CASE ec2' = [ec2 EXCEPT ![w.id] = obj] /\ w' = Done
  <2> DEFINE d == Done
  <2>1. d.id = w.id
    BY <1>1 DEF Done, WorkerFields
  <2> HIDE DEF d
  <2>2. Obj' = obj
    BY <1>1, <1>3, <2>1 DEF Obj, d
  <2>3. /\ ec2' \in {ec2, [ec2 EXCEPT ![w.id] = obj]}
        /\ w' \in {Done, [Done EXCEPT !.version = cr.version]}
    BY <1>3
  <2>4. obj # Gone => /\ Obj # Gone /\ ObjectIs(obj)
                      /\ Kind(Attachment) => obj.subnets \in {w.seen.subnets, w.spec.subnets}
    OBVIOUS
  <2>5. obj # Gone /\ ComesTo(Obj, Ops(w.plan)) => Carried(op, obj)
    OBVIOUS
  <2> QED BY <1>2, <2>2, <2>3, <2>4, <2>5, PlanStepOK
<1>4. CASE ec2' \in {ec2, [ec2 EXCEPT ![w.id] = obj]} /\ w' = onError
  <2>1. obj # Gone => ObjectIs(obj)
    OBVIOUS
  <2>2. w' \in {onError, RequeueLater, [w EXCEPT !.pc = "release"]}
    BY <1>4
  <2> QED BY <1>1, <1>2, <1>4, <2>1, <2>2, LastCallOK
<1> QED BY <1>3, <1>4 DEF Call

\* A step that changes nothing but the worker.
LEMMA GoOnOK ==
  ASSUME Tracked, NEW op, Doing(op), Go(Done) \/ Go([Done EXCEPT !.version = cr.version]),
         op \in {"desired", "findPeering"}
  PROVE  ObjectsOK' /\ SpecsOK' /\ InSight'
<1>1. /\ DOMAIN w = WorkerFields /\ AttachmentOK /\ w.spec.kind \in Kinds
      /\ Obj # Gone => ObjectIs(Obj)
  BY PlanningOn
<1>2. cr' = cr /\ ec2' = ec2 /\ w' \in {Done, [Done EXCEPT !.version = cr.version]}
  BY DEF Go
<1>3. Obj' = Obj
  <2> DEFINE d == Done
  <2>1. DOMAIN d = WorkerFields /\ d.id = w.id
    BY <1>1 DEF Done, WorkerFields
  <2> HIDE DEF d
  <2>2. w'.id = w.id
    BY <1>2, <2>1 DEF d, WorkerFields
  <2> QED BY <1>2, <2>2 DEF Obj
<1>4. Carried(op, Obj)
  BY DEF Carried, CallsFor, Watched
<1>5. Kind(Attachment) /\ Obj # Gone => Obj.subnets \in {w.seen.subnets, w.spec.subnets}
  BY <1>1 DEF AttachmentOK, Doing, At
<1> QED BY <1>1, <1>2, <1>3, <1>4, <1>5, PlanStepOK

\* What a call makes of one field of an object, or two.
LEMMA FieldIs ==
  ASSUME NEW obj, NEW f \in DOMAIN obj, NEW x
  PROVE  /\ DOMAIN [obj EXCEPT ![f] = x] = DOMAIN obj /\ [obj EXCEPT ![f] = x][f] = x
         /\ \A g \in DOMAIN obj \ {f} : [obj EXCEPT ![f] = x][g] = obj[g]
OBVIOUS

\* Whatever becomes of its tags, principals or acceptance.
LEMMA ObjectStillIs ==
  ASSUME NEW obj, NEW new, ObjectIs(obj), DOMAIN new = DOMAIN obj,
         \A f \in DOMAIN obj \cap {"live", "state", "connectivity", "subnets"} : new[f] = obj[f]
  PROVE  ObjectIs(new)
<1>1. DOMAIN obj = Fields(cr.spec.kind)
  BY DEF ObjectIs
<1> QED BY <1>1 DEF ObjectIs, Fields, Awaited, Attachment

LEMMA syncTagsOK ==
  ASSUME Tracked, syncTags
  PROVE  ObjectsOK' /\ SpecsOK' /\ InSight'
<1> DEFINE removed == Obj.tags \ (w.seen.tags \ w.spec.tags)
           added   == w.spec.tags \ w.seen.tags
           cut     == [Obj EXCEPT !.tags = removed]
           new     == [Obj EXCEPT !.tags = removed \cup added]
<1>1. Doing("tags")
  BY DEF syncTags
<1>2. /\ ~At("idle") /\ w.id \in Ids /\ w.spec.kind \in Kinds /\ DOMAIN ec2 = Ids
      /\ w.spec.kind = cr.spec.kind /\ AttachmentOK /\ At("plan")
      /\ Obj # Gone => ObjectIs(Obj)
  BY <1>1, PlanningOn, TrackedIs DEF Doing
<1>3. CASE Go(onError)
  <2>1. /\ w' = onError /\ cr' = cr /\ UNCHANGED ec2 /\ cr'.spec.kind = cr.spec.kind
        /\ w'.spec = w.spec /\ w'.pc \in {"release", "requeue", "failed"}
    BY <1>2, <1>3, FailureIs DEF Go
  <2> QED BY <1>2, <2>1, ObjectsStay, OverOK
<1>4. ASSUME Obj.live
      PROVE  /\ Obj # Gone /\ ObjectIs(cut) /\ ObjectIs(new)
             /\ DOMAIN Obj = Fields(w.spec.kind) /\ "tags" \in DOMAIN Obj
             /\ new.tags = removed \cup added
             /\ \A f \in DOMAIN Obj \ {"tags"} : new[f] = Obj[f]
  <2>1. Obj # Gone /\ ObjectIs(Obj)
    BY <1>2, <1>4 DEF Gone
  <2>2. DOMAIN Obj = Fields(w.spec.kind) /\ "tags" \in DOMAIN Obj
    BY <1>2, <2>1 DEF ObjectIs, Fields
  <2> HIDE DEF removed, added
  <2>3. /\ DOMAIN cut = DOMAIN Obj /\ DOMAIN new = DOMAIN Obj /\ new.tags = removed \cup added
        /\ \A f \in DOMAIN Obj \ {"tags"} : cut[f] = Obj[f] /\ new[f] = Obj[f]
    BY <2>2, FieldIs
  <2> HIDE DEF cut, new
  <2> QED BY <2>1, <2>2, <2>3, ObjectStillIs
<1>5. CASE Obj.live /\ Call(new, Done, onError)
  <2>1. ComesTo(Obj, Ops(w.plan)) => Carried("tags", new)
    <3> SUFFICES ASSUME ComesTo(Obj, Ops(w.plan)) PROVE Carried("tags", new)
      OBVIOUS
    <3>1. "tags" \in Watched(w.spec.kind)
      BY DEF Watched, Fields
    <3>2. Obj.tags \in {w.seen.tags, w.spec.tags}
      BY <3>1 DEF ComesTo
    <3>3. removed \cup added = w.spec.tags
      BY <3>2
    <3>4. \A f \in Watched(w.spec.kind) : "tags" \in CallsFor[f] <=> f = "tags"
      BY DEF Watched, CallsFor
    <3>5. /\ Watched(w.spec.kind) \subseteq Fields(w.spec.kind)
          /\ Kind(Peering) => "options" \in Fields(w.spec.kind)
          /\ w.spec.kind \notin PlainKinds => "state" \in Fields(w.spec.kind)
      BY DEF Watched, Fields, Kind
    <3>6. w.spec.kind \in {Service, "nat_gateway", "vpc_endpoint", Peering} =>
            w.spec.kind \notin PlainKinds
      BY KindsDiffer
    <3> HIDE DEF new, removed, added
    <3> QED BY <1>4, <1>5, <3>3, <3>4, <3>5, <3>6 DEF Carried, ReadyIs, Kind
  <2>2. Kind(Attachment) => new.subnets \in {w.seen.subnets, w.spec.subnets}
    <3>1. Kind(Attachment) => "subnets" \in Fields(w.spec.kind)
      BY DEF Fields, Kind
    <3> HIDE DEF new, removed, added
    <3> QED BY <1>2, <1>4, <1>5, <3>1 DEF AttachmentOK, At
  <2> HIDE DEF new
  <2> QED BY <1>1, <1>4, <1>5, <2>1, <2>2, PlanCallOK
<1>6. CASE Obj.live /\ w' = onError /\ cr' = cr /\ ec2' = [ec2 EXCEPT ![w.id].tags = removed]
  <2>1. ec2' = [ec2 EXCEPT ![w.id] = cut]
    BY <1>6 DEF Obj
  <2> HIDE DEF cut
  <2>2. /\ cut # Gone => ObjectIs(cut)
        /\ cr' = cr
        /\ ec2' \in {ec2, [ec2 EXCEPT ![w.id] = cut]}
        /\ w' \in {onError, RequeueLater, [w EXCEPT !.pc = "release"]}
    BY <1>4, <1>6, <2>1
  <2> QED BY <1>2, <2>2, LastCallOK
<1> QED BY <1>3, <1>5, <1>6 DEF syncTags

LEMMA RetireOK ==
  ASSUME Tracked, ~At("idle"), w.id \in Ids, w.spec.kind \in Kinds, Retire
  PROVE  ObjectsOK' /\ SpecsOK' /\ InSight'
<1> DEFINE obj == [Obj EXCEPT !.live = FALSE, !.state = "deleting"]
<1>1. CASE Go(onError)
  <2>1. /\ cr' = cr /\ UNCHANGED ec2 /\ cr'.spec.kind = cr.spec.kind
        /\ w'.spec = w.spec /\ w'.pc \in {"release", "requeue", "failed"}
    BY <1>1, FailureIs DEF Go
  <2> QED BY <2>1, ObjectsStay, OverOK
<1>2. CASE Obj # Gone /\ Call(obj, [w EXCEPT !.pc = "release"], onError)
  <2>1. ObjectIs(Obj)
    BY <1>2 DEF Tracked, ObjectsOK, Obj
  <2>2. DOMAIN Obj = Fields(cr.spec.kind) /\ "live" \in DOMAIN Obj
    BY <2>1 DEF ObjectIs, Fields
  <2>3. /\ DOMAIN obj = DOMAIN Obj /\ obj.live = FALSE
        /\ "state" \in DOMAIN Obj => obj.state = "deleting"
        /\ \A f \in DOMAIN Obj \ {"live", "state"} : obj[f] = Obj[f]
    BY <2>2
  <2> HIDE DEF obj
  <2>4. ObjectIs(obj)
    BY <2>1, <2>2, <2>3 DEF ObjectIs, Fields, Awaited, Attachment
  <2>5. /\ cr' = cr /\ ec2' \in {ec2, [ec2 EXCEPT ![w.id] = obj]}
        /\ w' \in {onError, RequeueLater, [w EXCEPT !.pc = "release"]}
        /\ obj # Gone => ObjectIs(obj)
    BY <1>2, <2>4 DEF Call
  <2> QED BY <2>5, LastCallOK
<1> QED BY <1>1, <1>2 DEF Retire

----------------------------------------------------------------------------
(* The runtime, and the rest of the world.                                 *)

\* A pass that begins, goes on to create or is dropped.
LEMMA NewPassOK ==
  ASSUME Tracked, UNCHANGED ec2, cr'.spec \in Specs, cr'.spec.kind = cr.spec.kind,
         w'.pc \in {"idle", "describe", "create"}, w'.pc # "idle" => w'.spec \in Specs,
         w'.pc = "create" => w'.spec.kind \in Kinds
  PROVE  ObjectsOK' /\ SpecsOK' /\ InSight'
BY ObjectsStay, NothingInSight DEF SpecsOK, At

LEMMA finishOK ==
  ASSUME Tracked, finish
  PROVE  ObjectsOK' /\ SpecsOK' /\ InSight'
<1>1. /\ At("plan") /\ w.plan = <<>> /\ cr' = cr /\ ec2' = ec2 /\ ~At("idle") /\ w.pc \in Working
  BY DEF finish, Go, At, Working
<1>2. /\ DOMAIN w = WorkerFields /\ w.id \in Ids /\ w.end \in Ends /\ w.spec.kind \in Kinds
      /\ w.mode = "update" /\ SpecsOK /\ PlanOK /\ w.spec.kind = cr.spec.kind
  BY <1>1, TrackedIs, WorkerIs DEF Tracked, InSight, StageOK, At
<1> DEFINE e == w.end
<1>3. /\ w'.pc = e /\ w'.mode = "update" /\ w'.id = w.id /\ w'.spec = w.spec
      /\ w'.blind = w.blind /\ w'.interfered = w.interfered
  <2>1. w' = Over(e)
    BY DEF finish, Go
  <2> HIDE DEF e
  <2> QED BY <1>2, <2>1 DEF Over, WorkerFields
<1>4. ObjectsOK' /\ SpecsOK' /\ StageOK'
  BY <1>1, <1>2, <1>3, ObjectsStay DEF SpecsOK, StageOK, At, Ends
<1>5. ReadOK' /\ AttachmentOK' /\ PlanOK'
  BY <1>2, <1>3 DEF ReadOK, AttachmentOK, PlanOK, At, Ends
<1>6. DoneOK'
  <2> SUFFICES ASSUME e = "synced", Unbiased'
               PROVE  ComesTo(Obj, {})'
    BY <1>3 DEF DoneOK, At
  <2> DEFINE none == Ops(w.plan)
  <2>1. none = {}
    BY <1>1 DEF Ops
  <2>2. ComesTo(Obj, none) /\ Obj' = Obj
    BY <1>1, <1>2, <1>3 DEF PlanOK, Unbiased, Obj
  <2> HIDE DEF none
  <2>3. \A f \in Watched(w.spec.kind) : Obj[f] = w.spec[f]
    BY <2>1, <2>2 DEF ComesTo
  <2> QED BY <1>3, <2>1, <2>2, <2>3 DEF ComesTo, ReadyIs, Kind
<1> QED BY <1>4, <1>5, <1>6 DEF InSight

LEMMA RuntimeOK ==
  ASSUME Tracked, RuntimeStep
  PROVE  ObjectsOK' /\ SpecsOK' /\ InSight'
<1>1. /\ DOMAIN w = WorkerFields /\ DOMAIN cr = CRFields /\ SpecsOK /\ StageOK
      /\ ~At("idle") => w.spec.kind = cr.spec.kind
  BY TrackedIs DEF Tracked, InSight
<1>2. CASE Begin
  <2>1. UNCHANGED <<cr, ec2>> /\ w'.pc = "describe" /\ w'.spec = cr.spec
    BY <1>2 DEF Begin, Go, IdleWorker
  <2> QED BY <1>1, <2>1, NewPassOK DEF SpecsOK
<1>3. CASE setResourceManaged
  <2>1. /\ ec2' = ec2 /\ cr'.spec = cr.spec
        /\ w'.pc = "idle" \/ (w'.pc = "create" /\ w'.spec = w.spec)
    BY <1>1, <1>3, IdleIs DEF setResourceManaged, CRFields, WorkerFields
  <2> QED BY <1>1, <1>3, <2>1, NewPassOK DEF SpecsOK, StageOK, setResourceManaged, At
<1>4. CASE syncTags
  BY <1>4, syncTagsOK
<1>5. CASE returnDesired
  BY <1>5, GoOnOK DEF returnDesired
<1>6. CASE finish
  BY <1>6, finishOK
<1>7. CASE setResourceUnmanaged
  <2>1. ec2' = ec2 /\ cr'.spec = cr.spec /\ w'.pc = "idle"
    BY <1>1, <1>7, IdleIs DEF setResourceUnmanaged, CRFields
  <2> QED BY <1>1, <2>1, NewPassOK DEF SpecsOK
<1>8. CASE PatchStatus
  <2>1. ec2' = ec2 /\ cr'.spec = cr.spec /\ w'.pc = "idle"
    BY <1>1, <1>8, IdleIs DEF PatchStatus, CRFields
  <2> QED BY <1>1, <2>1, NewPassOK DEF SpecsOK
<1> QED BY <1>2, <1>3, <1>4, <1>5, <1>6, <1>7, <1>8 DEF RuntimeStep

LEMMA WorldOK ==
  ASSUME Tracked, WorldStep \/ UNCHANGED vars
  PROVE  ObjectsOK' /\ SpecsOK' /\ InSight'
<1>1. DOMAIN cr = CRFields /\ SpecsOK
  BY TrackedIs DEF Tracked
<1>2. CASE Crash
  <2>1. UNCHANGED <<cr, ec2>> /\ w'.pc = "idle"
    BY <1>2, IdleIs DEF Crash, Unread
  <2> QED BY <1>1, <2>1, NewPassOK DEF SpecsOK
<1>3. CASE EditSpec \/ DeleteCR \/ RecreateCR \/ UNCHANGED vars
  <2>1. UNCHANGED <<ec2, w>> /\ cr'.spec \in Specs /\ cr'.spec.kind = cr.spec.kind
    <3>1. CASE EditSpec
      BY <1>1, <3>1 DEF EditSpec, CRFields
    <3>2. CASE DeleteCR
      BY <1>1, <3>2 DEF DeleteCR, CRFields, SpecsOK
    <3>3. CASE RecreateCR
      BY <3>3 DEF RecreateCR, NewCR
    <3>4. CASE UNCHANGED vars
      BY <1>1, <3>4 DEF vars, SpecsOK
    <3> QED BY <1>3, <3>1, <3>2, <3>3, <3>4
  <2>2. ObjectsOK' /\ SpecsOK'
    BY <1>1, <2>1, ObjectsStay DEF SpecsOK, At
  <2>3. InSight'
    BY <2>1 DEF Tracked, InSight, StageOK, ReadOK, AttachmentOK, PlanOK, DoneOK, ComesTo, ReadyIs,
                Unbiased, Awaited, At, Kind, Obj
  <2> QED BY <2>2, <2>3
<1> QED BY <1>2, <1>3 DEF WorldStep

LEMMA StateChangeOK ==
  ASSUME Tracked, Awaited, NEW i \in Ids, NEW to, UNCHANGED <<cr, w>>, ec2[i] # Gone,
         ec2' = [ec2 EXCEPT ![i] = [ec2[i] EXCEPT !.state = to]],
         ec2[i].state # "available",
         ~Asked(ec2[i].state) => ~Asked(to), ec2[i].state # "pending" => to # "pending",
         ec2[i].state \in {"deleting", "deleted"} => to \in {"deleting", "deleted"}
  PROVE  ObjectsOK' /\ SpecsOK' /\ InSight'
<1> DEFINE obj == [ec2[i] EXCEPT !.state = to]
<1>1. ObjectIs(ec2[i])
  BY DEF Tracked, ObjectsOK
<1>2. DOMAIN ec2[i] = Fields(cr.spec.kind) /\ "state" \in DOMAIN ec2[i]
  BY <1>1 DEF ObjectIs, Fields, Awaited
<1>3. /\ DOMAIN obj = DOMAIN ec2[i] /\ obj.state = to
      /\ \A f \in DOMAIN ec2[i] \ {"state"} : obj[f] = ec2[i][f]
  BY <1>2
<1> HIDE DEF obj
<1>4. ObjectIs(obj)
  BY <1>1, <1>2, <1>3 DEF ObjectIs, Fields, Attachment
<1>5. obj # Gone =>
        /\ ObjectIs(obj) /\ \A f \in Fields(cr.spec.kind) \ {"state"} : obj[f] = ec2[i][f]
        /\ ec2[i].state = "available" => obj.state = "available"
        /\ ~Asked(ec2[i].state) => ~Asked(obj.state)
        /\ ec2[i].state # "pending" => obj.state # "pending"
  BY <1>2, <1>3, <1>4
<1> QED BY <1>5, BackgroundOK DEF obj

LEMMA SettleOK ==
  ASSUME Tracked, NEW i \in Ids, Settle(i)
  PROVE  ObjectsOK' /\ SpecsOK' /\ InSight'
<1>0. Awaited
  BY DEF Settle
<1>1. ASSUME NEW from, NEW to, Becomes(i, from, to), from # "available",
             ~Asked(from) => ~Asked(to), from # "pending" => to # "pending",
             from \in {"deleting", "deleted"} => to \in {"deleting", "deleted"}
      PROVE  ObjectsOK' /\ SpecsOK' /\ InSight'
  BY <1>0, <1>1, StateChangeOK DEF Becomes, Background
<1>2. CASE ec2[i] # Gone /\ Background(i, Gone)
  <2>1. UNCHANGED <<cr, w>> /\ ec2' = [ec2 EXCEPT ![i] = Gone]
    BY <1>2 DEF Background
  <2>2. Gone # Gone =>
          /\ ObjectIs(Gone) /\ \A f \in Fields(cr.spec.kind) \ {"state"} : Gone[f] = ec2[i][f]
          /\ ec2[i].state = "available" => Gone.state = "available"
          /\ ~Asked(ec2[i].state) => ~Asked(Gone.state)
          /\ ec2[i].state # "pending" => Gone.state # "pending"
    OBVIOUS
  <2> QED BY <1>0, <1>2, <2>1, <2>2, BackgroundOK
<1>3. CASE AwaitedSettles(i)
  <2>1. /\ ~Asked("deleting") /\ ~Asked("deleted") /\ ~Asked("available")
    BY DEF Asked
  <2> QED BY <1>1, <1>2, <1>3, <2>1 DEF AwaitedSettles
<1>4. CASE PeeringSettles(i)
  <2>1. ~Asked("active") /\ Asked("initiating-request")
    BY DEF Asked
  <2> QED BY <1>1, <1>4, <2>1 DEF PeeringSettles
<1> QED BY <1>3, <1>4 DEF Settle

LEMMA FailsOK ==
  ASSUME Tracked, Fails
  PROVE  ObjectsOK' /\ SpecsOK' /\ InSight'
<1>1. PICK i \in Live : AwaitedFails(i)
  BY DEF Fails
<1>2. /\ ec2[i] # Gone /\ ec2[i].state \in {"pending", "initiating-request"}
      /\ ec2' = [ec2 EXCEPT ![i] = [ec2[i] EXCEPT !.state = "failed"]] /\ UNCHANGED <<cr, w>>
      /\ i \in Ids /\ Awaited
  BY <1>1 DEF AwaitedFails, Fails, Live
<1>3. ~Asked("failed")
  BY DEF Asked
<1> QED BY <1>2, <1>3, StateChangeOK

LEMMA DriftOK ==
  ASSUME Tracked, Drift
  PROVE  ObjectsOK' /\ SpecsOK' /\ InSight'
<1>1. PICK i \in Live : \/ Awaited /\ AwaitedDrift(i)
                        \/ ~Awaited /\ PlainObjectDrift(i)
                        \/ cr.spec.kind = "vpc_peering_connection" /\ PeeringDrift(i)
                        \/ cr.spec.kind = "vpc_endpoint_service_configuration" /\ ServiceDrift(i)
  BY DEF Drift
<1>2. /\ i \in Ids /\ ec2[i].live /\ ec2[i] # Gone /\ ObjectIs(ec2[i])
  BY DEF Live, Gone, Tracked, ObjectsOK
<1>3. /\ DOMAIN ec2[i] = Fields(cr.spec.kind) /\ {"live", "tags"} \subseteq DOMAIN ec2[i]
      /\ cr.spec.kind = Attachment => "subnets" \in DOMAIN ec2[i]
  BY <1>2 DEF ObjectIs, Fields
<1>4. ASSUME NEW obj, ObjectIs(obj), OtherClient(i, obj),
             "subnets" \in DOMAIN ec2[i] => obj.subnets = ec2[i].subnets
      PROVE  ObjectsOK' /\ SpecsOK' /\ InSight'
  <2>1. obj # Gone => /\ ObjectIs(obj)
                      /\ cr.spec.kind = Attachment => obj.subnets = ec2[i].subnets
    BY <1>3, <1>4
  <2> QED BY <1>2, <1>4, <2>1, InterferedOK
<1>5. CASE AwaitedDrift(i)
  <2> DEFINE obj == [ec2[i] EXCEPT !.live = FALSE, !.state = "deleting"]
  <2>1. /\ DOMAIN obj = DOMAIN ec2[i]
        /\ "state" \in DOMAIN obj => obj.state = "deleting"
        /\ \A f \in DOMAIN ec2[i] \ {"live", "state"} : obj[f] = ec2[i][f]
    BY <1>3
  <2>2. OtherClient(i, obj)
    BY <1>5 DEF AwaitedDrift
  <2> HIDE DEF obj
  <2>3. ObjectIs(obj)
    BY <1>2, <1>3, <2>1 DEF ObjectIs, Fields, Awaited, Attachment
  <2> QED BY <1>4, <2>1, <2>2, <2>3
<1>6. CASE PlainObjectDrift(i)
  <2> DEFINE obj == [ec2[i] EXCEPT !.tags = {}]
  <2>1. /\ DOMAIN obj = DOMAIN ec2[i]
        /\ \A f \in DOMAIN ec2[i] \ {"tags"} : obj[f] = ec2[i][f]
    BY <1>3
  <2>2. OtherClient(i, obj)
    BY <1>6 DEF PlainObjectDrift
  <2> HIDE DEF obj
  <2>3. ObjectIs(obj)
    BY <1>2, <2>1, ObjectStillIs
  <2> QED BY <1>4, <2>1, <2>2, <2>3
<1>7. CASE cr.spec.kind = Peering /\ PeeringDrift(i)
  <2> DEFINE obj == [ec2[i] EXCEPT !.state = "provisioning"]
  <2>1. /\ DOMAIN obj = DOMAIN ec2[i]
        /\ \A f \in DOMAIN ec2[i] \ {"state"} : obj[f] = ec2[i][f]
    BY <1>3
  <2>2. OtherClient(i, obj)
    BY <1>7 DEF PeeringDrift
  <2> HIDE DEF obj
  <2>3. ObjectIs(obj)
    BY <1>2, <1>3, <1>7, <2>1 DEF ObjectIs, Attachment, Peering
  <2> QED BY <1>4, <2>1, <2>2, <2>3
<1>8. CASE ServiceDrift(i)
  <2> DEFINE obj == [ec2[i] EXCEPT !.principals = {}]
  <2>1. /\ DOMAIN obj = DOMAIN ec2[i]
        /\ \A f \in DOMAIN ec2[i] \ {"principals"} : obj[f] = ec2[i][f]
    BY <1>3
  <2>2. OtherClient(i, obj)
    BY <1>8 DEF ServiceDrift
  <2> HIDE DEF obj
  <2>3. ObjectIs(obj)
    BY <1>2, <2>1, ObjectStillIs
  <2> QED BY <1>4, <2>1, <2>2, <2>3
<1> QED BY <1>1, <1>5, <1>6, <1>7, <1>8 DEF Peering

----------------------------------------------------------------------------
(* The kinds, one by one.                                                  *)

\* What sdkFind hands on of the object.
LEMMA HandedOn ==
  ASSUME Tracked, At("describe"), NEW ready \in BOOLEAN, NEW e
  PROVE  \A r \in {Found, [Found EXCEPT !.end = e], ReportReady(Found, ready)} :
           /\ r.pc = "found" /\ r.spec = w.spec /\ r.mode = w.mode /\ r.id = w.id
           /\ r.seen = Obj /\ [r EXCEPT !.pc = "principals"].pc = "principals"
           /\ \A f \in WorkerFields \ {"pc"} : [r EXCEPT !.pc = "principals"][f] = r[f]
           /\ (r = [Found EXCEPT !.end = e] => r.end = e)
           /\ (r = ReportReady(Found, ready) /\ r.end = "synced" => ready)
<1>1. DOMAIN w = WorkerFields
  BY TrackedIs
<1> DEFINE f == Found
<1>2. DOMAIN f = WorkerFields /\ f.mode = w.mode /\ f.spec = w.spec /\ f.id = w.id
      /\ f.pc = "found" /\ f.seen = Obj
  BY <1>1 DEF Found, WorkerFields
<1> HIDE DEF f
<1> DEFINE g == [f EXCEPT !.end = e]
           h == ReportReady(f, ready)
<1>3. /\ DOMAIN g = WorkerFields /\ g.mode = w.mode /\ g.spec = w.spec /\ g.id = w.id
      /\ g.pc = "found" /\ g.seen = Obj /\ g.end = e
  BY <1>2 DEF WorkerFields
<1>4. /\ DOMAIN h = WorkerFields /\ h.mode = w.mode /\ h.spec = w.spec /\ h.id = w.id
      /\ h.pc = "found" /\ h.seen = Obj /\ (h.end = "synced" => ready)
  BY <1>2 DEF ReportReady, WorkerFields
<1> HIDE DEF g, h
<1>5. ASSUME NEW r \in {f, g, h}
      PROVE  /\ r.pc = "found" /\ r.spec = w.spec /\ r.mode = w.mode /\ r.id = w.id
             /\ r.seen = Obj /\ [r EXCEPT !.pc = "principals"].pc = "principals"
             /\ \A x \in WorkerFields \ {"pc"} : [r EXCEPT !.pc = "principals"][x] = r[x]
             /\ (r = g => r.end = e) /\ (r = h /\ r.end = "synced" => ready)
  <2>1. DOMAIN r = WorkerFields /\ "pc" \in DOMAIN r
    BY <1>2, <1>3, <1>4 DEF WorkerFields
  <2> QED BY <1>2, <1>3, <1>4, <2>1
<1> QED BY <1>5 DEF f, g, h

\* An update that has nothing but the tags to see to.
LEMMA TagsOnlyOK ==
  ASSUME Tracked, Updating, Watched(w.spec.kind) = {"tags"}, ~Kind(Peering), NEW c \in BOOLEAN,
         Go(Plan(When(c, "tags", {}))), w.spec.tags # w.seen.tags => c
  PROVE  ObjectsOK' /\ SpecsOK' /\ InSight'
<1> DEFINE calls == When(c, "tags", {})
           next  == Plan(calls)
<1>1. DOMAIN w = WorkerFields /\ ReadOK
  BY UpdatingIs
<1>2. IsPlan(calls, {"tags"}) /\ {"tags"} \subseteq UpdateOps(w.spec.kind)
  BY WhenIsPlan DEF UpdateOps
<1>3. Ops(calls) = IF c THEN {"tags"} ELSE {}
  BY OpsOfWhen
<1>4. next.end = w.end
  BY <1>1 DEF Plan, WorkerFields
<1> HIDE DEF calls
<1>5. IsPlan(calls, UpdateOps(w.spec.kind))
  BY <1>2, SubPlan
<1>6. ASSUME next.end = "synced", Unbiased PROVE ComesTo(Obj, Ops(calls))
  <2>1. ReadyIs(w.seen.state)
    BY <1>1, <1>4, <1>6 DEF ReadOK, Updating, At
  <2>2. \A f \in Watched(w.spec.kind) : w.spec[f] # w.seen[f] => CallsFor[f] \cap Ops(calls) # {}
    BY <1>3 DEF CallsFor
  <2> QED BY <1>6, <2>1, <2>2, UpdateComes
<1>7. next \in {Plan(calls), [Plan(calls) EXCEPT !.end = next.end]} /\ Go(next)
  BY DEF calls
<1> HIDE DEF next
<1> QED BY <1>5, <1>6, <1>7, UpdateOK

\* A pass that has an object in hand.
LEMMA DeletingIs ==
  ASSUME Tracked, Deleting
  PROVE  ~At("idle") /\ w.id \in Ids /\ w.spec.kind \in Kinds /\ DOMAIN ec2 = Ids
BY TrackedIs, WorkerIs DEF Tracked, InSight, StageOK, Deleting, At, Working

LEMMA NATGatewayOK ==
  ASSUME Tracked, FixedConnectivity,
         \/ sdkFindNATGateway \/ sdkCreateNATGateway \/ customUpdateNATGateway
         \/ sdkDeleteNATGateway
  PROVE  ObjectsOK' /\ SpecsOK' /\ InSight'
<1>0. w.spec.kind \in Kinds /\ Kind("nat_gateway") /\ w.spec.kind = "nat_gateway"
  BY DEF sdkFindNATGateway, sdkCreateNATGateway, customUpdateNATGateway, sdkDeleteNATGateway,
         Kind, Kinds
<1>1. CASE sdkFindNATGateway
  <2> DEFINE ready == Obj.state = "available"
             found == CASE Obj.state = "deleted" -> NotFound
                        [] Obj.state = "pending" -> RequeueLater
                        [] OTHER                 -> ReportReady(Found, ready)
  <2>1. At("describe") /\ Describe(found, onError) /\ ready \in BOOLEAN
    BY <1>1 DEF sdkFindNATGateway, Describe
  <2>2. found \in {NotFound, RequeueLater, ReportReady(Found, ready)}
    <3>1. CASE Obj.state = "deleted"
      BY <3>1
    <3>2. CASE Obj.state = "pending"
      BY <3>2
    <3>3. CASE Obj.state \notin {"deleted", "pending"}
      BY <3>3
    <3> QED BY <3>1, <3>2, <3>3
  <2>3. ready => ReadyIs(Obj.state)
    BY DEF ReadyIs
  <2>4. ~Kind(Peering)
    BY <1>0 DEF Kind, Peering
  <2> HIDE DEF found, ready
  <2> DEFINE r == ReportReady(Found, ready)
  <2>5. /\ r.pc = "found" /\ r.spec = w.spec /\ r.mode = w.mode /\ r.id = w.id
        /\ r.seen = Obj /\ (r.end = "synced" => ready)
    BY <2>1, HandedOn
  <2> HIDE DEF r
  <2>6. \/ found \in {NotFound, RequeueLater}
        \/ /\ found.pc = "found" \/ (found.pc = "principals" /\ Kind(Service))
           /\ found.spec = w.spec /\ found.mode = w.mode /\ found.id = w.id
           /\ found.seen = Obj /\ (found.end = "synced" => ReadyIs(Obj.state))
           /\ Kind(Peering) => Obj.state # "initiating-request"
    BY <2>2, <2>3, <2>4, <2>5 DEF r
  <2> QED BY <1>0, <2>1, <2>6, DescribeOK
<1>2. CASE sdkCreateNATGateway
  <2>1. /\ At("create") /\ ~At("idle") /\ w.spec \in Specs /\ w.spec.kind = cr.spec.kind
        /\ DOMAIN w = WorkerFields
    BY <1>2, TrackedIs DEF Tracked, SpecsOK, sdkCreateNATGateway, At
  <2>2. CASE Go(CreateFailed)
    <3>1. CreateFailed = onError
      BY <2>1, TrackedIs, WorkerIs DEF onError, At
    <3>2. /\ cr' = cr /\ UNCHANGED ec2 /\ cr'.spec.kind = cr.spec.kind
          /\ w'.spec = w.spec /\ w'.pc \in {"release", "requeue", "failed"}
      BY <2>1, <2>2, <3>1, FailureIs DEF Go
    <3> QED BY <1>0, <2>1, <3>2, ObjectsStay, OverOK
  <2>3. CASE /\ CreateObject(newNATGateway, [w EXCEPT !.pc = "requeue"])
             /\ ~(w.spec.availability = "regional" /\ w.spec.connectivity = "private")
    <3> DEFINE obj == newNATGateway
    <3>1. /\ DOMAIN obj = {"live", "state", "tags", "connectivity"} /\ obj.live = TRUE
          /\ obj.connectivity = IF w.spec.availability = "regional" THEN "public"
                                ELSE w.spec.connectivity
      BY DEF newNATGateway
    <3> HIDE DEF obj
    <3>2. /\ w.spec.connectivity \in {"public", "private"}
          /\ \A s \in Specs : s.kind = "nat_gateway" => s.connectivity = w.spec.connectivity
      BY <1>0, <2>1 DEF FixedConnectivity
    <3>3. ObjectIs(obj)
      BY <1>0, <2>1, <2>3, <3>1, <3>2 DEF ObjectIs, Fields, PlainKinds, Attachment, Peering, Service
    <3> QED BY <2>1, <2>3, <3>3, CreateOK DEF obj
  <2> QED BY <1>2, <2>2, <2>3 DEF sdkCreateNATGateway, RequeueLater
<1>3. CASE customUpdateNATGateway
  <2> DEFINE c == "tags" \in newNATGatewayDelta
  <2>1. /\ Updating /\ Go(Plan(When(c, "tags", {}))) /\ c \in BOOLEAN
        /\ w.spec.tags # w.seen.tags => c
    BY <1>3 DEF customUpdateNATGateway, newNATGatewayDelta, DifferentAt
  <2>2. Watched(w.spec.kind) = {"tags"} /\ ~Kind(Peering)
    BY <1>0 DEF Watched, Fields, Kind, PlainKinds, Attachment, Peering, Service
  <2> HIDE DEF c
  <2> QED BY <2>1, <2>2, TagsOnlyOK
<1>4. CASE sdkDeleteNATGateway
  BY <1>4, DeletingIs, RetireOK DEF sdkDeleteNATGateway
<1> QED BY <1>1, <1>2, <1>3, <1>4

LEMMA TransitGatewayOK ==
  ASSUME Tracked,
         \/ sdkFindTransitGateway \/ sdkCreateTransitGateway \/ customUpdateTransitGateway
         \/ sdkDeleteTransitGateway
  PROVE  ObjectsOK' /\ SpecsOK' /\ InSight'
<1>0. w.spec.kind \in Kinds /\ Kind("transit_gateway") /\ w.spec.kind = "transit_gateway"
  BY DEF sdkFindTransitGateway, sdkCreateTransitGateway, customUpdateTransitGateway,
         sdkDeleteTransitGateway, Kind, Kinds
<1>1. CASE sdkFindTransitGateway
  <2> DEFINE found == CASE Obj.state = "deleted" -> NotFound
                        [] Obj.state = "pending" -> RequeueLater
                        [] OTHER                 -> Found
  <2>1. At("describe") /\ Describe(found, onError)
    BY <1>1 DEF sdkFindTransitGateway, Describe
  <2>2. found \in {NotFound, RequeueLater, Found}
    <3>1. CASE Obj.state = "deleted"
      BY <3>1
    <3>2. CASE Obj.state = "pending"
      BY <3>2
    <3>3. CASE Obj.state \notin {"deleted", "pending"}
      BY <3>3
    <3> QED BY <3>1, <3>2, <3>3
  <2>3. ReadyIs(Obj.state) /\ ~Kind(Peering)
    BY <1>0 DEF ReadyIs, Kind, Peering, Service
  <2> HIDE DEF found
  <2>4. \/ found \in {NotFound, RequeueLater}
        \/ /\ found.pc = "found" \/ (found.pc = "principals" /\ Kind(Service))
           /\ found.spec = w.spec /\ found.mode = w.mode /\ found.id = w.id
           /\ found.seen = Obj /\ (found.end = "synced" => ReadyIs(Obj.state))
           /\ Kind(Peering) => Obj.state # "initiating-request"
    BY <2>1, <2>2, <2>3, HandedOn
  <2> QED BY <1>0, <2>1, <2>4, DescribeOK
<1>2. CASE sdkCreateTransitGateway
  <2>1. At("create") /\ w.spec.kind = cr.spec.kind
    BY <1>2, TrackedIs DEF sdkCreateTransitGateway, At
  <2>2. ObjectIs(newTransitGateway)
    BY <1>0, <2>1 DEF ObjectIs, newTransitGateway, Fields, PlainKinds, Attachment, Peering, Service
  <2> QED BY <1>2, <2>1, <2>2, CreateOK DEF sdkCreateTransitGateway
<1>3. CASE customUpdateTransitGateway
  <2> DEFINE c == "tags" \in newTransitGatewayDelta
  <2>1. /\ Updating /\ Go(Plan(When(c, "tags", {}))) /\ c \in BOOLEAN
        /\ w.spec.tags # w.seen.tags => c
    BY <1>3 DEF customUpdateTransitGateway, newTransitGatewayDelta, DifferentAt
  <2>2. Watched(w.spec.kind) = {"tags"} /\ ~Kind(Peering)
    BY <1>0 DEF Watched, Fields, Kind, PlainKinds, Attachment, Peering, Service
  <2> HIDE DEF c
  <2> QED BY <2>1, <2>2, TagsOnlyOK
<1>4. CASE sdkDeleteTransitGateway
  BY <1>4, DeletingIs, RetireOK DEF sdkDeleteTransitGateway
<1> QED BY <1>1, <1>2, <1>3, <1>4

LEMMA PlainObjectOK ==
  ASSUME Tracked, PlainObjectStep
  PROVE  ObjectsOK' /\ SpecsOK' /\ InSight'
<1>0. w.spec.kind \in PlainKinds /\ w.spec.kind \in Kinds
  BY DEF PlainObjectStep, sdkFindPlain, sdkCreatePlain, sdkCreateNoFlowLog, customUpdatePlain,
         sdkDeletePlain, Plain, Kind, Kinds, PlainKinds
<1>1. w.spec.kind \notin {"nat_gateway", Attachment, Peering, Service, "vpc_endpoint"}
  BY <1>0, KindsDiffer
<1>2. CASE sdkFindPlain
  <2>1. Describe(Found, onError) /\ At("describe")
    BY <1>2 DEF sdkFindPlain, Describe
  <2>2. ReadyIs(Obj.state) /\ ~Kind(Peering)
    BY <1>1 DEF ReadyIs, Kind
  <2>3. \/ Found \in {NotFound, RequeueLater}
        \/ /\ Found.pc = "found" \/ (Found.pc = "principals" /\ Kind(Service))
           /\ Found.spec = w.spec /\ Found.mode = w.mode /\ Found.id = w.id
           /\ Found.seen = Obj /\ (Found.end = "synced" => ReadyIs(Obj.state))
           /\ Kind(Peering) => Obj.state # "initiating-request"
    BY <2>1, <2>2, HandedOn
  <2> QED BY <1>0, <2>1, <2>3, DescribeOK
<1>3. CASE sdkCreatePlain
  <2> DEFINE obj == [live |-> TRUE, tags |-> w.spec.tags]
  <2>1. At("create") /\ w.spec.kind = cr.spec.kind /\ CreateObject(obj, [w EXCEPT !.pc = "synced"])
    BY <1>3, TrackedIs DEF sdkCreatePlain, At
  <2>2. DOMAIN obj = {"live", "tags"}
    OBVIOUS
  <2> HIDE DEF obj
  <2>3. ObjectIs(obj)
    BY <1>0, <1>1, <2>1, <2>2 DEF ObjectIs, Fields, Awaited
  <2> QED BY <2>1, <2>3, CreateOK
<1>4. CASE sdkCreateNoFlowLog
  <2> DEFINE f == CreateFailed
  <2>1. At("create") /\ ~At("idle") /\ DOMAIN w = WorkerFields /\ w.mode = "create"
    BY <1>4, TrackedIs, WorkerIs DEF sdkCreateNoFlowLog, At
  <2>2. f = onError /\ f.spec = w.spec /\ f.mode = "create" /\ DOMAIN f = WorkerFields
    BY <2>1, TrackedIs, WorkersKept, FailureIs DEF onError, Kept
  <2> HIDE DEF f
  <2>3. UNCHANGED <<cr, ec2>> /\ w' = [f EXCEPT !.pc = "synced"]
    BY <1>4 DEF sdkCreateNoFlowLog, Unread, f
  <2>4. w'.pc = "synced" /\ w'.mode = "create" /\ w'.spec = w.spec
    BY <2>2, <2>3 DEF WorkerFields
  <2> QED BY <1>0, <2>1, <2>3, <2>4, ObjectsStay, NothingInSight DEF Tracked, SpecsOK, At
<1>5. CASE customUpdatePlain
  <2> DEFINE c == DifferentAt({"tags"}) # {}
  <2>1. /\ Updating /\ Go(Plan(When(c, "tags", {}))) /\ c \in BOOLEAN
        /\ w.spec.tags # w.seen.tags => c
    BY <1>5 DEF customUpdatePlain, DifferentAt
  <2>2. Watched(w.spec.kind) = {"tags"} /\ ~Kind(Peering)
    BY <1>0, <1>1 DEF Watched, Fields, Kind
  <2> HIDE DEF c
  <2> QED BY <2>1, <2>2, TagsOnlyOK
<1>6. CASE sdkDeletePlain
  <2>1. Deleting /\ Delete(TRUE)
    BY <1>6 DEF sdkDeletePlain
  <2>2. ~At("idle") /\ w.id \in Ids /\ w.spec.kind \in Kinds
    BY <2>1, DeletingIs
  <2>3. CASE Go(onError)
    <3>1. /\ cr' = cr /\ UNCHANGED ec2 /\ cr'.spec.kind = cr.spec.kind
          /\ w'.spec = w.spec /\ w'.pc \in {"release", "requeue", "failed"}
      BY <2>2, <2>3, FailureIs DEF Go
    <3> QED BY <2>2, <3>1, ObjectsStay, OverOK
  <2>4. CASE Call(Gone, [w EXCEPT !.pc = "release"], onError)
    <3>1. /\ cr' = cr /\ ec2' \in {ec2, [ec2 EXCEPT ![w.id] = Gone]}
          /\ w' \in {onError, RequeueLater, [w EXCEPT !.pc = "release"]}
          /\ Gone # Gone => ObjectIs(Gone)
      BY <2>4 DEF Call
    <3> QED BY <2>2, <3>1, LastCallOK
  <2> QED BY <2>1, <2>3, <2>4 DEF Delete
<1> QED BY <1>2, <1>3, <1>4, <1>5, <1>6 DEF PlainObjectStep

\* The operation that a plan is at is one of its kind's.
LEMMA DoingOf ==
  ASSUME Tracked, NEW op, Doing(op)
  PROVE  /\ op \in UpdateOps(w.spec.kind) /\ At("plan") /\ w.pc \in {"found", "plan"}
         /\ Obj # Gone => DOMAIN Obj = Fields(w.spec.kind)
<1>1. /\ IsPlan(w.plan, UpdateOps(w.spec.kind)) /\ w.plan # <<>> /\ Head(w.plan)[1] = op
      /\ At("plan") /\ w.spec.kind = cr.spec.kind
      /\ Obj # Gone => ObjectIs(Obj)
  BY PlanningOn DEF Doing
<1>2. op \in UpdateOps(w.spec.kind)
  BY <1>1, TailIsRest, PlansAreSequences
<1> QED BY <1>1, <1>2 DEF At, ObjectIs

\* A call that is refused.
LEMMA RefusedOK ==
  ASSUME Tracked, ~At("idle"), w.spec.kind \in Kinds, Go(onError) \/ Go(RequeueLater)
  PROVE  ObjectsOK' /\ SpecsOK' /\ InSight'
<1>1. RequeueLater.spec = w.spec /\ RequeueLater.pc = "requeue"
  BY TrackedIs DEF RequeueLater, WorkerFields
<1>2. /\ cr' = cr /\ UNCHANGED ec2 /\ cr'.spec.kind = cr.spec.kind
      /\ w'.spec = w.spec /\ w'.pc \in {"release", "requeue", "failed"}
  BY <1>1, FailureIs DEF Go
<1> QED BY <1>2, ObjectsStay, OverOK

LEMMA AttachmentUpdateOK ==
  ASSUME Tracked, sdkUpdateAttachment
  PROVE  ObjectsOK' /\ SpecsOK' /\ InSight'
<1> DEFINE tags    == "tags" \in newAttachmentDelta
           subnets == "subnets" \in newAttachmentDelta
           ready   == w.seen.state = "available"
           both    == subnets /\ ready
           s       == When(tags, "tags", {})
           t       == When(both, "modifyAttachment", {})
           calls   == s \o t
           p       == Plan(calls)
           e       == IF subnets /\ ~ready THEN "requeue" ELSE p.end
           next    == [p EXCEPT !.end = e]
<1>1. /\ Updating /\ Go(next) /\ w.spec.kind = Attachment
      /\ w.spec.tags # w.seen.tags => tags
      /\ w.spec.subnets # w.seen.subnets => subnets
      /\ tags \in BOOLEAN /\ both \in BOOLEAN
  BY DEF sdkUpdateAttachment, newAttachmentDelta, DifferentAt, Kind, Attachment
<1>2. /\ IsPlan(s, {"tags"}) /\ IsPlan(t, {"modifyAttachment"})
      /\ Ops(s) = (IF tags THEN {"tags"} ELSE {})
      /\ Ops(t) = (IF both THEN {"modifyAttachment"} ELSE {})
  <2> HIDE DEF tags, both
  <2> QED BY <1>1, WhenIsPlan, OpsOfWhen
<1> HIDE DEF s, t
<1>3. Ops(calls) = Ops(s) \cup Ops(t) /\ IsPlan(calls, {"tags"} \cup {"modifyAttachment"})
  BY <1>2, OpsOfConcat
<1> HIDE DEF calls
<1>4. IsPlan(calls, UpdateOps(w.spec.kind))
  BY <1>1, <1>3, SubPlan DEF UpdateOps
<1>5. DOMAIN p = WorkerFields
  BY UpdatingIs, <1>1 DEF Plan, WorkerFields
<1> HIDE DEF p
<1>6. next.end = e
  BY <1>5 DEF WorkerFields
<1>7. next \in {Plan(calls), [Plan(calls) EXCEPT !.end = next.end]}
  BY <1>6 DEF p
<1>8. ASSUME next.end = "synced", Unbiased PROVE ComesTo(Obj, Ops(calls))
  <2>1. ReadyIs(w.seen.state) /\ ~Kind(Peering)
    BY <1>1 DEF ReadyIs, Kind, Attachment, Service, Peering
  <2>2. subnets => both
    BY <1>6, <1>8
  <2>3. ASSUME NEW f \in Watched(w.spec.kind), w.spec[f] # w.seen[f]
        PROVE  CallsFor[f] \cap Ops(calls) # {}
    <3>1. f \in {"tags", "subnets"}
      BY <1>1 DEF Watched, Fields, Attachment, PlainKinds, Peering, Service
    <3> HIDE DEF tags, subnets, both
    <3>2. CASE f = "tags"
      BY <1>1, <1>2, <1>3, <2>3, <3>2 DEF CallsFor
    <3>3. CASE f = "subnets"
      BY <1>1, <1>2, <1>3, <2>2, <2>3, <3>3 DEF CallsFor
    <3> QED BY <3>1, <3>2, <3>3
  <2> QED BY <1>1, <1>8, <2>1, <2>3, UpdateComes
<1> HIDE DEF next, tags, both
<1> QED BY <1>1, <1>4, <1>7, <1>8, UpdateOK

LEMMA AttachmentModifyOK ==
  ASSUME Tracked, OneLeaves, ModifyTransitGatewayVpcAttachment
  PROVE  ObjectsOK' /\ SpecsOK' /\ InSight'
<1>1. Doing("modifyAttachment")
  BY DEF ModifyTransitGatewayVpcAttachment
<1>2. /\ ~At("idle") /\ w.spec.kind \in Kinds /\ AttachmentOK /\ w.spec \in Specs
      /\ w.pc \in {"found", "plan"} /\ "modifyAttachment" \in UpdateOps(w.spec.kind)
      /\ w.spec.kind = cr.spec.kind
      /\ Obj # Gone => ObjectIs(Obj) /\ DOMAIN Obj = Fields(w.spec.kind)
  BY <1>1, PlanningOn, DoingOf
<1>3. w.spec.kind = Attachment /\ Kind(Attachment)
  BY <1>2 DEF UpdateOps, Kind
<1> DEFINE want == w.spec.subnets
           have == w.seen.subnets
<1>4. PICK change \in compareSubnetIDs(want, have) :
        \/ Go(onError)
        \/ /\ Obj.live /\ change.add \cap change.remove = {}
           /\ Call([Obj EXCEPT !.subnets = (@ \cup change.add) \ change.remove,
                      !.state = "modifying"], Done, onError)
  BY DEF ModifyTransitGatewayVpcAttachment
<1>5. CASE Go(onError)
  BY <1>2, <1>5, RefusedOK
<1> DEFINE obj == [Obj EXCEPT !.subnets = (@ \cup change.add) \ change.remove,
                              !.state = "modifying"]
<1>6. CASE Obj.live /\ change.add \cap change.remove = {} /\ Call(obj, Done, onError)
  <2>1. /\ Obj # Gone /\ ObjectIs(Obj) /\ DOMAIN Obj = Fields(w.spec.kind)
        /\ {"live", "tags", "state", "subnets"} \subseteq DOMAIN Obj
    BY <1>2, <1>3, <1>6, KindsDiffer DEF Gone, Fields
  <2>2. /\ Obj.subnets \in {have, want}
        /\ \E s \in Specs : s.kind = Attachment /\ have = s.subnets
    BY <1>2, <1>3, <2>1 DEF AttachmentOK
  <2>3. (Obj.subnets \cup change.add) \ change.remove = want
    <3>1. CASE have \subseteq want
      <4>1. change.add = want \ have /\ change.remove = {}
        BY <1>4, <3>1 DEF compareSubnetIDs
      <4> QED BY <2>2, <3>1, <4>1
    <3>2. CASE ~(have \subseteq want)
      <4>1. PICK last \in have \ want :
              change.add = want \ have /\ change.remove = (want \ have) \cup {last}
        BY <1>4, <3>2 DEF compareSubnetIDs
      <4>2. want \subseteq have
        BY <1>6, <4>1
      <4>3. \A x \in have \ want : x = last
        BY <1>2, <1>3, <2>2, <4>1, <4>2 DEF OneLeaves
      <4> QED BY <2>2, <4>1, <4>2, <4>3
    <3> QED BY <3>1, <3>2
  <2>4. /\ DOMAIN obj = DOMAIN Obj /\ obj.subnets = want
        /\ obj.live = Obj.live /\ obj.tags = Obj.tags
    BY <2>1, <2>3
  <2> HIDE DEF obj
  <2>5. ObjectIs(obj)
    BY <1>2, <1>3, <1>6, <2>1, <2>4, KindsDiffer DEF ObjectIs, Attachment
  <2>6. Carried("modifyAttachment", obj)
    <3>1. /\ Watched(w.spec.kind) = {"tags", "subnets"} /\ ~Kind(Peering)
          /\ ReadyIs(obj.state)
      BY <1>3 DEF Watched, Fields, PlainKinds, Attachment, Peering, Service, Kind, ReadyIs
    <3> QED BY <2>4, <3>1 DEF Carried, CallsFor
  <2> QED BY <1>1, <1>6, <2>1, <2>4, <2>5, <2>6, PlanCallOK
<1> QED BY <1>4, <1>5, <1>6

LEMMA AttachmentStepOK ==
  ASSUME Tracked, OneLeaves, AttachmentStep
  PROVE  ObjectsOK' /\ SpecsOK' /\ InSight'
<1>1. CASE sdkFindAttachment \/ sdkCreateAttachment \/ sdkDeleteAttachment
  <2>0. w.spec.kind = Attachment /\ w.spec.kind \in Kinds
    BY <1>1 DEF sdkFindAttachment, sdkCreateAttachment, sdkDeleteAttachment, Kind, Kinds, Attachment
  <2>1. CASE sdkFindAttachment
    <3>1. Describe(Found, onError) /\ At("describe")
      BY <2>1 DEF sdkFindAttachment, Describe
    <3>2. ReadyIs(Obj.state) /\ ~Kind(Peering)
      BY <2>0 DEF ReadyIs, Kind, Attachment, Service, Peering
    <3>3. \/ Found \in {NotFound, RequeueLater}
          \/ /\ Found.pc = "found" \/ (Found.pc = "principals" /\ Kind(Service))
             /\ Found.spec = w.spec /\ Found.mode = w.mode /\ Found.id = w.id
             /\ Found.seen = Obj /\ (Found.end = "synced" => ReadyIs(Obj.state))
             /\ Kind(Peering) => Obj.state # "initiating-request"
      BY <3>1, <3>2, HandedOn
    <3> QED BY <2>0, <3>1, <3>3, DescribeOK
  <2>2. CASE sdkCreateAttachment
    <3>1. At("create") /\ w.spec.kind = cr.spec.kind /\ w.spec \in Specs
      BY <2>2, TrackedIs DEF sdkCreateAttachment, At, Tracked, SpecsOK
    <3>2. ObjectIs(newAttachment)
      BY <2>0, <3>1 DEF ObjectIs, newAttachment, Fields, PlainKinds, Attachment, Peering, Service
    <3> QED BY <2>2, <3>1, <3>2, CreateOK DEF sdkCreateAttachment
  <2>3. CASE sdkDeleteAttachment
    BY <2>3, DeletingIs, RetireOK DEF sdkDeleteAttachment
  <2> QED BY <1>1, <2>1, <2>2, <2>3
<1> QED BY <1>1, AttachmentUpdateOK, AttachmentModifyOK DEF AttachmentStep

LEMMA EndpointUpdateOK ==
  ASSUME Tracked, customUpdateVPCEndpoint
  PROVE  ObjectsOK' /\ SpecsOK' /\ InSight'
<1> DEFINE tags    == "tags" \in newVPCEndpointDelta
           others  == newVPCEndpointDelta \ {"tags"} # {}
           changed == tags \/ others
           s       == When(tags, "tags", {})
           t       == When(others, "modifyEndpoint", {})
           calls   == s \o t
           p       == Plan(calls)
           e       == IF changed THEN "synced" ELSE p.end
           b       == p.blind \/ (changed /\ w.seen.state = "pending")
           next    == [p EXCEPT !.end = e, !.blind = b]
<1>1. /\ Updating /\ Go(next) /\ w.spec.kind = "vpc_endpoint"
      /\ w.spec.tags # w.seen.tags => tags
      /\ w.spec.subnets # w.seen.subnets => others
      /\ tags \in BOOLEAN /\ others \in BOOLEAN
  BY DEF customUpdateVPCEndpoint, newVPCEndpointDelta, DifferentAt, Kind
<1>2. /\ IsPlan(s, {"tags"}) /\ IsPlan(t, {"modifyEndpoint"})
      /\ Ops(s) = (IF tags THEN {"tags"} ELSE {})
      /\ Ops(t) = (IF others THEN {"modifyEndpoint"} ELSE {})
  <2> HIDE DEF tags, others
  <2> QED BY <1>1, WhenIsPlan, OpsOfWhen
<1> HIDE DEF s, t, tags, others
<1>3. Ops(calls) = Ops(s) \cup Ops(t) /\ IsPlan(calls, {"tags"} \cup {"modifyEndpoint"})
  BY <1>2, OpsOfConcat
<1> HIDE DEF calls
<1>4. IsPlan(calls, UpdateOps(w.spec.kind))
  BY <1>1, <1>3, SubPlan DEF UpdateOps
<1>5. /\ DOMAIN p = WorkerFields /\ p.pc = "plan" /\ p.plan = calls /\ p.mode = w.mode
      /\ p.id = w.id /\ p.spec = w.spec /\ p.seen = w.seen /\ p.blind = w.blind
      /\ p.interfered = w.interfered /\ p.end = w.end
  BY UpdatingIs, <1>1 DEF Plan, WorkerFields
<1>6. (changed /\ w.seen.state # "pending") \/ (~changed /\ w.end = "synced") \/ b
        \/ e # "synced"
  BY <1>5
<1>7. w.blind => b
  BY <1>5
<1> HIDE DEF p, e, b, changed
<1>8. /\ next.pc = "plan" /\ next.plan = calls /\ next.mode = w.mode
      /\ next.id = w.id /\ next.spec = w.spec /\ next.seen = w.seen /\ next.blind = b
      /\ next.interfered = w.interfered /\ next.end = e
  BY <1>5 DEF WorkerFields
<1>9. ASSUME e = "synced", Unbiased, ~b PROVE ComesTo(Obj, Ops(calls))
  <2>1. ReadyIs(w.seen.state) /\ ~Kind(Peering)
    BY <1>1, <1>6, <1>9, UpdatingIs DEF ReadyIs, ReadOK, Updating, At, Kind, Service, Peering
  <2>2. ASSUME NEW f \in Watched(w.spec.kind), w.spec[f] # w.seen[f]
        PROVE  CallsFor[f] \cap Ops(calls) # {}
    <3>1. f \in {"tags", "subnets"}
      BY <1>1 DEF Watched, Fields, Attachment, PlainKinds, Peering, Service
    <3>2. CASE f = "tags"
      BY <1>1, <1>2, <1>3, <2>2, <3>2 DEF CallsFor
    <3>3. CASE f = "subnets"
      BY <1>1, <1>2, <1>3, <2>2, <3>3 DEF CallsFor
    <3> QED BY <3>1, <3>2, <3>3
  <2> QED BY <1>1, <1>9, <2>1, <2>2, UpdateComes
<1> HIDE DEF next
<1> QED BY <1>1, <1>4, <1>7, <1>8, <1>9, PlannedOK

LEMMA EndpointModifyOK ==
  ASSUME Tracked, ModifyVpcEndpoint
  PROVE  ObjectsOK' /\ SpecsOK' /\ InSight'
<1> DEFINE want   == w.spec.subnets
           have   == w.seen.subnets
           change == calculateSubnetDifferences(want, have)
           groups == calculateSubnetDifferences(w.spec.groups, w.seen.groups)
           obj    == [Obj EXCEPT !.subnets = (@ \cup change.add) \ change.remove,
                                 !.groups = (@ \cup groups.add) \ groups.remove]
<1>1. Doing("modifyEndpoint") /\ (Go(onError) \/ (Obj.live /\ Call(obj, Done, onError)))
  BY DEF ModifyVpcEndpoint
<1>2. /\ ~At("idle") /\ w.spec.kind \in Kinds /\ w.spec.kind = cr.spec.kind
      /\ "modifyEndpoint" \in UpdateOps(w.spec.kind)
      /\ Obj # Gone => ObjectIs(Obj) /\ DOMAIN Obj = Fields(w.spec.kind)
  BY <1>1, PlanningOn, DoingOf
<1>3. w.spec.kind = "vpc_endpoint"
  BY <1>2 DEF UpdateOps
<1>4. CASE Go(onError)
  BY <1>2, <1>4, RefusedOK
<1>5. CASE Obj.live /\ Call(obj, Done, onError)
  <2>1. /\ Obj # Gone /\ ObjectIs(Obj)
        /\ {"live", "tags", "state", "subnets"} \subseteq DOMAIN Obj
    BY <1>2, <1>3, <1>5, KindsDiffer DEF Gone, Fields
  <2>2. change.add = want \ have /\ change.remove = have \ want
    BY DEF calculateSubnetDifferences
  <2> HIDE DEF change, groups
  <2>3. /\ DOMAIN obj = DOMAIN Obj /\ obj.live = Obj.live /\ obj.tags = Obj.tags
        /\ obj.state = Obj.state /\ obj.subnets = (Obj.subnets \cup change.add) \ change.remove
    BY <2>1
  <2> HIDE DEF obj
  <2>4. ObjectIs(obj)
    BY <1>2, <1>3, <2>1, <2>3, KindsDiffer DEF ObjectIs, Attachment
  <2>5. /\ Watched(w.spec.kind) = {"tags", "subnets"} /\ ~Kind(Peering) /\ ~Kind(Attachment)
    BY <1>3 DEF Watched, Fields, PlainKinds, Attachment, Peering, Service, Kind
  <2>6. ComesTo(Obj, Ops(w.plan)) => Carried("modifyEndpoint", obj)
    <3> SUFFICES ASSUME ComesTo(Obj, Ops(w.plan)) PROVE Carried("modifyEndpoint", obj)
      OBVIOUS
    <3>1. Obj.subnets \in {have, want}
      BY <2>5 DEF ComesTo
    <3>2. (Obj.subnets \cup change.add) \ change.remove = want
      BY <2>2, <3>1
    <3> QED BY <2>3, <2>5, <3>2 DEF Carried, CallsFor, ReadyIs
  <2> QED BY <1>1, <1>5, <2>1, <2>4, <2>5, <2>6, PlanCallOK
<1> QED BY <1>1, <1>4, <1>5

LEMMA EndpointStepOK ==
  ASSUME Tracked, VPCEndpointStep
  PROVE  ObjectsOK' /\ SpecsOK' /\ InSight'
<1>1. CASE sdkFindVPCEndpoint \/ sdkCreateVPCEndpoint \/ sdkDeleteVPCEndpoint
  <2>0. w.spec.kind = "vpc_endpoint" /\ w.spec.kind \in Kinds
    BY <1>1 DEF sdkFindVPCEndpoint, sdkCreateVPCEndpoint, sdkDeleteVPCEndpoint, Kind, Kinds
  <2>1. CASE sdkFindVPCEndpoint
    <3> DEFINE e     == IF Obj.state = "pending" THEN "requeue" ELSE "synced"
               g     == w.spec.groups
               f     == Found
               found == [f EXCEPT !.seen.groups = g, !.end = e]
    <3>1. Describe(found, onError) /\ At("describe")
      BY <2>1 DEF sdkFindVPCEndpoint, Describe
    <3>2. (e = "synced" => ReadyIs(Obj.state)) /\ ~Kind(Peering)
      BY <2>0 DEF ReadyIs, Kind, Service, Peering
    <3>3. /\ DOMAIN f = WorkerFields /\ f.mode = w.mode /\ f.spec = w.spec /\ f.id = w.id
          /\ f.pc = "found" /\ f.seen = Obj
      BY TrackedIs, <3>1 DEF Found, WorkerFields, At
    <3> HIDE DEF e, f, g
    <3>4. /\ found.pc = "found" /\ found.spec = w.spec /\ found.mode = w.mode /\ found.id = w.id
          /\ found.seen = [Obj EXCEPT !.groups = g] /\ found.end = e
      BY <3>3 DEF WorkerFields
    <3> HIDE DEF found
    <3>5. /\ found.pc = "found" /\ found.spec = w.spec /\ found.mode = w.mode /\ found.id = w.id
          /\ Kind("vpc_endpoint") /\ \E x : found.seen = [Obj EXCEPT !.groups = x]
          /\ found.end = "synced" => ReadyIs(Obj.state)
          /\ ~Kind(Peering)
      BY <2>0, <3>2, <3>4 DEF Kind
    <3> QED BY <2>0, <3>1, <3>5, DescribeOK
  <2>2. CASE sdkCreateVPCEndpoint
    <3>1. At("create") /\ w.spec.kind = cr.spec.kind
      BY <2>2, TrackedIs DEF sdkCreateVPCEndpoint, At
    <3>2. ObjectIs(newVPCEndpoint)
      BY <2>0, <3>1 DEF ObjectIs, newVPCEndpoint, Fields, PlainKinds, Attachment, Peering, Service
    <3> QED BY <2>2, <3>1, <3>2, CreateOK DEF sdkCreateVPCEndpoint, RequeueLater
  <2>3. CASE sdkDeleteVPCEndpoint
    BY <2>3, DeletingIs, RetireOK DEF sdkDeleteVPCEndpoint
  <2> QED BY <1>1, <2>1, <2>2, <2>3
<1> QED BY <1>1, EndpointUpdateOK, EndpointModifyOK DEF VPCEndpointStep

LEMMA setAdditionalFieldsOK ==
  ASSUME Tracked, setAdditionalFields
  PROVE  ObjectsOK' /\ SpecsOK' /\ InSight'
<1>1. /\ At("principals") /\ ~At("idle") /\ DOMAIN w = WorkerFields /\ SpecsOK /\ ReadOK
      /\ w.spec.kind = Service /\ w.spec.kind = cr.spec.kind /\ w.spec.kind \in Kinds
      /\ UNCHANGED <<cr, ec2>>
  BY TrackedIs DEF Tracked, InSight, StageOK, setAdditionalFields, At, Kind, Go, Unread
<1>2. DOMAIN w.seen = Fields(w.spec.kind) /\ {"principals", "state"} \subseteq DOMAIN w.seen
  BY <1>1, KindsDiffer DEF ReadOK, At, Fields
<1> DEFINE read(x) == [w EXCEPT !.pc = "found", !.seen.principals = x]
<1>3. ASSUME NEW x
      PROVE  LET r == read(x) IN
             /\ DOMAIN r = WorkerFields /\ r.pc = "found" /\ r.mode = w.mode /\ r.id = w.id
             /\ r.spec = w.spec /\ r.end = w.end /\ r.interfered = w.interfered
             /\ r.blind = w.blind /\ DOMAIN r.seen = DOMAIN w.seen /\ r.seen.principals = x
             /\ \A f \in DOMAIN w.seen \ {"principals"} : r.seen[f] = w.seen[f]
  BY <1>1, <1>2 DEF WorkerFields
<1>4. PICK x : \/ w' = read(x) /\ Obj # Gone /\ x = Obj.principals
               \/ w' = [read(x) EXCEPT !.blind = TRUE]
  <2>1. \/ Obj # Gone /\ w' = read(Obj.principals)
        \/ w' = [read(w.spec.principals) EXCEPT !.blind = TRUE]
    BY DEF setAdditionalFields, Go, Unread
  <2> HIDE DEF read
  <2> QED BY <2>1
<1> DEFINE r == read(x)
<1>5. /\ DOMAIN r = WorkerFields /\ r.pc = "found" /\ r.mode = w.mode /\ r.id = w.id
      /\ r.spec = w.spec /\ r.end = w.end /\ r.interfered = w.interfered
      /\ r.blind = w.blind /\ DOMAIN r.seen = DOMAIN w.seen /\ r.seen.principals = x
      /\ \A f \in DOMAIN w.seen \ {"principals"} : r.seen[f] = w.seen[f]
  BY <1>3
<1>6. \/ w' = r /\ Obj # Gone /\ x = Obj.principals
      \/ w' = [r EXCEPT !.blind = TRUE]
  BY <1>4
<1> HIDE DEF r
<1>7. /\ w'.pc = "found" /\ w'.mode = w.mode /\ w'.id = w.id /\ w'.spec = w.spec
      /\ w'.end = w.end /\ w'.interfered = w.interfered /\ DOMAIN w'.seen = DOMAIN w.seen
      /\ \A f \in DOMAIN w.seen \ {"principals"} : w'.seen[f] = w.seen[f]
      /\ w'.blind \/ (w'.blind = w.blind /\ w'.seen.principals = Obj.principals)
  <2>1. CASE w' = r /\ x = Obj.principals
    BY <1>5, <2>1
  <2>2. CASE w' = [r EXCEPT !.blind = TRUE]
    BY <1>5, <2>2 DEF WorkerFields
  <2> QED BY <1>6, <2>1, <2>2
<1>8. Obj' = Obj
  BY <1>1, <1>7 DEF Obj
<1>9. ReadOK'
  <2>1. /\ Watched(w.spec.kind) \subseteq DOMAIN w.seen
        /\ Unbiased => /\ \A f \in Watched(w.spec.kind) : f # "principals" => Obj[f] = w.seen[f]
                       /\ Awaited /\ w.seen.state = "available" => Obj.state = "available"
                       /\ Awaited /\ ~Asked(w.seen.state) => ~Asked(Obj.state)
                       /\ Awaited /\ w.seen.state # "pending" => Obj.state # "pending"
        /\ w.end = "synced" => ReadyIs(w.seen.state)
        /\ Awaited' = Awaited /\ w'.seen.state = w.seen.state
    BY <1>1, <1>2, <1>7 DEF ReadOK, At, Watched, Awaited
  <2>2. Unbiased' => Unbiased /\ w'.seen.principals = Obj.principals
    BY <1>7, <1>8 DEF Unbiased
  <2> QED BY <1>1, <1>2, <1>7, <1>8, <2>1, <2>2 DEF ReadOK, At, ReadyIs, Kind, Service, Peering
<1>10. SpecsOK' /\ StageOK' /\ AttachmentOK' /\ PlanOK' /\ DoneOK'
  BY <1>1, <1>7 DEF SpecsOK, StageOK, AttachmentOK, PlanOK, DoneOK, At, Kind, Service, Attachment
<1> QED BY <1>1, <1>9, <1>10, ObjectsStay DEF InSight

LEMMA ServiceUpdateOK ==
  ASSUME Tracked, sdkUpdateService
  PROVE  ObjectsOK' /\ SpecsOK' /\ InSight'
<1> DEFINE delta == newServiceDelta
           a     == "tags" \in delta
           b     == "principals" \in delta
           c     == "acceptance" \in delta
           last  == <<<<"desired", {}>>>>
           first == When(a, "tags", {}) \o When(b, "modifyPermissions", {})
                                        \o When(c, "modifyService", {})
           calls == first \o last
           p     == Plan(calls)
           e     == IF cr.version = 1 THEN "synced" ELSE "requeue"
           next  == [p EXCEPT !.end = e]
<1>1. /\ Updating /\ w.spec.kind = Service
      /\ w.spec.tags # w.seen.tags => a
      /\ w.spec.principals # w.seen.principals => b
      /\ w.spec.acceptance # w.seen.acceptance => c
      /\ a \in BOOLEAN /\ b \in BOOLEAN /\ c \in BOOLEAN /\ (delta = {} => ~a /\ ~b /\ ~c)
  BY DEF sdkUpdateService, newServiceDelta, DifferentAt, Kind, Service
<1>2. \/ Go(RequeueLater)
      \/ Go(next) /\ w.seen.state = "available"
      \/ Go(Plan(<<>>)) /\ delta = {}
  <2> HIDE DEF delta
  <2> QED BY DEF sdkUpdateService, delta
<1>3. /\ ~At("idle") /\ w.spec.kind \in Kinds /\ DOMAIN w = WorkerFields /\ ReadOK
      /\ Watched(w.spec.kind) = {"tags", "principals", "acceptance"} /\ ~Kind(Peering)
  BY <1>1, UpdatingIs DEF Watched, Fields, PlainKinds, Attachment, Peering, Service, Kind
<1> HIDE DEF delta, a, b, c
<1>4. CASE Go(RequeueLater)
  BY <1>3, <1>4, RefusedOK
<1>5. CASE Go(next) /\ w.seen.state = "available"
  <2> DEFINE sa == When(a, "tags", {})
             sb == When(b, "modifyPermissions", {})
             sc == When(c, "modifyService", {})
             sab == sa \o sb
  <2>1. /\ IsPlan(sa, {"tags"}) /\ IsPlan(sb, {"modifyPermissions"})
        /\ IsPlan(sc, {"modifyService"}) /\ IsPlan(last, {"desired"})
        /\ Ops(sa) = (IF a THEN {"tags"} ELSE {})
        /\ Ops(sb) = (IF b THEN {"modifyPermissions"} ELSE {})
        /\ Ops(sc) = (IF c THEN {"modifyService"} ELSE {})
    BY <1>1, WhenIsPlan, OpsOfWhen, OneCall
  <2> HIDE DEF sa, sb, sc, last
  <2>2. Ops(sab) = Ops(sa) \cup Ops(sb) /\ IsPlan(sab, {"tags"} \cup {"modifyPermissions"})
    BY <2>1, OpsOfConcat
  <2> HIDE DEF sab
  <2> DEFINE f3 == sab \o sc
  <2>3. /\ Ops(f3) = Ops(sab) \cup Ops(sc)
        /\ IsPlan(f3, {"tags"} \cup {"modifyPermissions"} \cup {"modifyService"})
    BY <2>1, <2>2, OpsOfConcat
  <2>4. first = f3
    BY DEF sa, sb, sc, sab
  <2> HIDE DEF f3, first
  <2>5. /\ Ops(calls) = Ops(f3) \cup Ops(last)
        /\ IsPlan(calls, {"tags"} \cup {"modifyPermissions"} \cup {"modifyService"} \cup {"desired"})
    BY <2>1, <2>3, <2>4, OpsOfConcat
  <2> HIDE DEF calls
  <2>6. IsPlan(calls, UpdateOps(w.spec.kind))
    BY <1>1, <2>5, SubPlan DEF UpdateOps
  <2>7. DOMAIN p = WorkerFields
    BY <1>3 DEF Plan, WorkerFields
  <2> HIDE DEF p, e
  <2>8. next \in {Plan(calls), [Plan(calls) EXCEPT !.end = next.end]}
    <3>1. next.end = e
      BY <2>7 DEF WorkerFields
    <3> QED BY <3>1 DEF p
  <2>9. ASSUME Unbiased PROVE ComesTo(Obj, Ops(calls))
    <3>1. ReadyIs(w.seen.state)
      BY <1>5 DEF ReadyIs
    <3>2. \A f \in Watched(w.spec.kind) : w.spec[f] # w.seen[f] => CallsFor[f] \cap Ops(calls) # {}
      BY <1>1, <1>3, <2>1, <2>2, <2>3, <2>5 DEF CallsFor
    <3> QED BY <1>1, <1>3, <2>9, <3>1, <3>2, UpdateComes
  <2> HIDE DEF next
  <2> QED BY <1>1, <1>5, <2>6, <2>8, <2>9, UpdateOK
<1>6. CASE Go(Plan(<<>>)) /\ delta = {}
  <2> DEFINE none == <<>>
             q    == Plan(none)
  <2>1. IsPlan(none, UpdateOps(w.spec.kind)) /\ Ops(none) = {}
    BY NoCalls DEF Ops
  <2>2. q.end = w.end
    BY <1>3 DEF Plan, WorkerFields
  <2>3. Go(q)
    BY <1>6
  <2> HIDE DEF none
  <2>4. q \in {Plan(none), [Plan(none) EXCEPT !.end = q.end]}
    OBVIOUS
  <2>5. ASSUME q.end = "synced", Unbiased PROVE ComesTo(Obj, Ops(none))
    <3>1. ReadyIs(w.seen.state)
      BY <1>1, <1>3, <2>2, <2>5 DEF ReadOK, Updating, At
    <3>2. \A f \in Watched(w.spec.kind) : w.spec[f] = w.seen[f]
      BY <1>1, <1>3, <1>6
    <3> QED BY <1>1, <1>3, <2>5, <3>1, <3>2, UpdateComes
  <2> HIDE DEF q
  <2> QED BY <1>1, <2>1, <2>3, <2>4, <2>5, UpdateOK
<1> QED BY <1>2, <1>4, <1>5, <1>6

LEMMA ServiceCallsOK ==
  ASSUME Tracked, modifyAllowedPrincipals \/ ModifyVpcEndpointServiceConfiguration
  PROVE  ObjectsOK' /\ SpecsOK' /\ InSight'
<1>1. ASSUME NEW op \in {"modifyPermissions", "modifyService"}, Doing(op)
      PROVE  /\ ~At("idle") /\ w.spec.kind \in Kinds /\ w.spec.kind = cr.spec.kind
             /\ w.spec.kind = Service /\ ~Kind(Attachment) /\ ~Kind(Peering)
             /\ Watched(w.spec.kind) = {"tags", "principals", "acceptance"}
             /\ Obj.live => /\ Obj # Gone /\ ObjectIs(Obj)
                            /\ Watched(w.spec.kind) \cup {"live", "state"} \subseteq DOMAIN Obj
  <2>1. /\ ~At("idle") /\ w.spec.kind \in Kinds /\ w.spec.kind = cr.spec.kind
        /\ op \in UpdateOps(w.spec.kind)
        /\ Obj # Gone => ObjectIs(Obj) /\ DOMAIN Obj = Fields(w.spec.kind)
    BY <1>1, PlanningOn, DoingOf
  <2>2. w.spec.kind = Service
    BY <2>1 DEF UpdateOps
  <2>3. /\ Watched(w.spec.kind) = {"tags", "principals", "acceptance"}
        /\ {"live", "state"} \subseteq Fields(w.spec.kind)
        /\ ~Kind(Attachment) /\ ~Kind(Peering)
    BY <2>2 DEF Watched, Fields, PlainKinds, Attachment, Peering, Service, Kind
  <2>4. Watched(w.spec.kind) \subseteq Fields(w.spec.kind)
    BY DEF Watched
  <2> QED BY <2>1, <2>2, <2>3, <2>4 DEF Gone
<1>2. CASE modifyAllowedPrincipals
  <2> DEFINE come == w.spec.principals \ w.seen.principals
             go   == w.seen.principals \ w.spec.principals
             obj  == [Obj EXCEPT !.principals = (@ \cup come) \ go]
  <2>1. Doing("modifyPermissions") /\ (Go(onError) \/ (Obj.live /\ Call(obj, Done, onError)))
    BY <1>2 DEF modifyAllowedPrincipals
  <2>2. CASE Go(onError)
    BY <1>1, <2>1, <2>2, RefusedOK
  <2>3. CASE Obj.live /\ Call(obj, Done, onError)
    <3>0. /\ Obj # Gone /\ ObjectIs(Obj)
          /\ {"tags", "principals", "acceptance", "live", "state"} \subseteq DOMAIN Obj
          /\ Watched(w.spec.kind) = {"tags", "principals", "acceptance"}
          /\ ~Kind(Attachment) /\ ~Kind(Peering)
      BY <1>1, <2>1, <2>3
    <3>1. /\ DOMAIN obj = DOMAIN Obj /\ obj.principals = (Obj.principals \cup come) \ go
          /\ \A f \in DOMAIN Obj \ {"principals"} : obj[f] = Obj[f]
      <4> HIDE DEF come, go
      <4> QED BY <3>0
    <3> HIDE DEF obj
    <3>2. ObjectIs(obj)
      BY <3>0, <3>1, ObjectStillIs
    <3>3. ComesTo(Obj, Ops(w.plan)) => Carried("modifyPermissions", obj)
      <4> SUFFICES ASSUME ComesTo(Obj, Ops(w.plan)) PROVE Carried("modifyPermissions", obj)
        OBVIOUS
      <4>1. Obj.principals \in {w.seen.principals, w.spec.principals}
        BY <3>0 DEF ComesTo
      <4>2. (Obj.principals \cup come) \ go = w.spec.principals
        BY <4>1
      <4> HIDE DEF come, go
      <4> QED BY <3>0, <3>1, <4>2 DEF Carried, CallsFor, ReadyIs
    <3> QED BY <2>1, <2>3, <3>0, <3>2, <3>3, PlanCallOK
  <2> QED BY <2>1, <2>2, <2>3
<1>3. CASE ModifyVpcEndpointServiceConfiguration
  <2> DEFINE obj == [Obj EXCEPT !.acceptance = w.spec.acceptance]
  <2>1. Doing("modifyService") /\ (Go(onError) \/ (Obj.live /\ Call(obj, Done, onError)))
    BY <1>3 DEF ModifyVpcEndpointServiceConfiguration
  <2>2. CASE Go(onError)
    BY <1>1, <2>1, <2>2, RefusedOK
  <2>3. CASE Obj.live /\ Call(obj, Done, onError)
    <3>0. /\ Obj # Gone /\ ObjectIs(Obj)
          /\ {"tags", "principals", "acceptance", "live", "state"} \subseteq DOMAIN Obj
          /\ Watched(w.spec.kind) = {"tags", "principals", "acceptance"}
          /\ ~Kind(Attachment) /\ ~Kind(Peering)
      BY <1>1, <2>1, <2>3
    <3>1. /\ DOMAIN obj = DOMAIN Obj /\ obj.acceptance = w.spec.acceptance
          /\ \A f \in DOMAIN Obj \ {"acceptance"} : obj[f] = Obj[f]
      BY <3>0
    <3> HIDE DEF obj
    <3>2. ObjectIs(obj)
      BY <3>0, <3>1, ObjectStillIs
    <3>3. Carried("modifyService", obj)
      BY <3>0, <3>1 DEF Carried, CallsFor, ReadyIs
    <3> QED BY <2>1, <2>3, <3>0, <3>2, <3>3, PlanCallOK
  <2> QED BY <2>1, <2>2, <2>3
<1> QED BY <1>2, <1>3

LEMMA ServiceStepOK ==
  ASSUME Tracked, ServiceStep
  PROVE  ObjectsOK' /\ SpecsOK' /\ InSight'
<1>1. CASE sdkFindService \/ sdkCreateService \/ sdkDeleteService
  <2>0. w.spec.kind = Service /\ w.spec.kind \in Kinds /\ Kind(Service) /\ ~Kind(Peering)
    BY <1>1 DEF sdkFindService, sdkCreateService, sdkDeleteService, Kind, Kinds, Service, Peering
  <2>1. CASE sdkFindService
    <3> DEFINE ready == Obj.state = "available"
               r     == ReportReady(Found, ready)
               found == [r EXCEPT !.pc = "principals"]
    <3>1. Describe(found, onError) /\ At("describe") /\ ready \in BOOLEAN
      BY <2>1 DEF sdkFindService, Describe
    <3>2. ready => ReadyIs(Obj.state)
      BY DEF ReadyIs
    <3> HIDE DEF ready
    <3>3. /\ r.spec = w.spec /\ r.mode = w.mode /\ r.id = w.id /\ r.seen = Obj
          /\ (r.end = "synced" => ready) /\ found.pc = "principals"
          /\ \A f \in WorkerFields \ {"pc"} : found[f] = r[f]
      BY <3>1, HandedOn
    <3> HIDE DEF r, found
    <3>4. \/ found \in {NotFound, RequeueLater}
          \/ /\ found.pc = "found" \/ (found.pc = "principals" /\ Kind(Service))
             /\ found.spec = w.spec /\ found.mode = w.mode /\ found.id = w.id
             /\ found.seen = Obj /\ (found.end = "synced" => ReadyIs(Obj.state))
             /\ Kind(Peering) => Obj.state # "initiating-request"
      BY <2>0, <3>2, <3>3 DEF WorkerFields
    <3> QED BY <2>0, <3>1, <3>4, DescribeOK
  <2>2. CASE sdkCreateService
    <3>1. At("create") /\ w.spec.kind = cr.spec.kind
      BY <2>2, TrackedIs DEF sdkCreateService, At
    <3>2. ObjectIs(newService)
      BY <2>0, <3>1 DEF ObjectIs, newService, Fields, PlainKinds, Attachment, Peering, Service
    <3> QED BY <2>2, <3>1, <3>2, CreateOK DEF sdkCreateService, RequeueLater
  <2>3. CASE sdkDeleteService
    BY <2>3, DeletingIs, RetireOK DEF sdkDeleteService
  <2> QED BY <1>1, <2>1, <2>2, <2>3
<1> QED BY <1>1, setAdditionalFieldsOK, ServiceUpdateOK, ServiceCallsOK DEF ServiceStep

LEMMA PeeringUpdateOK ==
  ASSUME Tracked, sdkUpdatePeering
  PROVE  ObjectsOK' /\ SpecsOK' /\ InSight'
<1> DEFINE delta == newPeeringDelta
           a     == "tags" \in delta
           b     == "accept" \in delta /\ w.spec.accept
           c     == "accept" \notin delta /\ "options" \in delta
           sa    == When(a, "tags", {})
           sb    == When(b, "accept", {})
           sd    == When(b, "findPeering", {})
           sc    == When(c, "modifyOptions", {})
           sab   == sa \o sb
           sabd  == sab \o sd
           calls == sabd \o sc
           p     == Plan(calls)
           e     == IF "accept" \notin delta THEN p.end
                    ELSE IF w.spec.accept THEN "requeue" ELSE "failed"
           next  == [p EXCEPT !.end = e]
<1>1. /\ Updating /\ w.spec.kind = Peering
      /\ w.spec.tags # w.seen.tags => a
      /\ "accepter" \in w.spec.options => "options" \in delta
      /\ "accept" \notin delta => w.spec.accept = acceptSeen(w.seen.state)
      /\ a \in BOOLEAN /\ b \in BOOLEAN /\ c \in BOOLEAN
  BY DEF sdkUpdatePeering, newPeeringDelta, DifferentAt, Kind, Peering
<1>2. Go(RequeueLater) \/ Go(next)
  <2> HIDE DEF delta
  <2> QED BY DEF sdkUpdatePeering, delta
<1> HIDE DEF delta
<1>3. /\ ~At("idle") /\ w.spec.kind \in Kinds /\ DOMAIN w = WorkerFields /\ ReadOK
      /\ Watched(w.spec.kind) = {"tags"} /\ ReadyIs(w.seen.state) /\ Kind(Peering)
      /\ w.seen.state # "initiating-request"
  <2>1. ~At("idle") /\ w.spec.kind \in Kinds /\ DOMAIN w = WorkerFields /\ ReadOK
    BY <1>1, UpdatingIs
  <2>2. Watched(w.spec.kind) = {"tags"} /\ ReadyIs(w.seen.state) /\ Kind(Peering)
    BY <1>1 DEF Watched, Fields, PlainKinds, Attachment, Peering, Service, Kind, ReadyIs
  <2> QED BY <1>1, <2>1, <2>2 DEF ReadOK, Updating, At
<1>4. CASE Go(RequeueLater)
  BY <1>3, <1>4, RefusedOK
<1>5. CASE Go(next)
  <2>1. /\ IsPlan(sa, {"tags"}) /\ IsPlan(sb, {"accept"}) /\ IsPlan(sd, {"findPeering"})
        /\ IsPlan(sc, {"modifyOptions"})
        /\ Ops(sa) = (IF a THEN {"tags"} ELSE {})
        /\ Ops(sc) = (IF c THEN {"modifyOptions"} ELSE {})
    <3> HIDE DEF a, b, c
    <3> QED BY <1>1, WhenIsPlan, OpsOfWhen
  <2> HIDE DEF sa, sb, sc, sd
  <2>2. Ops(sab) = Ops(sa) \cup Ops(sb) /\ IsPlan(sab, {"tags"} \cup {"accept"})
    BY <2>1, OpsOfConcat
  <2> HIDE DEF sab
  <2>3. /\ Ops(sabd) = Ops(sab) \cup Ops(sd)
        /\ IsPlan(sabd, {"tags"} \cup {"accept"} \cup {"findPeering"})
    BY <2>1, <2>2, OpsOfConcat
  <2> HIDE DEF sabd
  <2>4. /\ Ops(calls) = Ops(sabd) \cup Ops(sc)
        /\ IsPlan(calls, {"tags"} \cup {"accept"} \cup {"findPeering"} \cup {"modifyOptions"})
    BY <2>1, <2>3, OpsOfConcat
  <2> HIDE DEF calls
  <2>5. IsPlan(calls, UpdateOps(w.spec.kind))
    BY <1>1, <2>4, SubPlan DEF UpdateOps
  <2>6. DOMAIN p = WorkerFields
    BY <1>3 DEF Plan, WorkerFields
  <2> HIDE DEF p
  <2>7. next.end = e
    BY <2>6 DEF WorkerFields
  <2>8. next \in {Plan(calls), [Plan(calls) EXCEPT !.end = next.end]}
    BY <2>7 DEF p
  <2>9. ASSUME next.end = "synced", Unbiased PROVE ComesTo(Obj, Ops(calls))
    <3>1. "accept" \notin delta
      BY <2>7, <2>9
    <3>2. w.spec.accept => ~Asked(w.seen.state)
      BY <1>1, <1>3, <3>1 DEF acceptSeen, Asked
    <3>3. "accepter" \in w.spec.options => "modifyOptions" \in Ops(calls)
      BY <1>1, <2>1, <2>4, <3>1
    <3>4. \A f \in Watched(w.spec.kind) : w.spec[f] # w.seen[f] => CallsFor[f] \cap Ops(calls) # {}
      <4> HIDE DEF a
      <4> QED BY <1>1, <1>3, <2>1, <2>2, <2>3, <2>4 DEF CallsFor
    <3> QED BY <1>1, <1>3, <2>9, <3>2, <3>3, <3>4, UpdateComes
  <2> HIDE DEF next
  <2> QED BY <1>1, <1>5, <2>5, <2>8, <2>9, UpdateOK
<1> QED BY <1>2, <1>4, <1>5

LEMMA PeeringCallsOK ==
  ASSUME Tracked,
         \/ AcceptVpcPeeringConnection \/ findPeeringAfterAccept
         \/ ModifyVpcPeeringConnectionOptions
  PROVE  ObjectsOK' /\ SpecsOK' /\ InSight'
<1>1. ASSUME NEW op \in {"accept", "findPeering", "modifyOptions"}, Doing(op)
      PROVE  /\ ~At("idle") /\ w.spec.kind \in Kinds /\ w.spec.kind = cr.spec.kind
             /\ w.spec.kind = Peering /\ ~Kind(Attachment) /\ Watched(w.spec.kind) = {"tags"}
             /\ \A state : ReadyIs(state)
             /\ Obj # Gone =>
                  /\ ObjectIs(Obj) /\ {"tags", "options", "live", "state"} \subseteq DOMAIN Obj
  <2>1. /\ ~At("idle") /\ w.spec.kind \in Kinds /\ w.spec.kind = cr.spec.kind
        /\ op \in UpdateOps(w.spec.kind)
        /\ Obj # Gone => ObjectIs(Obj) /\ DOMAIN Obj = Fields(w.spec.kind)
    BY <1>1, PlanningOn, DoingOf
  <2>2. w.spec.kind = Peering
    BY <2>1 DEF UpdateOps
  <2>3. /\ Watched(w.spec.kind) = {"tags"} /\ ~Kind(Attachment) /\ \A state : ReadyIs(state)
        /\ {"tags", "options", "live", "state"} \subseteq Fields(w.spec.kind)
    BY <2>2 DEF Watched, Fields, PlainKinds, Attachment, Peering, Service, Kind, ReadyIs
  <2> QED BY <2>1, <2>2, <2>3
<1>2. CASE AcceptVpcPeeringConnection
  <2> DEFINE obj == [Obj EXCEPT !.state = "provisioning"]
  <2>1. /\ Doing("accept")
        /\ \/ Go(onError)
           \/ Obj # Gone /\ Obj.state = "pending-acceptance" /\ Call(obj, Done, onError)
    BY <1>2 DEF AcceptVpcPeeringConnection
  <2>2. CASE Go(onError)
    BY <1>1, <2>1, <2>2, RefusedOK
  <2>3. CASE Obj # Gone /\ Obj.state = "pending-acceptance" /\ Call(obj, Done, onError)
    <3>0. /\ ObjectIs(Obj) /\ {"tags", "options", "live", "state"} \subseteq DOMAIN Obj
          /\ w.spec.kind = cr.spec.kind /\ w.spec.kind = Peering
          /\ Watched(w.spec.kind) = {"tags"} /\ ~Kind(Attachment) /\ \A state : ReadyIs(state)
      BY <1>1, <2>1, <2>3
    <3>1. /\ DOMAIN obj = DOMAIN Obj /\ obj.state = "provisioning"
          /\ \A f \in DOMAIN Obj \ {"state"} : obj[f] = Obj[f]
      BY <3>0
    <3> HIDE DEF obj
    <3>2. ObjectIs(obj)
      BY <2>3, <3>0, <3>1 DEF ObjectIs, Attachment, Peering
    <3>3. Carried("accept", obj)
      BY <3>0, <3>1 DEF Carried, CallsFor, Asked
    <3> QED BY <2>1, <2>3, <3>0, <3>2, <3>3, PlanCallOK
  <2> QED BY <2>1, <2>2, <2>3
<1>3. CASE findPeeringAfterAccept
  <2>1. Doing("findPeering") /\ (Go(Done) \/ Go(onError) \/ Unread(onError))
    BY <1>3 DEF findPeeringAfterAccept
  <2>2. CASE Go(Done)
    BY <2>1, <2>2, GoOnOK
  <2>3. CASE Go(onError) \/ Unread(onError)
    <3>1. ~At("idle") /\ w.spec.kind \in Kinds
      BY <1>1, <2>1
    <3>2. /\ cr' = cr /\ UNCHANGED ec2 /\ cr'.spec.kind = cr.spec.kind
          /\ w'.spec = w.spec /\ w'.pc \in {"release", "requeue", "failed"}
      BY <2>3, <3>1, FailureIs DEF Go, Unread
    <3> QED BY <3>1, <3>2, ObjectsStay, OverOK
  <2> QED BY <2>1, <2>2, <2>3
<1>4. CASE ModifyVpcPeeringConnectionOptions
  <2> DEFINE obj == [Obj EXCEPT !.options = @ \cup w.spec.options]
  <2>1. Doing("modifyOptions") /\ (Go(onError) \/ (Obj # Gone /\ Call(obj, Done, onError)))
    BY <1>4 DEF ModifyVpcPeeringConnectionOptions
  <2>2. CASE Go(onError)
    BY <1>1, <2>1, <2>2, RefusedOK
  <2>3. CASE Obj # Gone /\ Call(obj, Done, onError)
    <3>0. /\ ObjectIs(Obj) /\ {"tags", "options", "live", "state"} \subseteq DOMAIN Obj
          /\ Watched(w.spec.kind) = {"tags"} /\ ~Kind(Attachment) /\ \A state : ReadyIs(state)
      BY <1>1, <2>1, <2>3
    <3>1. /\ DOMAIN obj = DOMAIN Obj /\ obj.options = Obj.options \cup w.spec.options
          /\ \A f \in DOMAIN Obj \ {"options"} : obj[f] = Obj[f]
      BY <3>0
    <3> HIDE DEF obj
    <3>2. ObjectIs(obj)
      BY <3>0, <3>1, ObjectStillIs
    <3>3. Carried("modifyOptions", obj)
      BY <3>0, <3>1 DEF Carried, CallsFor
    <3> QED BY <2>1, <2>3, <3>0, <3>2, <3>3, PlanCallOK
  <2> QED BY <2>1, <2>2, <2>3
<1> QED BY <1>2, <1>3, <1>4

LEMMA PeeringStepOK ==
  ASSUME Tracked, PeeringStep
  PROVE  ObjectsOK' /\ SpecsOK' /\ InSight'
<1>1. CASE sdkFindPeering \/ sdkCreatePeering \/ sdkDeletePeering
  <2>0. w.spec.kind = Peering /\ w.spec.kind \in Kinds
    BY <1>1 DEF sdkFindPeering, sdkCreatePeering, sdkDeletePeering, Kind, Kinds, Peering
  <2>1. CASE sdkFindPeering
    <3> DEFINE found == IF Obj.state = "initiating-request" THEN RequeueLater ELSE Found
    <3>1. Describe(found, onError) /\ At("describe")
      BY <2>1 DEF sdkFindPeering, Describe
    <3>2. ReadyIs(Obj.state)
      BY <2>0 DEF ReadyIs, Service, Peering
    <3>3. /\ Found.pc = "found" /\ Found.spec = w.spec /\ Found.mode = w.mode /\ Found.id = w.id
          /\ Found.seen = Obj
      BY <3>1, HandedOn
    <3>4. \/ found \in {NotFound, RequeueLater}
          \/ /\ found.pc = "found" \/ (found.pc = "principals" /\ Kind(Service))
             /\ found.spec = w.spec /\ found.mode = w.mode /\ found.id = w.id
             /\ found.seen = Obj /\ (found.end = "synced" => ReadyIs(Obj.state))
             /\ Kind(Peering) => Obj.state # "initiating-request"
      BY <3>2, <3>3
    <3> HIDE DEF found
    <3> QED BY <2>0, <3>1, <3>4, DescribeOK
  <2>2. CASE sdkCreatePeering
    <3> DEFINE obj == [live |-> TRUE, state |-> "initiating-request", options |-> {},
                       tags |-> w.spec.tags]
    <3>1. /\ At("create") /\ w.spec.kind = cr.spec.kind
          /\ CreateObject(obj, [w EXCEPT !.pc = "requeue"])
      BY <2>2, TrackedIs DEF sdkCreatePeering, At, RequeueLater
    <3>2. DOMAIN obj = {"live", "state", "options", "tags"} /\ obj.live = TRUE
      OBVIOUS
    <3> HIDE DEF obj
    <3>3. ObjectIs(obj)
      BY <2>0, <3>1, <3>2 DEF ObjectIs, Fields, PlainKinds, Attachment, Peering, Service
    <3> QED BY <3>1, <3>3, CreateOK
  <2>3. CASE sdkDeletePeering
    BY <2>3, DeletingIs, RetireOK DEF sdkDeletePeering
  <2> QED BY <1>1, <2>1, <2>2, <2>3
<1> QED BY <1>1, PeeringUpdateOK, PeeringCallsOK DEF PeeringStep

----------------------------------------------------------------------------
(* The theorem.                                                            *)

LEMMA TrackedInit == Init => Tracked
<1> SUFFICES ASSUME Init PROVE Tracked
  OBVIOUS
<1>1. IInv /\ w.pc = "idle"
  BY InvInit, IdleIs DEF Init
<1>2. PICK spec \in Specs : cr = NewCR(spec)
  BY DEF Init
<1>3. ObjectsOK /\ SpecsOK
  BY <1>1, <1>2 DEF Init, ObjectsOK, SpecsOK, At, NewCR
<1>4. InSight
  BY <1>1 DEF InSight, StageOK, ReadOK, AttachmentOK, PlanOK, DoneOK, At, Ends
<1> QED BY <1>1, <1>3, <1>4 DEF Tracked

LEMMA TrackedStep ==
  ASSUME FixedConnectivity, OneLeaves, Tracked, [Next]_vars
  PROVE  Tracked'
<1>1. IInv'
  BY NextIsSound DEF Tracked, IInv, Sound
<1>2. CASE Reconcile
  <2>1. CASE RuntimeStep
    BY <1>1, <2>1, RuntimeOK DEF Tracked
  <2>2. CASE PendingGatewayStep
    <3>1. \/ \/ sdkFindNATGateway \/ sdkCreateNATGateway \/ customUpdateNATGateway
             \/ sdkDeleteNATGateway
          \/ \/ sdkFindTransitGateway \/ sdkCreateTransitGateway \/ customUpdateTransitGateway
             \/ sdkDeleteTransitGateway
      BY <2>2 DEF PendingGatewayStep
    <3>2. ObjectsOK' /\ SpecsOK' /\ InSight'
      BY <3>1, NATGatewayOK, TransitGatewayOK, Zenon
    <3> QED BY <1>1, <3>2 DEF Tracked
  <2>3. CASE AttachmentStep
    BY <1>1, <2>3, AttachmentStepOK DEF Tracked
  <2>4. CASE PeeringStep
    BY <1>1, <2>4, PeeringStepOK DEF Tracked
  <2>5. CASE VPCEndpointStep
    BY <1>1, <2>5, EndpointStepOK DEF Tracked
  <2>6. CASE ServiceStep
    BY <1>1, <2>6, ServiceStepOK DEF Tracked
  <2>7. CASE PlainObjectStep
    BY <1>1, <2>7, PlainObjectOK DEF Tracked
  <2> QED BY <1>2, <2>1, <2>2, <2>3, <2>4, <2>5, <2>6, <2>7 DEF Reconcile
<1>3. CASE WorldStep \/ Drift \/ (\E i \in Ids : Settle(i)) \/ Fails \/ UNCHANGED vars
  <2>1. ObjectsOK' /\ SpecsOK' /\ InSight'
    BY <1>3, WorldOK, DriftOK, SettleOK, FailsOK
  <2> QED BY <1>1, <2>1 DEF Tracked
<1> QED BY <1>2, <1>3 DEF Next

\* An update of any of these kinds that reports success, while nobody interfered
\* and no error was dropped, leaves the object as declared: its tags, the subnets,
\* the principals and the acceptance it needs, the peering's acceptance and options,
\* a NAT gateway or a service that is available and an endpoint that is not pending
\* (customUpdate, sdkUpdate and tags.Sync of the seven managers, whatever EC2 does
\* meanwhile).  The security groups of an endpoint are not among these: sdkFind
\* never reads them into the spec.  The public or
\* private connectivity of a NAT gateway is compared with nothing, and compareSubnetIDs
\* takes one subnet away, not two: the specs keep the first and ask for no more.
THEOREM ExactCorrect == FixedConnectivity /\ OneLeaves /\ Spec => []SyncedIsExact
<1> SUFFICES ASSUME FixedConnectivity, OneLeaves PROVE Spec => []SyncedIsExact
  OBVIOUS
<1>1. Tracked /\ [Next]_vars => Tracked'
  BY TrackedStep
<1>2. Tracked => SyncedIsExact
  <2> SUFFICES ASSUME Tracked, At("synced"), w.mode = "update", Unbiased
               PROVE  Exact(Obj, w.spec)
    BY DEF SyncedIsExact, Unbiased
  <2>1. /\ ~At("idle") /\ w.spec.kind \in Kinds /\ w.id \in Ids /\ ComesTo(Obj, {}) /\ Obj # Gone
    BY DEF Tracked, InSight, StageOK, DoneOK, Unbiased, At
  <2> QED BY <2>1, ComesToExact
<1> QED BY <1>1, <1>2, TrackedInit, PTL DEF Spec

==============================================================================
