-------------------- MODULE TransitGatewayVPCAttachment --------------------
(***************************************************************************)
(* The transit gateway VPC attachment controller.                          *)
(* Source: pkg/resource/transit_gateway_vpc_attachment/{hooks,sdk}.go.     *)
(* The subnets stand for the options too, which the same call changes.     *)
(***************************************************************************)
EXTENDS AwaitedObject

\* sdkFind takes an attachment in any state.
sdkFindAttachment ==
  Kind("transit_gateway_vpc_attachment") /\ Describe(Found, onError)

newAttachmentDelta == DifferentAt({"tags", "subnets"})

\* What newCreateRequestPayload asks for.
newAttachment ==
  [live |-> TRUE, state |-> "pending", subnets |-> w.spec.subnets, tags |-> w.spec.tags]

sdkCreateAttachment ==
  /\ Kind("transit_gateway_vpc_attachment") /\ At("create")
  /\ CreateObject(newAttachment, [w EXCEPT !.pc = "synced"])

\* sdkUpdate: the tags, and the subnets, if the attachment is available; if not,
\* the pass ends with a requeue.
sdkUpdateAttachment ==
  /\ Kind("transit_gateway_vpc_attachment") /\ Updating
  /\ LET subnets == "subnets" \in newAttachmentDelta
         ready   == w.seen.state = "available"
     IN  Go([Plan(When("tags" \in newAttachmentDelta, "tags", {})
                    \o When(subnets /\ ready, "modifyAttachment", {}))
             EXCEPT !.end = IF subnets /\ ~ready THEN "requeue" ELSE @])

\* compareSubnetIDs: `toRemove = append(toAdd, l)` starts over with every subnet
\* that is to go.  What is left is the last of them, and all that are to come.
compareSubnetIDs(want, have) ==
  LET add == want \ have
  IN  IF have \subseteq want
      THEN {[add |-> add, remove |-> {}]}
      ELSE {[add |-> add, remove |-> add \cup {last}] : last \in have \ want}

\* ModifyTransitGatewayVpcAttachment does not take the same subnet twice.
ModifyTransitGatewayVpcAttachment ==
  /\ Doing("modifyAttachment")
  /\ \E change \in compareSubnetIDs(w.spec.subnets, w.seen.subnets) :
       IF Obj.live /\ Obj.state = "available" /\ change.add \cap change.remove = {}
       THEN Call([Obj EXCEPT !.subnets = (@ \cup change.add) \ change.remove,
                    !.state = "modifying"], Done, onError)
       ELSE Go(onError)

sdkDeleteAttachment ==
  Kind("transit_gateway_vpc_attachment") /\ Deleting /\ Retire

AttachmentStep ==
  \/ sdkFindAttachment \/ sdkCreateAttachment \/ sdkUpdateAttachment
  \/ ModifyTransitGatewayVpcAttachment \/ sdkDeleteAttachment

\* Though perhaps failed or being deleted.
AttachmentIs(obj, spec) == obj.subnets = spec.subnets /\ obj.tags = spec.tags

\* test_transitgateway_vpc_attachment.py patches the subnets of an attachment, waits
\* for the CR to be synced, and asserts that the attachment is in these subnets and
\* in no others.
SyncedInDeclaredSubnets ==
  At("synced") /\ w.mode = "update" /\ ~w.interfered /\ Obj.live
  /\ Kind("transit_gateway_vpc_attachment") =>
    Obj.subnets = w.spec.subnets
=============================================================================
