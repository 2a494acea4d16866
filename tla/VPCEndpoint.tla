---------------------------- MODULE VPCEndpoint ----------------------------
(***************************************************************************)
(* The VPC endpoint controller.  Source: pkg/resource/vpc_endpoint/        *)
(* {hooks,sdk}.go.  The subnets stand for the route tables and the single  *)
(* values too, which the same call changes.  The security groups, which    *)
(* are read differently, are a field of their own.                         *)
(***************************************************************************)
EXTENDS AwaitedObject

\* sdkFind sets the condition of an endpoint that is pending to unsynced.  The
\* security groups it reads go to the status only: in the latest spec stay the
\* declared ones.
sdkFindVPCEndpoint ==
  /\ Kind("vpc_endpoint")
  /\ Describe([Found EXCEPT !.seen.groups = w.spec.groups,
                            !.end = IF Obj.state = "pending" THEN "requeue" ELSE "synced"],
              onError)

newVPCEndpointDelta == DifferentAt({"tags", "subnets", "groups"})

\* What newCreateRequestPayload asks for.
newVPCEndpoint ==
  [live |-> TRUE, state |-> "pending", subnets |-> w.spec.subnets,
   groups |-> w.spec.groups, tags |-> w.spec.tags]

sdkCreateVPCEndpoint ==
  /\ Kind("vpc_endpoint") /\ At("create")
  /\ CreateObject(newVPCEndpoint, RequeueLater)

\* customUpdateVPCEndpoint: the tags, and everything else in one call.  What it
\* returns is the desired object: that sdkFind found it pending is lost.
customUpdateVPCEndpoint ==
  /\ Kind("vpc_endpoint") /\ Updating
  /\ LET tags    == "tags" \in newVPCEndpointDelta
         others  == newVPCEndpointDelta \ {"tags"} # {}
         changed == tags \/ others
     IN  Go([Plan(When(tags, "tags", {}) \o When(others, "modifyEndpoint", {}))
             EXCEPT !.end   = IF changed THEN "synced" ELSE @,
                    !.blind = @ \/ (changed /\ w.seen.state = "pending")])

\* mutant of calculateSubnetDifferences: every subnet that is there is removed.
calculateSubnetDifferences_all(desired, latest) == [add |-> desired \ latest, remove |-> latest]

calculateSubnetDifferences(desired, latest) ==
  [add |-> desired \ latest, remove |-> latest \ desired]

ModifyVpcEndpoint ==
  /\ Doing("modifyEndpoint")
  /\ LET subnets == calculateSubnetDifferences(w.spec.subnets, w.seen.subnets)
         groups  == calculateSubnetDifferences(w.spec.groups, w.seen.groups)
     IN  IF Obj.live /\ Obj.state = "available"
         THEN Call([Obj EXCEPT !.subnets = (@ \cup subnets.add) \ subnets.remove,
                               !.groups = (@ \cup groups.add) \ groups.remove], Done, onError)
         ELSE Go(onError)

\* sdkDelete.  An endpoint that EC2 does not delete is listed in the answer, which
\* is no error and which nobody reads; here EC2 deletes what it is asked to.
sdkDeleteVPCEndpoint == Kind("vpc_endpoint") /\ Deleting /\ Retire

VPCEndpointStep ==
  \/ sdkFindVPCEndpoint \/ sdkCreateVPCEndpoint \/ customUpdateVPCEndpoint
  \/ ModifyVpcEndpoint \/ sdkDeleteVPCEndpoint

\* Though perhaps failed or being deleted, and with the security groups it was
\* made with.
VPCEndpointIs(obj, spec) ==
  obj.state # "pending" /\ obj.subnets = spec.subnets /\ obj.tags = spec.tags
=============================================================================
