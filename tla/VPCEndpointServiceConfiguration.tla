------------------ MODULE VPCEndpointServiceConfiguration ------------------
(***************************************************************************)
(* The VPC endpoint service configuration controller.                      *)
(* Source: pkg/resource/vpc_endpoint_service_configuration/{hooks,sdk}.go. *)
(* Of the status `version` is 1 if the state recorded is Available; the    *)
(* principals stand for the supported regions too.                         *)
(***************************************************************************)
EXTENDS AwaitedObject

\* sdkFind: the service, and then the principals that may use it.
sdkFindService ==
  /\ Kind("vpc_endpoint_service_configuration")
  /\ Describe([ReportReady(Found, Obj.state = "available") EXCEPT !.pc = "principals"], onError)

\* setAdditionalFields: its error is dropped, and the declared principals are
\* taken for those in place.
setAdditionalFields ==
  /\ At("principals")
  /\ LET read(principals) == [w EXCEPT !.pc = "found", !.seen.principals = principals]
     IN  \/ Go(IF Obj # Gone THEN read(Obj.principals)
               ELSE [read(w.spec.principals) EXCEPT !.blind = TRUE])
         \/ Unread([read(w.spec.principals) EXCEPT !.blind = TRUE])

newServiceDelta == DifferentAt({"tags", "principals", "acceptance"})

\* What newCreateRequestPayload asks for.
newService ==
  [live |-> TRUE, state |-> "pending", principals |-> {}, acceptance |-> w.spec.acceptance,
   tags |-> w.spec.tags]

\* sdkCreate leaves the principals to an update, and asks for one.
sdkCreateService ==
  /\ Kind("vpc_endpoint_service_configuration") /\ At("create")
  /\ CreateObject(newService, RequeueLater)

\* sdkUpdate: nothing unless the service is available; the tags, the principals,
\* the rest.  What is returned has the state that was recorded last.
sdkUpdateService ==
  /\ Kind("vpc_endpoint_service_configuration") /\ Updating
  /\ LET tags       == "tags" \in newServiceDelta
         principals == "principals" \in newServiceDelta
         acceptance == "acceptance" \in newServiceDelta
     IN  IF newServiceDelta # {}
         THEN Go(IF w.seen.state # "available" THEN RequeueLater
                 ELSE [Plan(When(tags, "tags", {})
                              \o When(principals, "modifyPermissions", {})
                              \o When(acceptance, "modifyService", {})
                              \o <<<<"desired", {}>>>>)
                       EXCEPT !.end = IF cr.version = 1 THEN "synced" ELSE "requeue"])
         ELSE Go(Plan(<<>>))

\* ModifyVpcEndpointServicePermissions, with the principals to add and to remove.
modifyAllowedPrincipals ==
  /\ Doing("modifyPermissions")
  /\ IF Obj.live
     THEN Call([Obj EXCEPT !.principals = (@ \cup (w.spec.principals \ w.seen.principals))
                                             \ (w.seen.principals \ w.spec.principals)],
               Done, onError)
     ELSE Go(onError)

ModifyVpcEndpointServiceConfiguration ==
  /\ Doing("modifyService")
  /\ IF Obj.live THEN Call([Obj EXCEPT !.acceptance = w.spec.acceptance], Done, onError)
     ELSE Go(onError)

\* sdkDelete: what EC2 does not delete is an error.
sdkDeleteService ==
  Kind("vpc_endpoint_service_configuration") /\ Deleting /\ Retire

ServiceStep ==
  \/ sdkFindService \/ setAdditionalFields \/ sdkCreateService \/ sdkUpdateService
  \/ modifyAllowedPrincipals \/ ModifyVpcEndpointServiceConfiguration \/ sdkDeleteService

\* Somebody takes the principals away.
ServiceDrift(i) == OtherClient(i, [ec2[i] EXCEPT !.principals = {}])

ServiceIs(obj, spec) ==
  /\ obj.live /\ obj.state = "available" /\ obj.principals = spec.principals
  /\ obj.acceptance = spec.acceptance /\ obj.tags = spec.tags
=============================================================================
