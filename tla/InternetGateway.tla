-------------------------- MODULE InternetGateway --------------------------
(***************************************************************************)
(* The internet gateway controller.                                        *)
(* Source: pkg/resource/internet_gateway/{hooks,sdk}.go.                   *)
(* A gateway is attached to one VPC at most, at once and without a state   *)
(* in between; no VPC is NoVPC.                                            *)
(***************************************************************************)
EXTENDS RouteTableAssociation

CONSTANT NoVPC

sdkFindInternetGateway ==
  Kind("internet_gateway") /\ Describe([Found EXCEPT !.pc = "associations"], onError)

newInternetGatewayDelta == DifferentAt({"vpc", "tables", "tags"})

\* sdkCreate attaches the gateway and associates its tables; an error on the way
\* loses the id of the gateway (see onError).
sdkCreateInternetGateway ==
  /\ Kind("internet_gateway") /\ At("create")
  /\ \E tables \in ForEach("associate", w.spec.tables) :
       CreateObject([live |-> TRUE, vpc |-> NoVPC, tables |-> {}, tags |-> w.spec.tags],
                    Plan(When(w.spec.vpc # NoVPC, "attach", w.spec.vpc) \o tables))

\* customUpdateInternetGateway: the VPC, the route tables, the tags.
customUpdateInternetGateway ==
  /\ Kind("internet_gateway") /\ Updating
  /\ LET moved == "vpc" \in newInternetGatewayDelta
     IN  Go(Plan(When(moved /\ w.seen.vpc # NoVPC, "detach", w.seen.vpc)
                   \o When(moved /\ w.spec.vpc # NoVPC, "attach", w.spec.vpc)
                   \o When("tables" \in newInternetGatewayDelta, "routeTables", {})
                   \o When("tags" \in newInternetGatewayDelta, "tags", {})))

detachFromVPC ==
  /\ Doing("detach")
  /\ IF Obj.live /\ Obj.vpc = Arg
     THEN Call([Obj EXCEPT !.vpc = NoVPC], Done, onError)
     ELSE Go(onError)

attachToVPC ==
  /\ Doing("attach")
  /\ IF Obj.live /\ Obj.vpc = NoVPC
     THEN Call([Obj EXCEPT !.vpc = Arg], Done, onError)
     ELSE Go(onError)

\* mutant of sdkDeleteInternetGateway: it is not detached first.
sdkDeleteInternetGateway_attached ==
  /\ Kind("internet_gateway")
  /\ \/ Deleting /\ Go(Plan(<<<<"delete", {}>>>>))
     \/ Doing("delete") /\ Delete(Obj.live /\ Obj.vpc = NoVPC)

\* sdkDelete: DeleteInternetGateway refuses a gateway that is attached.
sdkDeleteInternetGateway ==
  /\ Kind("internet_gateway")
  /\ \/ /\ Deleting
        /\ Go(Plan(When(w.seen.vpc # NoVPC, "detach", w.seen.vpc) \o <<<<"delete", {}>>>>))
     \/ Doing("delete") /\ Delete(Obj.live /\ Obj.vpc = NoVPC)

InternetGatewayStep ==
  \/ sdkFindInternetGateway \/ sdkCreateInternetGateway \/ customUpdateInternetGateway
  \/ detachFromVPC \/ attachToVPC \/ sdkDeleteInternetGateway

InternetGatewayDrift(i) ==
  \/ DisassociatedByOthers(i)
  \/ ec2[i].vpc # NoVPC /\ OtherClient(i, [ec2[i] EXCEPT !.vpc = NoVPC])

InternetGatewayIs(obj, spec) ==
  obj.vpc = spec.vpc /\ obj.tables = spec.tables /\ obj.tags = spec.tags
=============================================================================
