------------------------------- MODULE Subnet -------------------------------
(***************************************************************************)
(* The subnet controller.  Source: pkg/resource/subnet/{hooks,sdk}.go.     *)
(* Two of the seven attributes that are set by a call each stand for all.  *)
(***************************************************************************)
EXTENDS RouteTableAssociation

SubnetAttributes == {"EnableDNS64", "MapPublicIPOnLaunch"}

\* sdkFind: the answer InvalidSubnetID.NotFound is an error like any other.
sdkFindSubnet ==
  Kind("subnet") /\ Describe([Found EXCEPT !.pc = "associations"], onError)

newSubnetDelta ==
  DifferentAt({"tables", "tags"})
    \cup {a \in SubnetAttributes : (a \in w.spec.attrs) # (a \in w.seen.attrs)}

\* What newCreateRequestPayload asks for.
newSubnet == [live |-> TRUE, tables |-> {}, attrs |-> {}, tags |-> w.spec.tags]

\* sdkCreate leaves everything but the tags to an update, and asks for one.
sdkCreateSubnet ==
  /\ Kind("subnet") /\ At("create")
  /\ CreateObject(newSubnet, [w EXCEPT !.pc = "requeue"])

\* customUpdateSubnet: the route tables, the tags, the attributes one by one.
customUpdateSubnet ==
  /\ Kind("subnet") /\ Updating
  /\ Go(Plan(When("tables" \in newSubnetDelta, "routeTables", {})
               \o When("tags" \in newSubnetDelta, "tags", {})
               \o When("EnableDNS64" \in newSubnetDelta, "attribute", "EnableDNS64")
               \o When("MapPublicIPOnLaunch" \in newSubnetDelta,
                       "attribute", "MapPublicIPOnLaunch")))

\* ModifySubnetAttribute takes one attribute.
updateSubnetAttribute ==
  /\ Doing("attribute")
  /\ IF Obj.live
     THEN Call([Obj EXCEPT !.attrs = IF Arg \in w.spec.attrs THEN @ \cup {Arg} ELSE @ \ {Arg}],
               Done, onError)
     ELSE Go(onError)

sdkDeleteSubnet == Kind("subnet") /\ Deleting /\ Delete(TRUE)

SubnetStep ==
  \/ sdkFindSubnet \/ sdkCreateSubnet \/ customUpdateSubnet \/ updateSubnetAttribute
  \/ sdkDeleteSubnet

SubnetDrift(i) ==
  \/ DisassociatedByOthers(i)
  \/ \E a \in ec2[i].attrs : OtherClient(i, [ec2[i] EXCEPT !.attrs = @ \ {a}])

\* The subnet is as declared.
SubnetIs(obj, spec) ==
  obj.tables = spec.tables /\ obj.attrs = spec.attrs /\ obj.tags = spec.tags
=============================================================================
