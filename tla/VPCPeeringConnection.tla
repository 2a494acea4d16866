------------------------ MODULE VPCPeeringConnection ------------------------
(***************************************************************************)
(* The VPC peering connection controller.                                  *)
(* Source: pkg/resource/vpc_peering_connection/{hooks,sdk}.go.             *)
(* `options` are the sides, accepter and requester, that resolve names of  *)
(* the other one (AllowDNSResolutionFromRemoteVPC).  What EC2 has of them  *)
(* is never read: sdkFind repeats the declared ones, the accepter's under  *)
(* a wrong name, so that they always differ.                               *)
(***************************************************************************)
EXTENDS AwaitedObject

\* What sdkFind makes of the state: Spec.AcceptRequest of the object read.
acceptSeen(state) ==
  CASE state = "pending-acceptance"          -> FALSE
    [] state \in {"active", "provisioning"}  -> TRUE
    [] OTHER                                 -> w.spec.accept

newPeeringDelta ==
  DifferentAt({"tags"})
    \cup (IF w.spec.accept # acceptSeen(w.seen.state) THEN {"accept"} ELSE {})
    \cup (IF "accepter" \in w.spec.options THEN {"options"} ELSE {})

sdkFindPeering ==
  /\ Kind("vpc_peering_connection")
  /\ Describe(IF Obj.state = "initiating-request" THEN RequeueLater ELSE Found, onError)

sdkCreatePeering ==
  /\ Kind("vpc_peering_connection") /\ At("create")
  /\ CreateObject([live |-> TRUE, state |-> "initiating-request", options |-> {},
                   tags |-> w.spec.tags],
                  RequeueLater)

\* mutant of sdkUpdatePeering: the options are sent before the acceptance.
sdkUpdatePeering_optionsFirst ==
  /\ Kind("vpc_peering_connection") /\ Updating
  /\ LET tags    == "tags" \in newPeeringDelta
         accept  == "accept" \in newPeeringDelta
         options == "options" \in newPeeringDelta
     IN  IF newPeeringDelta # {} /\ w.seen.state \in {"provisioning", "deleting"}
         THEN Go(RequeueLater)
         ELSE Go([Plan(When(tags, "tags", {})
                         \o When(options, "modifyOptions", {})
                         \o When(accept /\ w.spec.accept, "accept", {})
                         \o When(accept /\ w.spec.accept, "findPeering", {}))
                  EXCEPT !.end = IF ~accept THEN @
                                 ELSE IF w.spec.accept THEN "requeue" ELSE "failed"])

\* sdkUpdate: while EC2 works on the connection, a requeue; the tags; then it is
\* accepted, and the rest left to the next pass; an acceptance cannot be taken
\* back; or, if something else differs, the options.
sdkUpdatePeering ==
  /\ Kind("vpc_peering_connection") /\ Updating
  /\ LET tags    == "tags" \in newPeeringDelta
         accept  == "accept" \in newPeeringDelta
         options == "options" \in newPeeringDelta
     IN  IF newPeeringDelta # {} /\ w.seen.state \in {"provisioning", "deleting"}
         THEN Go(RequeueLater)
         ELSE Go([Plan(When(tags, "tags", {})
                         \o When(accept /\ w.spec.accept, "accept", {})
                         \o When(accept /\ w.spec.accept, "findPeering", {})
                         \o When(~accept /\ options, "modifyOptions", {}))
                  EXCEPT !.end = IF ~accept THEN @
                                 ELSE IF w.spec.accept THEN "requeue" ELSE "failed"])

AcceptVpcPeeringConnection ==
  /\ Doing("accept")
  /\ IF Obj # Gone /\ Obj.state = "pending-acceptance"
     THEN Call([Obj EXCEPT !.state = "provisioning"], Done, onError)
     ELSE Go(onError)

findPeeringAfterAccept ==
  Doing("findPeering") /\ (Go(IF Obj # Gone THEN Done ELSE onError) \/ Unread(onError))

\* ModifyVpcPeeringConnectionOptions needs an active connection.
ModifyVpcPeeringConnectionOptions ==
  /\ Doing("modifyOptions")
  /\ IF Obj # Gone /\ Obj.state = "active"
     THEN Call([Obj EXCEPT !.options = @ \cup w.spec.options], Done, onError)
     ELSE Go(onError)

sdkDeletePeering == Kind("vpc_peering_connection") /\ Deleting /\ Retire

PeeringStep ==
  \/ sdkFindPeering \/ sdkCreatePeering \/ sdkUpdatePeering \/ AcceptVpcPeeringConnection
  \/ findPeeringAfterAccept \/ ModifyVpcPeeringConnectionOptions \/ sdkDeletePeering

PeeringSettles(i) ==
  \/ Becomes(i, "initiating-request", "pending-acceptance")
  \/ Becomes(i, "provisioning", "active")

\* The owner of the other VPC accepts it.
PeeringDrift(i) ==
  /\ ec2[i].state = "pending-acceptance"
  /\ OtherClient(i, [ec2[i] EXCEPT !.state = "provisioning"])

\* Accepted, if so declared, and the options of both sides, if those of the
\* accepter are declared; though perhaps failed or being deleted.
PeeringIs(obj, spec) ==
  /\ obj.tags = spec.tags
  /\ spec.accept => obj.state \notin {"initiating-request", "pending-acceptance"}
  /\ "accepter" \in spec.options => spec.options \subseteq obj.options
=============================================================================
