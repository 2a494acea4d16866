--------------------------- MODULE PendingGateway ---------------------------
(***************************************************************************)
(* The NAT gateway and the transit gateway controllers: while a gateway is *)
(* pending sdkFind answers neither with it nor that there is none.         *)
(* Source: pkg/resource/{nat_gateway,transit_gateway}/{hooks,sdk}.go.      *)
(***************************************************************************)
EXTENDS AwaitedObject

\* mutant of sdkFindNATGateway: whatever is not available is awaited.
sdkFindNATGateway_awaitAll ==
  /\ Kind("nat_gateway")
  /\ Describe(CASE Obj.state = "deleted"   -> NotFound
                [] Obj.state = "available" -> ReportReady(Found, TRUE)
                [] OTHER                   -> RequeueLater,
              onError)

\* sdkFind: a gateway that failed is found like one that is available, but it is
\* not synced, and never replaced.
sdkFindNATGateway ==
  /\ Kind("nat_gateway")
  /\ Describe(CASE Obj.state = "deleted" -> NotFound
                [] Obj.state = "pending" -> RequeueLater
                [] OTHER                 -> ReportReady(Found, Obj.state = "available"),
              onError)

newNATGatewayDelta     == DifferentAt({"tags"})
newTransitGatewayDelta == DifferentAt({"tags"})

\* What newCreateRequestPayload asks for.
newNATGateway ==
  [live |-> TRUE, state |-> "pending", tags |-> w.spec.tags,
   connectivity |-> IF w.spec.availability = "regional" THEN "public" ELSE w.spec.connectivity]

newTransitGateway == [live |-> TRUE, state |-> "pending", tags |-> w.spec.tags]

\* A regional gateway that is private would become public: it is refused.
sdkCreateNATGateway ==
  /\ Kind("nat_gateway") /\ At("create")
  /\ IF w.spec.availability = "regional" /\ w.spec.connectivity = "private"
     THEN Go(CreateFailed)
     ELSE CreateObject(newNATGateway, RequeueLater)

customUpdateNATGateway ==
  /\ Kind("nat_gateway") /\ Updating
  /\ Go(Plan(When("tags" \in newNATGatewayDelta, "tags", {})))

sdkDeleteNATGateway == Kind("nat_gateway") /\ Deleting /\ Retire

\* The same, but whatever is found counts as synced, also what was just created.
sdkFindTransitGateway ==
  /\ Kind("transit_gateway")
  /\ Describe(CASE Obj.state = "deleted" -> NotFound
                [] Obj.state = "pending" -> RequeueLater
                [] OTHER                 -> Found,
              onError)

sdkCreateTransitGateway ==
  /\ Kind("transit_gateway") /\ At("create")
  /\ CreateObject(newTransitGateway, [w EXCEPT !.pc = "synced"])

customUpdateTransitGateway ==
  /\ Kind("transit_gateway") /\ Updating
  /\ Go(Plan(When("tags" \in newTransitGatewayDelta, "tags", {})))

sdkDeleteTransitGateway == Kind("transit_gateway") /\ Deleting /\ Retire

PendingGatewayStep ==
  \/ sdkFindNATGateway \/ sdkCreateNATGateway \/ customUpdateNATGateway \/ sdkDeleteNATGateway
  \/ sdkFindTransitGateway \/ sdkCreateTransitGateway \/ customUpdateTransitGateway
  \/ sdkDeleteTransitGateway

NATGatewayIs(obj, spec) ==
  /\ obj.live /\ obj.state = "available"
  /\ obj.connectivity = spec.connectivity /\ obj.tags = spec.tags

\* Though perhaps being deleted.
TransitGatewayIs(obj, spec) == obj.tags = spec.tags
=============================================================================
