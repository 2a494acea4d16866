---------------------------- MODULE Provisioning ----------------------------
(***************************************************************************)
(* The kinds that EC2 provides in its own time, gateways, attachments,     *)
(* peerings, endpoints and their services, and the plain ones.  The CR is  *)
(* of one of these kinds.                                                  *)
(***************************************************************************)
EXTENDS PendingGateway, TransitGatewayVPCAttachment, VPCPeeringConnection, VPCEndpoint,
        VPCEndpointServiceConfiguration, PlainObject

Reconcile ==
  \/ RuntimeStep \/ PendingGatewayStep \/ AttachmentStep \/ PeeringStep
  \/ VPCEndpointStep \/ ServiceStep \/ PlainObjectStep

Awaited == cr.spec.kind \notin PlainKinds

\* EC2 goes on with what it was told.
Settle(i) == Awaited /\ (AwaitedSettles(i) \/ PeeringSettles(i))

Fails == Awaited /\ \E i \in Live : AwaitedFails(i)

Drift ==
  \E i \in Live :
    \/ Awaited /\ AwaitedDrift(i)
    \/ ~Awaited /\ PlainObjectDrift(i)
    \/ cr.spec.kind = "vpc_peering_connection" /\ PeeringDrift(i)
    \/ cr.spec.kind = "vpc_endpoint_service_configuration" /\ ServiceDrift(i)

Next == Reconcile \/ WorldStep \/ Drift \/ (\E i \in Ids : Settle(i)) \/ Fails

Spec     == Init /\ [][Next]_vars

\* Every CR is requeued, after an error and on the resync period; EC2 completes
\* what is pending.
FairSpec == Spec /\ WF_vars(Reconcile) /\ WF_vars(\E i \in Ids : Settle(i))

----------------------------------------------------------------------------
Exact(obj, spec) ==
  CASE spec.kind = "nat_gateway"                        -> NATGatewayIs(obj, spec)
    [] spec.kind = "transit_gateway"                    -> TransitGatewayIs(obj, spec)
    [] spec.kind = "transit_gateway_vpc_attachment"     -> AttachmentIs(obj, spec)
    [] spec.kind = "vpc_peering_connection"             -> PeeringIs(obj, spec)
    [] spec.kind = "vpc_endpoint"                       -> VPCEndpointIs(obj, spec)
    [] spec.kind = "vpc_endpoint_service_configuration" -> ServiceIs(obj, spec)
    [] spec.kind \in PlainKinds                         -> PlainObjectIs(obj, spec)

\* An update that reports success leaves what was declared, unless another client
\* interfered or the controller dropped an error or the condition it had set.  EC2
\* may be working on the object all the time; that it is ready is part of it for a
\* NAT gateway, an endpoint and an endpoint service.
SyncedIsExact ==
  At("synced") /\ w.mode = "update" /\ ~w.interfered /\ ~w.blind =>
    (Obj # Gone => Exact(Obj, w.spec))

\* What EC2 grants: nothing to an object that has failed or is forgotten, on its
\* way out or refused.  An acceptance cannot be taken back, and options need it.
Granted(spec) ==
  /\ spec.kind = "nat_gateway" => ~(spec.availability = "regional" /\ spec.connectivity = "private")
  /\ cr.id # 0 =>
       LET obj == ec2[cr.id]
       IN  /\ obj # Gone
           /\ Awaited => obj.state # "failed"
           /\ spec.kind = "nat_gateway" => obj.connectivity = spec.connectivity
           /\ spec.kind \in {"transit_gateway_vpc_attachment", "vpc_endpoint"} => obj.live
           /\ spec.kind = "vpc_peering_connection" =>
                /\ obj.live
                /\ ~spec.accept => obj.state = "pending-acceptance" /\ spec.options = {}
           /\ spec.kind = "vpc_endpoint_service_configuration" => obj.live

\* After the last fault, edit and drift the object is as declared and the CR says
\* so, if EC2 grants it: a gateway that somebody deleted is replaced while EC2
\* still remembers it, a peering is accepted and then gets its options.
Converges ==
  <>[](cr.phase = "live" /\ Granted(cr.spec) =>
         cr.synced /\ cr.id # 0 /\ Exact(ec2[cr.id], cr.spec))
=============================================================================
