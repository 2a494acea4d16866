--------------------------- MODULE MCProvisioning ---------------------------
(* Instances of Provisioning for TLC.                                      *)
EXTENDS Provisioning

CONSTANTS s1, s2, s3, g1, g2, p1, p2, t1, t2

NATSpec(availability, connectivity, tags) ==
  [kind |-> "nat_gateway", availability |-> availability, connectivity |-> connectivity,
   tags |-> tags]
AttachmentSpec(subnets, tags) ==
  [kind |-> "transit_gateway_vpc_attachment", subnets |-> subnets, tags |-> tags]
PeeringSpec(accept, options, tags) ==
  [kind |-> "vpc_peering_connection", accept |-> accept, options |-> options, tags |-> tags]
EndpointSpec(subnets, groups, tags) ==
  [kind |-> "vpc_endpoint", subnets |-> subnets, groups |-> groups, tags |-> tags]
ServiceSpec(principals, acceptance, tags) ==
  [kind |-> "vpc_endpoint_service_configuration", principals |-> principals,
   acceptance |-> acceptance, tags |-> tags]
OtherSpec(kind, tags) == [kind |-> kind, tags |-> tags]

\* The subnets of an attachment only grow, or shrink by one (see MCSubnetSpecs).
MCSpecs ==
  { NATSpec("zonal", "private", {t1}), NATSpec("zonal", "private", {t2}),
    NATSpec("regional", "private", {t1}),
    AttachmentSpec({s1}, {t1}), AttachmentSpec({s1, s2}, {t2}),
    PeeringSpec(FALSE, {}, {t1}), PeeringSpec(TRUE, {"accepter", "requester"}, {t2}),
    EndpointSpec({s1, s2}, {g1}, {t1}), EndpointSpec({s2, s3}, {g2}, {t2}),
    EndpointSpec({s1, s2}, {g2}, {t2}),
    ServiceSpec({p1}, TRUE, {t1}), ServiceSpec({p2}, FALSE, {t2}) }
  \cup {OtherSpec(kind, {t}) : kind \in PlainKinds \cup {"transit_gateway"}, t \in {t1, t2}}

\* An attachment that moves from one subnet to another, or loses two.
MCSubnetSpecs ==
  { AttachmentSpec({s1}, {t1}), AttachmentSpec({s2}, {t1}), AttachmentSpec({s1, s2, s3}, {t1}) }
=============================================================================
