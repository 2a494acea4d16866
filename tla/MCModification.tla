--------------------------- MODULE MCModification ---------------------------
(* Instances of Modification for TLC.                                      *)
EXTENDS Modification

CONSTANTS rt1, rt2, vpc1, vpc2, s1, s2, in100, out100, allow, deny,
          g1, g2, c1, c2, info, t1, t2

SubnetSpec(tables, attrs, tags) ==
  [kind |-> "subnet", tables |-> tables, attrs |-> attrs, tags |-> tags]
GatewaySpec(vpc, tables, tags) ==
  [kind |-> "internet_gateway", vpc |-> vpc, tables |-> tables, tags |-> tags]
OptionsSpec(vpcs, tags) == [kind |-> "dhcp_options", vpcs |-> vpcs, tags |-> tags]
ACLSpec(entries, subnets, tags) ==
  [kind |-> "network_acl", entries |-> entries, subnets |-> subnets, tags |-> tags]
InstanceSpec(protected, type, groups, check, tags) ==
  [kind |-> "instance", tags |-> tags,
   attrs |-> [DisableAPITermination |-> protected, InstanceType |-> type,
              SecurityGroupIDs |-> groups, SourceDestCheckEnabled |-> check]]
TemplateSpec(data, default, tags) ==
  [kind |-> "launch_template", data |-> data, default |-> default, tags |-> tags]
ListSpec(entries, max, tags) ==
  [kind |-> "managed_prefix_list", entries |-> entries, max |-> max, tags |-> tags]
ReservationSpec(count, additional, tags) ==
  [kind |-> "capacity_reservation", count |-> count, info |-> additional, tags |-> tags]

\* A move from one table or VPC to the other, a first and a last one, tags that
\* change, attributes switched on and off; of an ACL, an entry that changes, one
\* that comes or goes, two of one number, subnets that stay, come and go.
MCTyingSpecs ==
  { SubnetSpec({rt1}, {}, {t1}),
    SubnetSpec({rt2}, {"EnableDNS64", "MapPublicIPOnLaunch"}, {t1}),
    SubnetSpec({}, {"MapPublicIPOnLaunch"}, {t2}),
    GatewaySpec(vpc1, {rt1}, {t1}),
    GatewaySpec(vpc2, {rt2}, {t1}),
    GatewaySpec(NoVPC, {}, {t2}),
    OptionsSpec({vpc1, vpc2}, {t1}),
    OptionsSpec({vpc1}, {t2}),
    OptionsSpec({}, {t1}),
    ACLSpec({<<in100, allow>>}, {s1}, {t1}),
    ACLSpec({<<in100, deny>>}, {s1, s2}, {t2}),
    ACLSpec({<<out100, allow>>, <<out100, deny>>}, {}, {t2}) }

\* Several attributes at once, one that the state forbids; new data with and
\* without a new default; entries, size and tags together and apart.
MCOtherSpecs ==
  { InstanceSpec(FALSE, "small", {g1}, FALSE, {t1}), InstanceSpec(FALSE, "large", {g2}, TRUE, {t1}),
    TemplateSpec("a", 1, {t1}), TemplateSpec("b", 1, {t1}), TemplateSpec("b", 2, {t1}),
    ListSpec({c1}, 2, {t1}), ListSpec({c1}, 2, {t2}), ListSpec({c2}, 2, {t1}),
    ListSpec({c2}, 3, {t1}),
    ReservationSpec(1, NoInfo, {t1}), ReservationSpec(2, info, {t1}),
    ReservationSpec(2, NoInfo, {t2}) }

MCSpecs == MCTyingSpecs \cup MCOtherSpecs

\* An instance that is protected, and then no longer.
MCProtectedSpecs ==
  { InstanceSpec(TRUE, "small", {g1}, TRUE, {t1}), InstanceSpec(FALSE, "small", {g1}, TRUE, {t1}) }
=============================================================================
