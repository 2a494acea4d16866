---------------------------- MODULE MCRouteTable ----------------------------
(* Instances of RouteTable for TLC.                                        *)
EXTENDS RouteTable

CONSTANTS vpc, net, mine, aws, local, igw, nat, bad, t1, t2

MCDestinations == {vpc, net, mine, aws}
MCPrefixes     == {mine, aws}
MCAWSPrefixes  == {aws}
MCTargets      == {local, igw, nat, bad}
MCBadTargets   == {bad}
MCLocalRoute   == <<vpc, local>>
MCTags         == {t1, t2}
MCSpecTags     == {{t1}, {t2}}
MCOneTag       == {{t1}}

\* The local route may be declared; `Moved` sends a destination elsewhere.
Plain  == {<<vpc, local>>, <<net, igw>>, <<mine, igw>>}
Moved  == {<<net, nat>>, <<mine, igw>>}
Broken == {<<net, bad>>}

MCRoutes       == {Plain, Moved, {}}
MCBrokenRoutes == {Broken}
=============================================================================
