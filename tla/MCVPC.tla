------------------------------- MODULE MCVPC -------------------------------
(* Instances of VPC for TLC.                                               *)
EXTENDS VPC

CONSTANTS p, a, dns, t1

MCCIDRs     == {p, a}
MCAttrs     == {dns}
MCTags      == {t1}
MCOneAttr   == {{dns}}
MCOneTag    == {{t1}}
MCGrowCIDRs == {{p}, {p, a}}
MCOneCIDR   == {{p}}
MCYes       == {TRUE}
=============================================================================
