---------------------------- MODULE MCReferences ----------------------------
(* An instance of References for TLC: two security groups of one VPC that  *)
(* name one another, or one only the other.  No group names itself: what a *)
(* self-reference does to an unresolved one is shown by SGUnresolvedRef.   *)
EXTENDS References

CONSTANTS vpc, a, b

MCCRs    == {vpc, a, b}
MCKindOf == [c \in MCCRs |-> IF c = vpc THEN "vpc" ELSE "security_group"]

Group(gs) == [awaited |-> {vpc}, groups |-> gs]

MCSpecs ==
  [c \in MCCRs |-> CASE c = vpc -> {[awaited |-> {}, groups |-> {}]}
                     [] c = a   -> {Group({b}), Group({})}
                     [] c = b   -> {Group({a})}]
=============================================================================
