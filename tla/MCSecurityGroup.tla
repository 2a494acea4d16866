-------------------------- MODULE MCSecurityGroup --------------------------
(* Instances of SecurityGroup for TLC.                                     *)
EXTENDS SecurityGroup

CONSTANTS tcp22, huge, all, anywhere, self, ref, t1, t2

MCKeys        == {tcp22, huge, all}
MCEgressKeys  == {all}
MCBadKeys     == {huge}
MCGrants      == {anywhere, self, ref}
MCDefaultPerm == <<all, anywhere>>
MCTags        == {t1, t2}
MCSpecTags    == {{t1}, {t2}}
MCOneTag      == {{t1}}

Rule(k, sp, gs) == [key |-> k, sp |-> sp, grants |-> gs]

\* Two rules of one key, one of them spelled as EC2 does, and an egress rule.
Split == {Rule(tcp22, "aws", {anywhere}), Rule(tcp22, "user", {ref}),
          Rule(all, "aws", {anywhere})}
\* The same permissions in one rule of another spelling.
Merged == {Rule(tcp22, "user", {anywhere, ref}), Rule(all, "user", {anywhere})}
SelfOnly == {Rule(tcp22, "aws", {self})}
ByRef    == {Rule(tcp22, "aws", {ref})}
\* One rule EC2 refuses, and one it takes.
Unsendable == {Rule(huge, "aws", {anywhere}), Rule(tcp22, "user", {self})}

MCRules    == {Split, Merged, Unsendable}
MCRefRules == {SelfOnly, ByRef}
=============================================================================
