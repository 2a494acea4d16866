----------------------------- MODULE VPC_proofs -----------------------------
(***************************************************************************)
(* Theorems about VPC, for every set of CIDRs, attributes, tags and specs, *)
(* and any number of VPCs, faults, edits and drifts.                       *)
(***************************************************************************)
EXTENDS VPC, TLAPS

----------------------------------------------------------------------------
(* Types.                                                                  *)

CR ==
  [phase: {"live", "deleting", "gone"}, managed: BOOLEAN, id: Ids \cup {0},
   synced: BOOLEAN, spec: SpecType]

Desired ==
  [cidrs: SUBSET CIDRs, attrs: SUBSET Attrs, tags: SUBSET Tags, disallow: BOOLEAN]

Worker ==
  [pc: Labels, mode: {"update", "create", "delete"}, id: Ids \cup {0},
   seen: VPCType, rulesExist: BOOLEAN, spec: Desired,
   toDelete: SUBSET (CIDRs \X {"live", "dead"}), toAdd: SUBSET CIDRs,
   toSet: SUBSET Attrs, readFailed: BOOLEAN, interfered: BOOLEAN]

Counters == faults \in Nat /\ edits \in Nat /\ drifts \in Nat

LEMMA TypeOKIs ==
  TypeOK <=> /\ cr \in CR /\ vpcs \in [Ids -> VPCType]
             /\ nextId \in 1 .. MaxVPCs + 1 /\ recorded \subseteq Ids
             /\ w \in Worker /\ Counters
BY DEF TypeOK, CR, Desired, Worker, Counters

LEMMA TypeOKWillBe ==
  TypeOK' <=> /\ cr' \in CR /\ vpcs' \in [Ids -> VPCType]
              /\ nextId' \in 1 .. MaxVPCs + 1 /\ recorded' \subseteq Ids
              /\ w' \in Worker /\ Counters'
BY DEF TypeOK, CR, Desired, Worker, Counters

LEMMA SpecIsDesired == SpecType \subseteq Desired
BY VPCAssumption DEF SpecType, Desired

LEMMA NoVPCType == NoVPC \in VPCType
BY DEF NoVPC, VPCType, States

LEMMA IdleType == IdleWorker \in Worker
<1>1. [cidrs |-> {}, attrs |-> {}, tags |-> {}, disallow |-> FALSE] \in Desired
  BY DEF Desired
<1> QED BY <1>1, NoVPCType DEF IdleWorker, Worker, Labels

LEMMA ErrorType ==
  ASSUME TypeOK
  PROVE  onError \in Worker
<1>1. w \in Worker /\ cr.id \in Ids \cup {0}
  BY TypeOKIs DEF CR
<1> QED BY <1>1 DEF onError, Worker, Labels

LEMMA CIDRsFailedType ==
  ASSUME TypeOK
  PROVE  cidrsFailed \in Worker
<1>1. w \in Worker
  BY TypeOKIs
<1>2. [w EXCEPT !.pc = "attrs", !.toAdd = {}] \in Worker
  BY <1>1 DEF Worker, Labels
<1> QED BY <1>2, ErrorType DEF cidrsFailed

\* The label of the worker is the only field a step need change.
LEMMA LabelType ==
  ASSUME TypeOK, NEW label \in Labels
  PROVE  [w EXCEPT !.pc = label] \in Worker
BY TypeOKIs DEF Worker

\* What EC2 may do to a VPC leaves a VPC.
LEMMA ChangesType ==
  ASSUME NEW v \in VPCType
  PROVE  /\ \A c \in CIDRs, s \in States : [v EXCEPT !.state[c] = s] \in VPCType
         /\ \A d \in SUBSET CIDRs : [v EXCEPT !.dead = d] \in VPCType
         /\ \A r \in SUBSET {"egress", "ingress"} : [v EXCEPT !.rules = r] \in VPCType
         /\ \A a \in SUBSET Attrs : [v EXCEPT !.attrs = a] \in VPCType
         /\ \A t \in SUBSET Tags : [v EXCEPT !.tags = t] \in VPCType
BY DEF VPCType

\* A step of the worker that changes at most the VPC in hand.
LEMMA StepType ==
  ASSUME TypeOK, w' \in Worker, vpcs' \in [Ids -> VPCType], UNCHANGED <<cr, env>>,
         faults' = faults \/ faults' = faults + 1
  PROVE  TypeOK'
<1>1. Counters'
  BY TypeOKIs DEF Counters, env
<1> QED BY <1>1, TypeOKIs, TypeOKWillBe DEF env

\* What every Call does, on a VPC that exists.
LEMMA CallType ==
  ASSUME TypeOK, NEW v, w.id \in Ids => v \in VPCType,
         NEW next \in Worker, NEW failed \in Worker, Call(v, next, failed)
  PROVE  w' \in Worker /\ vpcs' \in [Ids -> VPCType] /\ (faults' = faults \/ faults' = faults + 1)
<1>1. vpcs \in [Ids -> VPCType]
  BY TypeOKIs
<1>2. [vpcs EXCEPT ![w.id] = v] \in [Ids -> VPCType]
  BY <1>1
<1> QED BY <1>1, <1>2 DEF Call

LEMMA RefusedType ==
  ASSUME TypeOK, Refused
  PROVE  w' \in Worker /\ vpcs' \in [Ids -> VPCType] /\ faults' = faults
BY ErrorType, TypeOKIs DEF Refused

LEMMA GoType ==
  ASSUME TypeOK, NEW next \in Worker, Go(next)
  PROVE  w' \in Worker /\ vpcs' \in [Ids -> VPCType] /\ faults' = faults
BY TypeOKIs DEF Go

LEMMA ReadType ==
  ASSUME TypeOK,
         Begin \/ sdkFind \/ readRules \/ checkRules \/ ReadFails \/ LateInitialize
  PROVE  TypeOK'
<1>1. w \in Worker /\ cr \in CR /\ vpcs \in [Ids -> VPCType]
  BY TypeOKIs
<1>2. CASE Begin
  <2> DEFINE mode == IF cr.phase = "deleting" THEN "delete" ELSE "update"
             next == [IdleWorker EXCEPT !.pc = "describe", !.id = cr.id, !.spec = cr.spec,
                                        !.mode = mode]
  <2>1. next \in Worker
    <3>1. mode \in {"update", "create", "delete"}
      OBVIOUS
    <3>2. cr.id \in Ids \cup {0} /\ cr.spec \in Desired
      BY <1>1, SpecIsDesired DEF CR
    <3> HIDE DEF mode
    <3> QED BY <3>1, <3>2, IdleType DEF Worker, Labels
  <2> HIDE DEF next
  <2>2. Go(next)
    BY <1>2 DEF Begin, next
  <2> QED BY <1>2, <2>1, <2>2, GoType, StepType DEF Begin
<1>3. CASE sdkFind
  <2> DEFINE found == [w EXCEPT !.pc = "readRules", !.seen = V]
  <2>1. NotFound \in Worker
    BY <1>1 DEF NotFound, Worker, Labels
  <2>2. w.id # 0 => found \in Worker
    <3> SUFFICES ASSUME w.id # 0 PROVE found \in Worker
      OBVIOUS
    <3>1. V \in VPCType
      BY <1>1 DEF Worker, V
    <3> QED BY <1>1, <3>1 DEF Worker, Labels
  <2> HIDE DEF found
  <2>3. Go(NotFound) \/ (w.id # 0 /\ Go(found))
    BY <1>3 DEF sdkFind, found
  <2> QED BY <1>3, <2>1, <2>2, <2>3, GoType, StepType DEF sdkFind
<1>4. CASE readRules \/ checkRules
  <2>1. \A label \in Labels, exist \in BOOLEAN, failed \in BOOLEAN :
          [w EXCEPT !.rulesExist = exist, !.readFailed = failed, !.pc = label] \in Worker
    BY <1>1 DEF Worker
  <2>2. \A answered \in BOOLEAN :
          /\ hasSecurityGroupDefaultRules(answered) \in BOOLEAN
          /\ (~answered) \in BOOLEAN
    BY DEF hasSecurityGroupDefaultRules
  <2>3. {"requeue", "found", "lateInit"} \subseteq Labels
    BY DEF Labels
  <2>4. CASE Refused
    BY <1>4, <2>4, RefusedType, StepType DEF readRules, checkRules
  <2>5. CASE \E answered \in BOOLEAN, label \in {"requeue", "found", "lateInit"} :
               /\ DescribeSecurityGroupRules(answered)
               /\ w' = [w EXCEPT !.rulesExist = hasSecurityGroupDefaultRules(answered),
                                 !.readFailed = ~answered, !.pc = label]
    <3>1. w' \in Worker
      <4>1. PICK answered \in BOOLEAN, label \in {"requeue", "found", "lateInit"} :
              w' = [w EXCEPT !.rulesExist = hasSecurityGroupDefaultRules(answered),
                             !.readFailed = ~answered, !.pc = label]
        BY <2>5
      <4>2. label \in Labels
        BY <2>3
      <4>3. hasSecurityGroupDefaultRules(answered) \in BOOLEAN /\ (~answered) \in BOOLEAN
        BY <2>2
      <4> QED BY <2>1, <4>1, <4>2, <4>3
    <3>2. vpcs' = vpcs /\ (faults' = faults \/ faults' = faults + 1)
      BY <2>5 DEF DescribeSecurityGroupRules
    <3> QED BY <1>1, <1>4, <3>1, <3>2, StepType DEF readRules, checkRules
  <2>6. readRules => <2>4!1 \/ <2>5!1
    BY DEF readRules
  <2>7. checkRules => <2>4!1 \/ <2>5!1
    BY DEF checkRules
  <2> QED BY <1>4, <2>4, <2>5, <2>6, <2>7
<1>5. CASE ReadFails
  <2>1. w' \in {onError, [w EXCEPT !.pc = "failed"]} /\ vpcs' = vpcs
    BY <1>5 DEF ReadFails
  <2>2. [w EXCEPT !.pc = "failed"] \in Worker
    BY LabelType DEF Labels
  <2>3. w' \in Worker
    BY <2>1, <2>2, ErrorType
  <2> QED BY <1>1, <1>5, <2>1, <2>3, StepType DEF ReadFails
<1>6. CASE LateInitialize
  <2>1. \E label \in {"failed", "requeue", "lateRules", "synced"} : Go([w EXCEPT !.pc = label])
    BY <1>6 DEF LateInitialize
  <2>2. {"failed", "requeue", "lateRules", "synced"} \subseteq Labels
    BY DEF Labels
  <2>3. w' \in Worker /\ vpcs' \in [Ids -> VPCType] /\ faults' = faults
    BY <2>1, <2>2, LabelType, GoType
  <2> QED BY <1>6, <2>3, StepType DEF LateInitialize
<1> QED BY <1>2, <1>3, <1>4, <1>5, <1>6

LEMMA CreateType ==
  ASSUME TypeOK, sdkCreate
  PROVE  TypeOK'
<1> DEFINE new  == [NoVPC EXCEPT !.live = TRUE, !.state[Primary] = "associated",
                      !.rules = {"egress", "ingress"}, !.tags = w.spec.tags]
           next == [w EXCEPT !.pc = "cidrs", !.id = nextId,
                      !.toAdd = w.spec.cidrs \ {Primary}, !.toSet = Attrs]
<1>1. w \in Worker /\ vpcs \in [Ids -> VPCType] /\ nextId \in 1 .. MaxVPCs + 1
  BY TypeOKIs
<1>2. w.spec \in Desired
  BY <1>1 DEF Worker
<1>3. new \in VPCType
  <2>1. w.spec.tags \in SUBSET Tags
    BY <1>2 DEF Desired
  <2> QED BY <2>1, NoVPCType, VPCAssumption DEF VPCType, States
<1>4. nextId \in Ids => next \in Worker
  <2>1. w.spec.cidrs \ {Primary} \in SUBSET CIDRs
    BY <1>2 DEF Desired
  <2> QED BY <1>1, <2>1 DEF Worker, Labels
<1> HIDE DEF new, next
<1>5. /\ vpcs' = vpcs \/ vpcs' = [vpcs EXCEPT ![nextId] = new]
      /\ w' = onError \/ (nextId \in Ids /\ w' = next)
      /\ nextId' = nextId \/ (nextId \in Ids /\ nextId' = nextId + 1)
      /\ faults' = faults \/ faults' = faults + 1
  BY DEF sdkCreate, new, next, Refused
<1>6. w' \in Worker /\ vpcs' \in [Ids -> VPCType]
  BY <1>1, <1>3, <1>4, <1>5, ErrorType
<1>7. nextId' \in 1 .. MaxVPCs + 1
  BY <1>1, <1>5, VPCAssumption DEF Ids
<1>8. Counters' /\ cr' \in CR /\ recorded' \subseteq Ids
  BY <1>5, TypeOKIs DEF sdkCreate, Counters
<1> QED BY <1>6, <1>7, <1>8, TypeOKWillBe

LEMMA UpdateType ==
  ASSUME TypeOK,
         \/ customUpdateVPC \/ DisassociateVpcCidrBlock \/ AssociateVpcCidrBlock
         \/ syncCIDRBlocks \/ deleteSecurityGroupDefaultRules \/ syncAttributes
         \/ syncTags \/ sdkDelete
  PROVE  TypeOK'
<1>1. w \in Worker /\ vpcs \in [Ids -> VPCType] /\ (w.id \in Ids => V \in VPCType)
  BY TypeOKIs DEF V
<1>2. CASE customUpdateVPC
  <2> DEFINE delete == toDeleteOf(w.spec.cidrs, w.seen)
             add    == toAddOf(w.spec.cidrs, w.seen)
             set    == (w.spec.attrs \ w.seen.attrs) \cup (w.seen.attrs \ w.spec.attrs)
             next   == [w EXCEPT !.pc = "cidrs", !.toDelete = delete, !.toAdd = add,
                                 !.toSet = set]
  <2>1. w.seen \in VPCType /\ w.spec \in Desired
    BY <1>1 DEF Worker
  <2>2. set \in SUBSET Attrs /\ add \in SUBSET CIDRs
    BY <2>1 DEF VPCType, Desired, toAddOf
  <2>3. delete \in SUBSET (CIDRs \X {"live", "dead"})
    BY <2>1 DEF VPCType, toDeleteOf, setSpecCIDRs
  <2> HIDE DEF delete, add, set
  <2>4. next \in Worker
    BY <1>1, <2>2, <2>3 DEF Worker, Labels
  <2>5. Go(next)
    BY <1>2 DEF customUpdateVPC, delete, add, set
  <2> HIDE DEF next
  <2> QED BY <1>2, <2>4, <2>5, GoType, StepType DEF customUpdateVPC
<1>3. CASE DisassociateVpcCidrBlock
  <2>1. PICK e \in w.toDelete :
          \/ Call([V EXCEPT !.state[e[1]] = "disassociating"],
                  [w EXCEPT !.toDelete = @ \ {e}], cidrsFailed)
          \/ Go([w EXCEPT !.toDelete = @ \ {e}])
          \/ Go(cidrsFailed)
    BY <1>3 DEF DisassociateVpcCidrBlock
  <2>2. [w EXCEPT !.toDelete = @ \ {e}] \in Worker
    BY <1>1 DEF Worker
  <2>3. w.id \in Ids => [V EXCEPT !.state[e[1]] = "disassociating"] \in VPCType
    <3>1. e[1] \in CIDRs /\ "disassociating" \in States
      BY <1>1 DEF Worker, States
    <3> QED BY <1>1, <3>1, ChangesType
  <2>4. w' \in Worker /\ vpcs' \in [Ids -> VPCType] /\ (faults' = faults \/ faults' = faults + 1)
    BY <2>1, <2>2, <2>3, CallType, GoType, CIDRsFailedType
  <2> QED BY <1>3, <2>4, StepType DEF DisassociateVpcCidrBlock
<1>4. CASE AssociateVpcCidrBlock
  <2>1. PICK c \in w.toAdd :
          \/ Call([V EXCEPT !.state[c] = "associating"],
                  [w EXCEPT !.toAdd = @ \ {c}], cidrsFailed)
          \/ Go(cidrsFailed)
    BY <1>4 DEF AssociateVpcCidrBlock
  <2>2. [w EXCEPT !.toAdd = @ \ {c}] \in Worker
    BY <1>1 DEF Worker
  <2>3. w.id \in Ids => [V EXCEPT !.state[c] = "associating"] \in VPCType
    <3>1. c \in CIDRs /\ "associating" \in States
      BY <1>1 DEF Worker, States
    <3> QED BY <1>1, <3>1, ChangesType
  <2>4. w' \in Worker /\ vpcs' \in [Ids -> VPCType] /\ (faults' = faults \/ faults' = faults + 1)
    BY <2>1, <2>2, <2>3, CallType, GoType, CIDRsFailedType
  <2> QED BY <1>4, <2>4, StepType DEF AssociateVpcCidrBlock
<1>5. CASE syncCIDRBlocks
  <2>1. \E label \in {"egress", "attrs"} : Go([w EXCEPT !.pc = label])
    BY <1>5 DEF syncCIDRBlocks
  <2>2. {"egress", "attrs"} \subseteq Labels
    BY DEF Labels
  <2>3. w' \in Worker /\ vpcs' \in [Ids -> VPCType] /\ faults' = faults
    BY <2>1, <2>2, LabelType, GoType
  <2> QED BY <1>5, <2>3, StepType DEF syncCIDRBlocks
<1>6. CASE deleteSecurityGroupDefaultRules
  <2>1. \/ Call([V EXCEPT !.rules = V.rules \ {"egress"}], [w EXCEPT !.pc = "ingress"], onError)
        \/ Call([V EXCEPT !.rules = V.rules \ {"ingress"}], [w EXCEPT !.pc = "attrs"], onError)
        \/ Refused
    BY <1>6 DEF deleteSecurityGroupDefaultRules, RevokeSecurityGroup
  <2>2. [w EXCEPT !.pc = "ingress"] \in Worker /\ [w EXCEPT !.pc = "attrs"] \in Worker
    BY LabelType DEF Labels
  <2>3. ASSUME NEW r, w.id \in Ids PROVE [V EXCEPT !.rules = V.rules \ {r}] \in VPCType
    <3>1. V.rules \ {r} \in SUBSET {"egress", "ingress"}
      BY <1>1, <2>3 DEF VPCType
    <3> QED BY <1>1, <2>3, <3>1, ChangesType
  <2>4. w' \in Worker /\ vpcs' \in [Ids -> VPCType] /\ (faults' = faults \/ faults' = faults + 1)
    BY <2>1, <2>2, <2>3, CallType, RefusedType, ErrorType
  <2> QED BY <1>6, <2>4, StepType DEF deleteSecurityGroupDefaultRules
<1>7. CASE syncAttributes
  <2>1. CASE \E a \in w.toSet :
               Call([V EXCEPT !.attrs = IF a \in w.spec.attrs THEN @ \cup {a} ELSE @ \ {a}],
                    [w EXCEPT !.toSet = @ \ {a}], onError)
    <3>1. PICK a \in w.toSet :
            Call([V EXCEPT !.attrs = IF a \in w.spec.attrs THEN V.attrs \cup {a} ELSE V.attrs \ {a}],
                 [w EXCEPT !.toSet = @ \ {a}], onError)
      BY <2>1
    <3>2. [w EXCEPT !.toSet = @ \ {a}] \in Worker /\ a \in Attrs
      BY <1>1 DEF Worker
    <3> DEFINE attrs == IF a \in w.spec.attrs THEN V.attrs \cup {a} ELSE V.attrs \ {a}
    <3>3. w.id \in Ids => attrs \in SUBSET Attrs
      BY <1>1, <3>2 DEF VPCType
    <3> HIDE DEF attrs
    <3>4. w.id \in Ids => [V EXCEPT !.attrs = attrs] \in VPCType
      BY <1>1, <3>3, ChangesType
    <3>5. Call([V EXCEPT !.attrs = attrs], [w EXCEPT !.toSet = @ \ {a}], onError)
      BY <3>1 DEF attrs
    <3>6. w' \in Worker /\ vpcs' \in [Ids -> VPCType] /\ (faults' = faults \/ faults' = faults + 1)
      BY <3>2, <3>4, <3>5, CallType, ErrorType
    <3> QED BY <1>7, <3>6, StepType DEF syncAttributes
  <2>2. CASE Refused
    BY <1>7, <2>2, RefusedType, StepType DEF syncAttributes
  <2>3. CASE \E label \in {"checkRules", "tags"} : Go([w EXCEPT !.pc = label])
    <3>1. {"checkRules", "tags"} \subseteq Labels
      BY DEF Labels
    <3>2. w' \in Worker /\ vpcs' \in [Ids -> VPCType] /\ faults' = faults
      BY <2>3, <3>1, LabelType, GoType
    <3> QED BY <1>7, <3>2, StepType DEF syncAttributes
  <2> QED BY <1>7, <2>1, <2>2, <2>3 DEF syncAttributes
<1>8. CASE syncTags
  <2> DEFINE removed == V.tags \ (w.seen.tags \ w.spec.tags)
             synced  == removed \cup (w.spec.tags \ w.seen.tags)
             next    == [w EXCEPT !.pc = "lateInit"]
  <2>1. next \in Worker
    BY LabelType DEF Labels
  <2>2. w.id \in Ids => removed \in SUBSET Tags /\ synced \in SUBSET Tags
    <3>1. w.spec.tags \in SUBSET Tags
      BY <1>1 DEF Worker, Desired
    <3> QED BY <1>1, <3>1 DEF VPCType
  <2> HIDE DEF removed, synced, next
  <2>3. w.id \in Ids => [V EXCEPT !.tags = synced] \in VPCType
    BY <1>1, <2>2, ChangesType
  <2>4. [vpcs EXCEPT ![w.id].tags = removed] \in [Ids -> VPCType]
    <3>1. w.id \in Ids => [V EXCEPT !.tags = removed] \in VPCType
      BY <1>1, <2>2, ChangesType
    <3> QED BY <1>1, <3>1 DEF V
  <2>5. \/ Go(next) \/ Refused
        \/ Call([V EXCEPT !.tags = synced], next, onError)
        \/ /\ faults' = faults + 1 /\ w' = onError
           /\ vpcs' = [vpcs EXCEPT ![w.id].tags = removed]
    BY <1>8 DEF syncTags, removed, synced, next
  <2>6. w' \in Worker /\ vpcs' \in [Ids -> VPCType] /\ (faults' = faults \/ faults' = faults + 1)
    BY <2>1, <2>3, <2>4, <2>5, CallType, RefusedType, GoType, ErrorType
  <2> QED BY <1>8, <2>6, StepType DEF syncTags
<1>9. CASE sdkDelete
  <2>1. [w EXCEPT !.pc = "release"] \in Worker
    BY LabelType DEF Labels
  <2>2. Call(NoVPC, [w EXCEPT !.pc = "release"], onError) \/ Refused
    BY <1>9 DEF sdkDelete
  <2>3. w' \in Worker /\ vpcs' \in [Ids -> VPCType] /\ (faults' = faults \/ faults' = faults + 1)
    BY <2>1, <2>2, NoVPCType, CallType, RefusedType, ErrorType
  <2> QED BY <1>9, <2>3, StepType DEF sdkDelete
<1> QED BY <1>2, <1>3, <1>4, <1>5, <1>6, <1>7, <1>8, <1>9

LEMMA RuntimeType ==
  ASSUME TypeOK, setResourceManaged \/ setResourceUnmanaged \/ PatchStatus \/ Crash
  PROVE  TypeOK'
<1>1. w \in Worker /\ cr \in CR /\ Counters
  BY TypeOKIs
<1>2. w' \in Worker
  <2>1. [w EXCEPT !.pc = "create", !.mode = "create"] \in Worker
    BY <1>1 DEF Worker, Labels
  <2> QED BY <2>1, IdleType DEF setResourceManaged, setResourceUnmanaged, PatchStatus, Crash
<1>3. cr' \in CR
  BY <1>1 DEF setResourceManaged, setResourceUnmanaged, PatchStatus, Crash, CR, Worker, At
<1>4. recorded' \subseteq Ids
  <2>1. PatchStatus => recorded' \subseteq Ids
    BY <1>3, TypeOKIs DEF PatchStatus, CR
  <2> QED BY <2>1, TypeOKIs DEF setResourceManaged, setResourceUnmanaged, Crash, env
<1>5. Counters' /\ vpcs' = vpcs /\ nextId' = nextId
  BY <1>1 DEF setResourceManaged, setResourceUnmanaged, PatchStatus, Crash, Counters, env
<1> QED BY <1>2, <1>3, <1>4, <1>5, TypeOKIs, TypeOKWillBe

\* What EC2 and other clients may make of the VPCs.
LEMMA WorldChanges ==
  ASSUME TypeOK, Settle \/ Drift
  PROVE  \E i \in Live :
           \/ \E c \in CIDRs :
                \/ /\ vpcs[i].state[c] = "associating"
                   /\ vpcs' = [vpcs EXCEPT ![i] = [vpcs[i] EXCEPT !.state[c] = "associated"]]
                \/ /\ vpcs[i].state[c] = "disassociating"
                   /\ vpcs' = [vpcs EXCEPT ![i] = [vpcs[i] EXCEPT
                                  !.state[c] = "none", !.dead = vpcs[i].dead \cup {c}]]
                \/ vpcs' = [vpcs EXCEPT ![i] = [vpcs[i] EXCEPT !.dead = vpcs[i].dead \ {c}]]
           \/ /\ Drift
              /\ \/ \E c \in CIDRs, s \in {"associating", "disassociating"} :
                      vpcs' = [vpcs EXCEPT ![i] = [vpcs[i] EXCEPT !.state[c] = s]]
                 \/ \E r : vpcs' = [vpcs EXCEPT ![i] =
                                       [vpcs[i] EXCEPT !.rules = vpcs[i].rules \ {r}]]
                 \/ vpcs' = [vpcs EXCEPT ![i] = NoVPC]
<1>1. vpcs \in [Ids -> VPCType]
  BY TypeOKIs
<1>2. \A i \in Live : i \in Ids
  BY DEF Live
<1>3. CASE Settle
  <2>1. PICK i \in Live, c \in CIDRs :
           \/ /\ vpcs[i].state[c] = "associating"
              /\ vpcs' = [vpcs EXCEPT ![i].state[c] = "associated"]
           \/ /\ vpcs[i].state[c] = "disassociating"
              /\ vpcs' = [vpcs EXCEPT ![i].state[c] = "none", ![i].dead = @ \cup {c}]
           \/ vpcs' = [vpcs EXCEPT ![i].dead = @ \ {c}]
    BY <1>3 DEF Settle
  <2>2. [vpcs EXCEPT ![i].state[c] = "none", ![i].dead = @ \cup {c}]
          = [vpcs EXCEPT ![i] = [vpcs[i] EXCEPT
                                   !.state[c] = "none", !.dead = vpcs[i].dead \cup {c}]]
    BY <1>1, <1>2 DEF VPCType
  <2>3. [vpcs EXCEPT ![i].state[c] = "associated"]
          = [vpcs EXCEPT ![i] = [vpcs[i] EXCEPT !.state[c] = "associated"]]
    OBVIOUS
  <2>4. [vpcs EXCEPT ![i].dead = @ \ {c}]
          = [vpcs EXCEPT ![i] = [vpcs[i] EXCEPT !.dead = vpcs[i].dead \ {c}]]
    OBVIOUS
  <2> QED BY <2>1, <2>2, <2>3, <2>4
<1>4. CASE Drift
  BY <1>1, <1>2, <1>4 DEF Drift
<1> QED BY <1>3, <1>4

LEMMA WorldType ==
  ASSUME TypeOK, EditSpec \/ DeleteCR \/ RecreateCR \/ Drift \/ Settle
  PROVE  TypeOK'
<1>1. w \in Worker /\ cr \in CR /\ Counters /\ vpcs \in [Ids -> VPCType]
  BY TypeOKIs
<1>2. cr' \in CR
  <2>1. CASE EditSpec
    BY <1>1, <2>1 DEF EditSpec, CR
  <2>2. CASE DeleteCR
    BY <1>1, <2>2 DEF DeleteCR, CR
  <2>3. CASE RecreateCR
    BY <2>3 DEF RecreateCR, NewCR, CR
  <2> QED BY <1>1, <2>1, <2>2, <2>3 DEF Drift, Settle
<1>3. w' \in Worker
  <2>1. [w EXCEPT !.interfered = TRUE] \in Worker
    BY <1>1 DEF Worker
  <2> QED BY <1>1, <2>1 DEF EditSpec, DeleteCR, RecreateCR, Drift, Settle
<1>4. vpcs' \in [Ids -> VPCType]
  <2>1. CASE Settle \/ Drift
    <3>1. PICK i \in Live :
            \/ \E c \in CIDRs :
                 \/ vpcs' = [vpcs EXCEPT ![i] = [vpcs[i] EXCEPT !.state[c] = "associated"]]
                 \/ vpcs' = [vpcs EXCEPT ![i] = [vpcs[i] EXCEPT
                                !.state[c] = "none", !.dead = vpcs[i].dead \cup {c}]]
                 \/ vpcs' = [vpcs EXCEPT ![i] = [vpcs[i] EXCEPT !.dead = vpcs[i].dead \ {c}]]
            \/ \E c \in CIDRs, s \in {"associating", "disassociating"} :
                 vpcs' = [vpcs EXCEPT ![i] = [vpcs[i] EXCEPT !.state[c] = s]]
            \/ \E r : vpcs' = [vpcs EXCEPT ![i] =
                                  [vpcs[i] EXCEPT !.rules = vpcs[i].rules \ {r}]]
            \/ vpcs' = [vpcs EXCEPT ![i] = NoVPC]
      BY <2>1, WorldChanges
    <3>2. i \in Ids /\ vpcs[i] \in VPCType
      BY <1>1 DEF Live
    <3>3. {"associating", "disassociating", "associated", "none"} \subseteq States
      BY DEF States
    <3>4. ASSUME NEW c \in CIDRs
          PROVE  /\ \A s \in States : [vpcs[i] EXCEPT !.state[c] = s] \in VPCType
                 /\ [vpcs[i] EXCEPT !.state[c] = "none", !.dead = vpcs[i].dead \cup {c}] \in VPCType
                 /\ [vpcs[i] EXCEPT !.dead = vpcs[i].dead \ {c}] \in VPCType
      <4>1. vpcs[i].dead \in SUBSET CIDRs
        BY <3>2 DEF VPCType
      <4>2. [vpcs[i] EXCEPT !.state[c] = "none"] \in VPCType
        BY <3>2, <3>3, ChangesType
      <4>3. [vpcs[i] EXCEPT !.state[c] = "none", !.dead = vpcs[i].dead \cup {c}]
              = [[vpcs[i] EXCEPT !.state[c] = "none"] EXCEPT !.dead = vpcs[i].dead \cup {c}]
        BY <3>2 DEF VPCType
      <4> QED BY <3>2, <4>1, <4>2, <4>3, ChangesType
    <3>5. ASSUME NEW r
          PROVE  [vpcs[i] EXCEPT !.rules = vpcs[i].rules \ {r}] \in VPCType
      <4>1. vpcs[i].rules \ {r} \in SUBSET {"egress", "ingress"}
        BY <3>2 DEF VPCType
      <4> QED BY <3>2, <4>1, ChangesType
    <3>6. \E v \in VPCType : vpcs' = [vpcs EXCEPT ![i] = v]
      <4>1. CASE \E c \in CIDRs :
                   \/ vpcs' = [vpcs EXCEPT ![i] = [vpcs[i] EXCEPT !.state[c] = "associated"]]
                   \/ vpcs' = [vpcs EXCEPT ![i] = [vpcs[i] EXCEPT
                                  !.state[c] = "none", !.dead = vpcs[i].dead \cup {c}]]
                   \/ vpcs' = [vpcs EXCEPT ![i] = [vpcs[i] EXCEPT !.dead = vpcs[i].dead \ {c}]]
        BY <3>3, <3>4, <4>1
      <4>2. CASE \E c \in CIDRs, s \in {"associating", "disassociating"} :
                   vpcs' = [vpcs EXCEPT ![i] = [vpcs[i] EXCEPT !.state[c] = s]]
        BY <3>3, <3>4, <4>2
      <4>3. CASE \E r : vpcs' = [vpcs EXCEPT ![i] =
                                   [vpcs[i] EXCEPT !.rules = vpcs[i].rules \ {r}]]
        BY <3>5, <4>3
      <4>4. CASE vpcs' = [vpcs EXCEPT ![i] = NoVPC]
        BY <4>4, NoVPCType
      <4> QED BY <3>1, <4>1, <4>2, <4>3, <4>4
    <3> QED BY <1>1, <3>2, <3>6
  <2> QED BY <1>1, <2>1 DEF EditSpec, DeleteCR, RecreateCR, env
<1>5. Counters' /\ nextId' = nextId /\ recorded' = recorded
  <2>1. /\ faults' = faults
        /\ edits' = edits \/ edits' = edits + 1
        /\ drifts' = drifts \/ drifts' = drifts + 1
    BY DEF EditSpec, DeleteCR, RecreateCR, Drift, Settle, env
  <2>2. Counters'
    BY <1>1, <2>1 DEF Counters
  <2>3. nextId' = nextId /\ recorded' = recorded
    BY DEF EditSpec, DeleteCR, RecreateCR, Drift, Settle, env
  <2> QED BY <2>2, <2>3
<1> QED BY <1>2, <1>3, <1>4, <1>5, TypeOKIs, TypeOKWillBe

LEMMA NextType == TypeOK /\ [Next]_vars => TypeOK'
<1> SUFFICES ASSUME TypeOK, [Next]_vars PROVE TypeOK'
  OBVIOUS
<1>1. CASE UNCHANGED vars
  BY <1>1, TypeOKIs, TypeOKWillBe DEF vars, env, Counters
<1> QED BY <1>1, ReadType, CreateType, UpdateType, RuntimeType, WorldType DEF Next, Reconcile

LEMMA InitType == Init => TypeOK
<1> SUFFICES ASSUME Init PROVE TypeOK
  OBVIOUS
<1>1. cr \in CR
  BY DEF Init, NewCR, CR
<1>2. nextId \in 1 .. MaxVPCs + 1
  BY VPCAssumption DEF Init
<1> QED BY <1>1, <1>2, NoVPCType, IdleType, TypeOKIs DEF Init, Counters

\* Every variable keeps its type, whatever the reconciler, EC2's background work,
\* the user, other clients or a failure does.
THEOREM TypeCorrect == Spec => []TypeOK
BY InitType, NextType, PTL DEF Spec

----------------------------------------------------------------------------
(* The inductive invariant behind the claims about a pass.                 *)

Late   == {"lateInit", "lateRules"}
InHand ==
  {"readRules", "found", "cidrs", "egress", "ingress", "attrs", "checkRules", "tags"} \cup Late

\* What the worker has in hand at its labels, whoever interferes.
WorkerOK ==
  /\ ~At("idle") => w.spec \in SpecType
  /\ w.pc \in InHand \/ At("synced") => w.id # 0
  /\ At("create") \/ At("checkRules") => w.mode = "create"
  /\ w.pc \in {"egress", "ingress", "tags"} => w.mode = "update"
  /\ w.pc \in {"cidrs", "attrs"} => w.mode # "delete"
  /\ w.pc \in {"describe", "readRules", "found"} => w.mode # "create"
  /\ At("found") => ~areCIDRBlocksSyncing(w.seen)
  /\ \A e \in w.toDelete : e[1] \notin w.spec.cidrs
  /\ w.pc \in {"describe", "readRules", "found", "manage"} \/ w.mode = "create"
       => w.toDelete = {}

IsActive(v, c) == v.state[c] \in {"associating", "associated"}

\* The pass will not end before it has every declared CIDR: an update stops at an
\* error, and misses one only if it read a dead entry as an association.
Exactly == w.mode = "update" /\ w.seen.dead = {}

\* Each CIDR is on the way to where the spec wants it: it is still to be taken
\* away, or to be added, or is as declared.
OnTheWay(v, c) ==
  /\ <<c, "live">> \in w.toDelete => v.state[c] = "associated"
  /\ c \in w.toAdd => v.state[c] = "none" /\ c \in w.spec.cidrs
  /\ <<c, "live">> \notin w.toDelete /\ c \notin w.spec.cidrs => ~IsActive(v, c)
  /\ Exactly /\ c \notin w.toAdd /\ c \in w.spec.cidrs => IsActive(v, c)

Held(v, c) ==
  /\ IsActive(v, c) => c \in w.spec.cidrs
  /\ Exactly /\ c \in w.spec.cidrs => IsActive(v, c)

\* What is known of the VPC in hand, label by label, while nobody interferes with
\* a create or an update: EC2's background work disturbs none of it.
InHandOK(v) ==
  /\ v.live
  /\ v.tags = IF w.mode = "create" \/ w.pc \in Late THEN w.spec.tags ELSE w.seen.tags
  /\ w.pc \in {"readRules", "found"} =>
       /\ v.attrs = w.seen.attrs
       /\ ~areCIDRBlocksSyncing(w.seen) => v.state = w.seen.state
  /\ w.pc \in {"found", "cidrs"} /\ w.mode = "update" /\ ~w.readFailed =>
       (w.rulesExist <=> v.rules # {})
  /\ At("cidrs") => \A c \in CIDRs : OnTheWay(v, c)
  /\ w.pc \in {"egress", "ingress", "attrs", "checkRules", "tags"} \cup Late =>
       \A c \in CIDRs : Held(v, c)
  /\ At("ingress") => "egress" \notin v.rules
  /\ (w.pc \in {"attrs", "tags"} /\ w.mode = "update") \/ w.pc \in Late =>
       (w.spec.disallow /\ ~w.readFailed => v.rules = {})
  /\ w.pc \in {"cidrs", "egress", "ingress", "attrs"} =>
       \A a \in Attrs \ w.toSet : a \in v.attrs <=> a \in w.spec.attrs
  /\ w.pc \in {"checkRules", "tags"} \cup Late => v.attrs = w.spec.attrs
  /\ At("lateRules") => ~areCIDRBlocksSyncing(v)

Undisturbed == ~w.interfered

PassIsExact ==
  /\ Undisturbed /\ w.pc \in InHand => InHandOK(V)
  /\ SyncedIsExact

PassInv == TypeOK /\ WorkerOK /\ PassIsExact

----------------------------------------------------------------------------
(* Each action keeps the invariant.                                        *)

\* At these labels the pass is over, or has no VPC in hand.
LEMMA StopInv ==
  ASSUME PassInv, w.pc # "idle", NEW label \in {"failed", "requeue", "release"},
         w'.pc = label, w'.mode = w.mode, w'.spec = w.spec, w'.toDelete = w.toDelete
  PROVE  WorkerOK' /\ PassIsExact'
BY DEF PassInv, WorkerOK, PassIsExact, SyncedIsExact, InHand, Late, At

LEMMA ErrorInv ==
  ASSUME PassInv, ~At("idle"), w' = onError
  PROVE  WorkerOK' /\ PassIsExact'
<1>1. w \in Worker
  BY TypeOKIs DEF PassInv
<1>2. w'.pc = "failed" /\ w'.mode = w.mode /\ w'.spec = w.spec /\ w'.toDelete = w.toDelete
  BY <1>1 DEF onError, Worker
<1> QED BY <1>2, StopInv DEF At

LEMMA IdleInv ==
  ASSUME w' = IdleWorker
  PROVE  WorkerOK' /\ PassIsExact'
BY DEF IdleWorker, WorkerOK, PassIsExact, SyncedIsExact, InHand, Late, At

LEMMA VPCInHand ==
  ASSUME PassInv, w.pc \in InHand
  PROVE  w.id \in Ids /\ V \in VPCType /\ w.spec \in SpecType
<1>1. w.id \in Ids
  BY TypeOKIs DEF PassInv, WorkerOK, Worker
<1>2. w.pc # "idle"
  BY DEF InHand, Late
<1> QED BY <1>1, <1>2, TypeOKIs DEF PassInv, V, WorkerOK, At

LEMMA ReadInv ==
  ASSUME PassInv, Begin \/ sdkFind \/ readRules \/ ReadFails
  PROVE  WorkerOK' /\ PassIsExact'
<1>1. TypeOK /\ w \in Worker
  BY TypeOKIs DEF PassInv
<1>2. vpcs' = vpcs
  BY DEF Begin, sdkFind, readRules, ReadFails, Go, Refused, DescribeSecurityGroupRules
<1>3. CASE Begin
  <2>1. /\ w'.pc = "describe" /\ w'.spec = cr.spec /\ w'.toDelete = {}
        /\ w'.mode # "create"
    BY <1>3 DEF Begin, Go, IdleWorker
  <2>2. cr.spec \in SpecType
    BY <1>1, TypeOKIs DEF CR
  <2> QED BY <2>1, <2>2 DEF WorkerOK, PassIsExact, SyncedIsExact, InHand, Late, At
<1>4. CASE sdkFind
  <2>0. w.pc = "describe"
    BY <1>4 DEF sdkFind, At
  <2>1. CASE w' = NotFound
    <3>1. /\ w'.pc \in {"release", "manage"} /\ w'.spec = w.spec /\ w'.toDelete = w.toDelete
          /\ w'.mode = w.mode
      BY <1>1, <2>1 DEF NotFound, Worker
    <3> QED BY <2>0, <3>1 DEF PassInv, WorkerOK, PassIsExact, SyncedIsExact, InHand, Late, At
  <2>2. CASE w.id # 0 /\ V.live /\ w' = [w EXCEPT !.pc = "readRules", !.seen = V]
    <3>1. /\ w'.pc = "readRules" /\ w'.seen = V /\ w'.id = w.id /\ w'.spec = w.spec
          /\ w'.toDelete = w.toDelete /\ w'.mode = w.mode
      BY <1>1, <2>2 DEF Worker
    <3>2. V' = V
      BY <1>2, <3>1 DEF V
    <3>3. WorkerOK'
      BY <2>0, <2>2, <3>1 DEF PassInv, WorkerOK, InHand, Late, At
    <3>4. w.mode # "create"
      BY <2>0 DEF PassInv, WorkerOK
    <3>5. PassIsExact'
      BY <2>2, <3>1, <3>2, <3>4 DEF PassIsExact, SyncedIsExact, InHandOK, Late, At
    <3> QED BY <3>3, <3>5
  <2> QED BY <1>4, <2>1, <2>2 DEF sdkFind, Go
<1>5. CASE readRules
  <2>1. CASE w' = onError
    BY <1>5, <2>1, ErrorInv DEF readRules, At
  <2>2. CASE \E answered \in BOOLEAN :
               w' = [w EXCEPT !.rulesExist = hasSecurityGroupDefaultRules(answered),
                      !.readFailed = ~answered,
                      !.pc = IF areCIDRBlocksSyncing(w.seen) THEN "requeue" ELSE "found"]
    <3>1. PICK answered \in BOOLEAN :
            w' = [w EXCEPT !.rulesExist = hasSecurityGroupDefaultRules(answered),
                   !.readFailed = ~answered,
                   !.pc = IF areCIDRBlocksSyncing(w.seen) THEN "requeue" ELSE "found"]
      BY <2>2
    <3>2. /\ w'.pc = IF areCIDRBlocksSyncing(w.seen) THEN "requeue" ELSE "found"
          /\ w'.seen = w.seen /\ w'.id = w.id /\ w'.spec = w.spec /\ w'.toDelete = w.toDelete
          /\ w'.mode = w.mode /\ w'.interfered = w.interfered
          /\ w'.readFailed = ~answered /\ w'.rulesExist = hasSecurityGroupDefaultRules(answered)
      BY <1>1, <3>1 DEF Worker
    <3>3. V' = V /\ w.pc = "readRules"
      BY <1>2, <1>5, <3>2 DEF V, readRules, At
    <3>4. WorkerOK'
      BY <3>2, <3>3 DEF PassInv, WorkerOK, InHand, Late, At
    <3>5. ~w'.readFailed => (w'.rulesExist <=> V.rules # {})
      BY <3>2 DEF hasSecurityGroupDefaultRules
    <3>6. PassIsExact'
      <4> SUFFICES ASSUME Undisturbed, w'.pc = "found" PROVE InHandOK(V)'
        BY <3>2 DEF PassIsExact, SyncedIsExact, Undisturbed, InHand, Late, At
      <4>1. InHandOK(V) /\ ~areCIDRBlocksSyncing(w.seen)
        BY <3>2, <3>3 DEF PassInv, PassIsExact, InHand
      <4> QED BY <3>2, <3>3, <3>5, <4>1 DEF InHandOK, Late, At
    <3> QED BY <3>4, <3>6
  <2> QED BY <1>5, <2>1, <2>2 DEF readRules, Refused
<1>6. CASE ReadFails
  <2>1. w.pc # "idle"
    BY <1>6 DEF ReadFails, At
  <2>2. CASE w' = [w EXCEPT !.pc = "failed"]
    <3>1. /\ w'.pc = "failed" /\ w'.mode = w.mode /\ w'.spec = w.spec
          /\ w'.toDelete = w.toDelete
      BY <1>1, <2>2 DEF Worker
    <3> QED BY <2>1, <3>1, StopInv
  <2> QED BY <1>6, <2>1, <2>2, ErrorInv DEF ReadFails, At
<1> QED BY <1>3, <1>4, <1>5, <1>6

LEMMA CreateInv ==
  ASSUME PassInv, setResourceManaged \/ sdkCreate
  PROVE  WorkerOK' /\ PassIsExact'
<1>1. w \in Worker /\ vpcs \in [Ids -> VPCType]
  BY TypeOKIs DEF PassInv
<1>2. CASE setResourceManaged
  <2>1. CASE w' = [w EXCEPT !.pc = "create", !.mode = "create"]
    <3>1. /\ w'.pc = "create" /\ w'.mode = "create" /\ w'.spec = w.spec
          /\ w'.toDelete = w.toDelete /\ w.pc = "manage"
      BY <1>1, <1>2, <2>1 DEF Worker, setResourceManaged, At
    <3> QED BY <3>1 DEF PassInv, WorkerOK, PassIsExact, SyncedIsExact, InHand, Late, At
  <2> QED BY <1>2, <2>1, IdleInv DEF setResourceManaged
<1>3. CASE sdkCreate
  <2> DEFINE new == [NoVPC EXCEPT !.live = TRUE, !.state[Primary] = "associated",
                       !.rules = {"egress", "ingress"}, !.tags = w.spec.tags]
  <2>1. w.pc = "create" /\ w.mode = "create" /\ w.toDelete = {} /\ w.spec \in SpecType
    BY <1>3 DEF PassInv, WorkerOK, At, sdkCreate
  <2>2. CASE /\ nextId \in Ids /\ vpcs' = [vpcs EXCEPT ![nextId] = new]
             /\ w' = [w EXCEPT !.pc = "cidrs", !.id = nextId,
                        !.toAdd = w.spec.cidrs \ {Primary}, !.toSet = Attrs]
    <3>1. /\ w'.pc = "cidrs" /\ w'.mode = "create" /\ w'.spec = w.spec
          /\ w'.toDelete = {} /\ w'.id = nextId /\ nextId # 0
          /\ w'.toAdd = w.spec.cidrs \ {Primary} /\ w'.toSet = Attrs
      BY <1>1, <2>1, <2>2 DEF Worker, Ids
    <3>2. WorkerOK'
      BY <2>1, <3>1 DEF WorkerOK, InHand, At
    <3>3. new.live /\ new.tags = w.spec.tags
          /\ new.state = [c \in CIDRs |-> IF c = Primary THEN "associated" ELSE "none"]
      BY DEF NoVPC
    <3> HIDE DEF new
    <3>4. V' = new
      BY <1>1, <2>2, <3>1 DEF V
    <3>5. Primary \in w.spec.cidrs
      BY <2>1, VPCAssumption DEF SpecType
    <3>6. \A c \in CIDRs : OnTheWay(V, c)'
      BY <3>1, <3>3, <3>4, <3>5 DEF OnTheWay, IsActive, Exactly
    <3>7. InHandOK(V)'
      BY <3>1, <3>3, <3>4, <3>6 DEF InHandOK, Late, At
    <3> QED BY <3>1, <3>2, <3>7 DEF PassIsExact, SyncedIsExact, At
  <2>3. CASE w' = onError
    BY <1>3, <2>3, ErrorInv DEF sdkCreate, At
  <2> QED BY <1>3, <2>2, <2>3 DEF sdkCreate, Refused
<1> QED BY <1>2, <1>3

LEMMA CompareInv ==
  ASSUME PassInv, customUpdateVPC
  PROVE  WorkerOK' /\ PassIsExact'
<1>1. w \in Worker /\ w.pc = "found" /\ w.mode = "update" /\ vpcs' = vpcs
  BY TypeOKIs DEF PassInv, customUpdateVPC, At, Go
<1>2. /\ w'.pc = "cidrs" /\ w'.id = w.id /\ w'.spec = w.spec /\ w'.seen = w.seen
      /\ w'.mode = w.mode /\ w'.interfered = w.interfered
      /\ w'.readFailed = w.readFailed /\ w'.rulesExist = w.rulesExist
      /\ w'.toDelete = toDeleteOf(w.spec.cidrs, w.seen)
      /\ w'.toAdd = toAddOf(w.spec.cidrs, w.seen)
      /\ w'.toSet = (w.spec.attrs \ w.seen.attrs) \cup (w.seen.attrs \ w.spec.attrs)
  BY <1>1 DEF customUpdateVPC, Go, Worker
<1>3. w.spec \in SpecType /\ w.seen \in VPCType /\ w.id # 0
  BY <1>1, VPCInHand DEF InHand, Worker, PassInv, WorkerOK
<1>4. \A e \in w'.toDelete : e[1] \notin w.spec.cidrs
  BY <1>2 DEF toDeleteOf
<1>5. WorkerOK'
  BY <1>1, <1>2, <1>3, <1>4 DEF WorkerOK, At, InHand
<1>6. PassIsExact'
  <2> SUFFICES ASSUME Undisturbed PROVE InHandOK(V)'
    BY <1>2 DEF PassIsExact, SyncedIsExact, Undisturbed, At
  <2>1. V' = V
    BY <1>1, <1>2 DEF V
  <2>2. InHandOK(V) /\ ~areCIDRBlocksSyncing(w.seen)
    BY <1>1 DEF PassInv, PassIsExact, InHand, WorkerOK, At
  <2>3. V.state = w.seen.state /\ V.attrs = w.seen.attrs
    BY <1>1, <2>2 DEF InHandOK
  <2>4. ASSUME NEW c \in CIDRs PROVE OnTheWay(V, c)'
    <3>1. w.seen.state[c] \in {"none", "associated"}
      BY <1>3, <2>2 DEF VPCType, States, areCIDRBlocksSyncing, Transitional
    <3>2. c \in setSpecCIDRs(w.seen) <=> w.seen.state[c] = "associated" \/ c \in w.seen.dead
      BY <3>1 DEF setSpecCIDRs
    <3>3. c \in w'.toAdd <=> c \in w.spec.cidrs /\ c \notin setSpecCIDRs(w.seen)
      BY <1>2 DEF toAddOf
    <3>4. <<c, "live">> \in w'.toDelete <=> c \notin w.spec.cidrs /\ w.seen.state[c] = "associated"
      BY <1>2, <3>1, <3>2 DEF toDeleteOf
    <3> QED BY <1>2, <2>1, <2>3, <3>1, <3>2, <3>3, <3>4 DEF OnTheWay, IsActive, Exactly
  <2>5. \A a \in Attrs \ w'.toSet : a \in V.attrs <=> a \in w.spec.attrs
    BY <1>2, <2>3
  <2> QED BY <1>1, <1>2, <2>1, <2>2, <2>4, <2>5 DEF InHandOK, Late, At
<1> QED BY <1>5, <1>6

\* A change of the VPC in hand.
LEMMA VPCChanges ==
  ASSUME PassInv, w.pc \in InHand, NEW v, vpcs' = [vpcs EXCEPT ![w.id] = v], w'.id = w.id
  PROVE  V' = v
BY VPCInHand, TypeOKIs DEF PassInv, V

\* sdkCreate goes on after a CIDR that could not be associated.
LEMMA CIDRsFailedInv ==
  ASSUME PassInv, w.pc = "cidrs", w' = cidrsFailed,
         \/ vpcs' = vpcs
         \/ w.mode # "create"
         \/ \E b \in w.toAdd : vpcs' = [vpcs EXCEPT ![w.id] = [V EXCEPT !.state[b] = "associating"]]
  PROVE  WorkerOK' /\ PassIsExact'
<1>1. w \in Worker /\ w.id # 0 /\ w.spec \in SpecType /\ V \in VPCType
  BY VPCInHand, TypeOKIs DEF PassInv, InHand, WorkerOK
<1>2. CASE w.mode # "create"
  BY <1>2, ErrorInv DEF cidrsFailed, At
<1>3. CASE w.mode = "create"
  <2>1. /\ w'.pc = "attrs" /\ w'.mode = "create" /\ w'.id = w.id /\ w'.spec = w.spec
        /\ w'.toDelete = {} /\ w.toDelete = {} /\ w'.toSet = w.toSet
        /\ w'.interfered = w.interfered
    BY <1>1, <1>3 DEF cidrsFailed, Worker, PassInv, WorkerOK
  <2>2. WorkerOK'
    BY <1>1, <2>1 DEF WorkerOK, InHand, Late, At
  <2>3. PassIsExact'
    <3> SUFFICES ASSUME Undisturbed PROVE InHandOK(V)'
      BY <2>1 DEF PassIsExact, SyncedIsExact, Undisturbed, At
    <3>1. InHandOK(V) /\ \A c \in CIDRs : OnTheWay(V, c)
      BY DEF PassInv, PassIsExact, InHand, InHandOK, At
    <3>2. /\ V'.live = V.live /\ V'.tags = V.tags /\ V'.attrs = V.attrs
          /\ \A c \in CIDRs : V'.state[c] # V.state[c] => c \in w.toAdd
      <4>1. CASE vpcs' = vpcs
        BY <2>1, <4>1 DEF V
      <4>2. CASE \E b \in w.toAdd :
                   vpcs' = [vpcs EXCEPT ![w.id] = [V EXCEPT !.state[b] = "associating"]]
        <5>1. PICK b \in w.toAdd :
                vpcs' = [vpcs EXCEPT ![w.id] = [V EXCEPT !.state[b] = "associating"]]
          BY <4>2
        <5>2. V' = [V EXCEPT !.state[b] = "associating"]
          BY <2>1, <5>1, VPCChanges DEF InHand
        <5> QED BY <1>1, <5>2 DEF VPCType
      <4> QED BY <1>3, <4>1, <4>2
    <3>3. ASSUME NEW c \in CIDRs PROVE Held(V, c)'
      <4>1. OnTheWay(V, c)
        BY <3>1
      <4> QED BY <2>1, <3>2, <4>1 DEF OnTheWay, Held, IsActive, Exactly
    <3> QED BY <1>3, <2>1, <3>1, <3>2, <3>3 DEF InHandOK, Late, At
  <2> QED BY <2>2, <2>3
<1> QED BY <1>2, <1>3

LEMMA CIDRInv ==
  ASSUME PassInv, DisassociateVpcCidrBlock \/ AssociateVpcCidrBlock
  PROVE  WorkerOK' /\ PassIsExact'
<1>1. w \in Worker /\ w.pc = "cidrs" /\ w.id # 0 /\ w.spec \in SpecType
  BY TypeOKIs DEF PassInv, DisassociateVpcCidrBlock, AssociateVpcCidrBlock, At, WorkerOK, InHand
<1>2. V \in VPCType /\ vpcs \in [Ids -> VPCType]
  BY <1>1, VPCInHand, TypeOKIs DEF InHand, PassInv
<1>3. CASE DisassociateVpcCidrBlock
  <2>0. PICK e \in w.toDelete :
          \/ w' = cidrsFailed
          \/ /\ w' = [w EXCEPT !.toDelete = @ \ {e}]
             /\ \/ /\ e[2] = "live" /\ V.state[e[1]] = "associated"
                   /\ vpcs' = [vpcs EXCEPT ![w.id] = [V EXCEPT !.state[e[1]] = "disassociating"]]
                \/ e[2] = "dead" /\ vpcs' = vpcs
    BY <1>3 DEF DisassociateVpcCidrBlock, Call, Go
  <2>1. w.mode # "create" /\ e \in CIDRs \X {"live", "dead"} /\ e[1] \notin w.spec.cidrs
    BY <1>1 DEF Worker, PassInv, WorkerOK
  <2>2. CASE w' = cidrsFailed
    BY <1>1, <2>1, <2>2, CIDRsFailedInv
  <2>3. CASE /\ w' = [w EXCEPT !.toDelete = @ \ {e}]
             /\ \/ /\ e[2] = "live" /\ V.state[e[1]] = "associated"
                   /\ vpcs' = [vpcs EXCEPT ![w.id] = [V EXCEPT !.state[e[1]] = "disassociating"]]
                \/ e[2] = "dead" /\ vpcs' = vpcs
    <3>1. /\ w'.pc = "cidrs" /\ w'.mode = w.mode /\ w'.id = w.id /\ w'.spec = w.spec
          /\ w'.seen = w.seen /\ w'.interfered = w.interfered /\ w'.readFailed = w.readFailed
          /\ w'.rulesExist = w.rulesExist /\ w'.toAdd = w.toAdd /\ w'.toSet = w.toSet
          /\ w'.toDelete = w.toDelete \ {e}
      BY <1>1, <2>3 DEF Worker
    <3>2. WorkerOK'
      BY <1>1, <3>1 DEF PassInv, WorkerOK, At, InHand
    <3>3. PassIsExact'
      <4> SUFFICES ASSUME Undisturbed PROVE InHandOK(V)'
        BY <3>1 DEF PassIsExact, SyncedIsExact, Undisturbed, At
      <4>1. InHandOK(V) /\ \A c \in CIDRs : OnTheWay(V, c)
        BY <1>1 DEF PassInv, PassIsExact, InHand, InHandOK, At
      <4>2. /\ V'.live = V.live /\ V'.tags = V.tags /\ V'.rules = V.rules /\ V'.attrs = V.attrs
            /\ \A c \in CIDRs : V'.state[c] = IF e = <<c, "live">> THEN "disassociating"
                                              ELSE V.state[c]
        <5>1. CASE e[2] = "dead" /\ vpcs' = vpcs
          BY <3>1, <5>1 DEF V
        <5>2. CASE /\ e[2] = "live"
                   /\ vpcs' = [vpcs EXCEPT ![w.id] = [V EXCEPT !.state[e[1]] = "disassociating"]]
          <6>1. e = <<e[1], "live">> /\ e[1] \in CIDRs
            BY <2>1, <5>2
          <6>2. V' = [V EXCEPT !.state[e[1]] = "disassociating"]
            BY <1>1, <3>1, <5>2, VPCChanges DEF InHand
          <6>3. \A c \in CIDRs : e = <<c, "live">> <=> c = e[1]
            BY <6>1
          <6> QED BY <1>2, <6>1, <6>2, <6>3 DEF VPCType
        <5> QED BY <2>3, <5>1, <5>2
      <4>3. ASSUME NEW c \in CIDRs PROVE OnTheWay(V, c)'
        <5>1. OnTheWay(V, c)
          BY <4>1
        <5>2. CASE e # <<c, "live">>
          BY <3>1, <4>2, <5>1, <5>2 DEF OnTheWay, IsActive, Exactly
        <5>3. CASE e = <<c, "live">>
          BY <2>1, <3>1, <4>2, <5>1, <5>3 DEF OnTheWay, IsActive, Exactly
        <5> QED BY <5>2, <5>3
      <4> QED BY <1>1, <3>1, <4>1, <4>2, <4>3 DEF InHandOK, Late, At
    <3> QED BY <3>2, <3>3
  <2> QED BY <2>0, <2>2, <2>3
<1>4. CASE AssociateVpcCidrBlock
  <2>1. PICK b \in w.toAdd :
          \/ w' = cidrsFailed /\ vpcs' = vpcs
          \/ /\ w' = [w EXCEPT !.toAdd = @ \ {b}] \/ w' = cidrsFailed
             /\ vpcs' = [vpcs EXCEPT ![w.id] = [V EXCEPT !.state[b] = "associating"]]
    BY <1>4 DEF AssociateVpcCidrBlock, Call, Go
  <2>2. CASE w' = cidrsFailed
    BY <1>1, <2>1, <2>2, CIDRsFailedInv
  <2>3. CASE /\ w' = [w EXCEPT !.toAdd = @ \ {b}]
             /\ vpcs' = [vpcs EXCEPT ![w.id] = [V EXCEPT !.state[b] = "associating"]]
    <3>1. /\ w'.pc = "cidrs" /\ w'.mode = w.mode /\ w'.id = w.id /\ w'.spec = w.spec
          /\ w'.seen = w.seen /\ w'.interfered = w.interfered /\ w'.readFailed = w.readFailed
          /\ w'.rulesExist = w.rulesExist /\ w'.toDelete = w.toDelete /\ w'.toSet = w.toSet
          /\ w'.toAdd = w.toAdd \ {b}
      BY <1>1, <2>3 DEF Worker
    <3>2. b \in CIDRs /\ w.toDelete = {}
      BY <1>1, <1>4 DEF Worker, AssociateVpcCidrBlock
    <3>3. WorkerOK'
      BY <1>1, <3>1 DEF PassInv, WorkerOK, At, InHand
    <3>4. PassIsExact'
      <4> SUFFICES ASSUME Undisturbed PROVE InHandOK(V)'
        BY <3>1 DEF PassIsExact, SyncedIsExact, Undisturbed, At
      <4>1. InHandOK(V) /\ \A c \in CIDRs : OnTheWay(V, c)
        BY <1>1 DEF PassInv, PassIsExact, InHand, InHandOK, At
      <4>2. V' = [V EXCEPT !.state[b] = "associating"]
        BY <1>1, <2>3, <3>1, VPCChanges DEF InHand
      <4>3. /\ V'.live = V.live /\ V'.tags = V.tags /\ V'.rules = V.rules /\ V'.attrs = V.attrs
            /\ V'.state[b] = "associating"
            /\ \A c \in CIDRs : c # b => V'.state[c] = V.state[c]
        BY <1>2, <3>2, <4>2 DEF VPCType
      <4>4. ASSUME NEW c \in CIDRs PROVE OnTheWay(V, c)'
        <5>1. OnTheWay(V, c)
          BY <4>1
        <5> QED BY <2>1, <3>1, <3>2, <4>3, <5>1 DEF OnTheWay, IsActive, Exactly
      <4> QED BY <1>1, <3>1, <4>1, <4>3, <4>4 DEF InHandOK, Late, At
    <3> QED BY <3>3, <3>4
  <2> QED BY <2>1, <2>2, <2>3
<1> QED BY <1>3, <1>4

LEMMA RulesInv ==
  ASSUME PassInv, syncCIDRBlocks \/ deleteSecurityGroupDefaultRules
  PROVE  WorkerOK' /\ PassIsExact'
<1>1. w \in Worker /\ w.pc \in {"cidrs", "egress", "ingress"} /\ w.id # 0 /\ w.spec \in SpecType
  BY TypeOKIs DEF PassInv, syncCIDRBlocks, deleteSecurityGroupDefaultRules, At, WorkerOK, InHand
<1>2. V \in VPCType
  BY <1>1, VPCInHand DEF InHand
<1>3. CASE syncCIDRBlocks
  <2>1. /\ w.pc = "cidrs" /\ w.toDelete = {} /\ w.toAdd = {} /\ vpcs' = vpcs
        /\ w'.pc = IF w.mode = "update" /\ w.spec.disallow /\ w.rulesExist
                   THEN "egress" ELSE "attrs"
        /\ w'.mode = w.mode /\ w'.id = w.id /\ w'.spec = w.spec /\ w'.seen = w.seen
        /\ w'.interfered = w.interfered /\ w'.readFailed = w.readFailed
        /\ w'.toDelete = w.toDelete /\ w'.toSet = w.toSet
    BY <1>1, <1>3 DEF syncCIDRBlocks, Go, At, Worker
  <2>2. WorkerOK'
    BY <1>1, <2>1 DEF PassInv, WorkerOK, At, InHand
  <2>3. PassIsExact'
    <3> SUFFICES ASSUME Undisturbed PROVE InHandOK(V)'
      BY <2>1 DEF PassIsExact, SyncedIsExact, Undisturbed, At
    <3>1. InHandOK(V) /\ V' = V
      BY <2>1 DEF PassInv, PassIsExact, InHand, V
    <3>2. ASSUME NEW c \in CIDRs PROVE Held(V, c)'
      <4>1. OnTheWay(V, c)
        BY <2>1, <3>1 DEF InHandOK, At
      <4> QED BY <2>1, <3>1, <4>1 DEF OnTheWay, Held, IsActive, Exactly
    <3>3. w'.pc = "attrs" /\ w.mode = "update" /\ w.spec.disallow /\ ~w.readFailed => V.rules = {}
      BY <2>1, <3>1 DEF InHandOK
    <3> QED BY <2>1, <3>1, <3>2, <3>3 DEF InHandOK, Late, At
  <2> QED BY <2>2, <2>3
<1>4. CASE deleteSecurityGroupDefaultRules
  <2>1. CASE w' = onError
    BY <1>1, <2>1, ErrorInv DEF At
  <2>2. CASE \E rule \in {"egress", "ingress"} :
               /\ w.pc = rule
               /\ vpcs' = [vpcs EXCEPT ![w.id] = [V EXCEPT !.rules = V.rules \ {rule}]]
               /\ w' = [w EXCEPT !.pc = IF rule = "egress" THEN "ingress" ELSE "attrs"]
    <3>1. PICK rule \in {"egress", "ingress"} :
               /\ w.pc = rule
               /\ vpcs' = [vpcs EXCEPT ![w.id] = [V EXCEPT !.rules = V.rules \ {rule}]]
               /\ w' = [w EXCEPT !.pc = IF rule = "egress" THEN "ingress" ELSE "attrs"]
      BY <2>2
    <3>2. /\ w'.pc = IF rule = "egress" THEN "ingress" ELSE "attrs"
          /\ w'.mode = w.mode /\ w'.id = w.id /\ w'.spec = w.spec /\ w'.seen = w.seen
          /\ w'.interfered = w.interfered /\ w'.readFailed = w.readFailed
          /\ w'.toDelete = w.toDelete /\ w'.toSet = w.toSet /\ w.mode = "update"
      BY <1>1, <3>1 DEF Worker, PassInv, WorkerOK
    <3>3. WorkerOK'
      BY <1>1, <3>1, <3>2 DEF PassInv, WorkerOK, At, InHand
    <3>4. PassIsExact'
      <4> SUFFICES ASSUME Undisturbed PROVE InHandOK(V)'
        BY <3>2 DEF PassIsExact, SyncedIsExact, Undisturbed, At
      <4>1. InHandOK(V) /\ \A c \in CIDRs : Held(V, c)
        BY <3>1 DEF PassInv, PassIsExact, InHand, InHandOK
      <4>2. V' = [V EXCEPT !.rules = V.rules \ {rule}]
        BY <1>1, <3>1, <3>2, VPCChanges DEF InHand
      <4>3. /\ V'.live = V.live /\ V'.tags = V.tags /\ V'.attrs = V.attrs
            /\ V'.state = V.state /\ V'.rules = V.rules \ {rule}
        BY <1>2, <4>2 DEF VPCType
      <4>4. rule = "ingress" => V'.rules = {}
        BY <1>2, <3>1, <4>1, <4>3 DEF InHandOK, VPCType, At
      <4>5. \A c \in CIDRs : Held(V, c)'
        BY <3>2, <4>1, <4>3 DEF Held, IsActive, Exactly
      <4> QED BY <3>1, <3>2, <4>1, <4>3, <4>4, <4>5 DEF InHandOK, Late, At
    <3> QED BY <3>3, <3>4
  <2>3. CASE At("egress") /\ RevokeSecurityGroup("egress", [w EXCEPT !.pc = "ingress"])
    BY <2>1, <2>2, <2>3 DEF RevokeSecurityGroup, Call, Refused, At
  <2>4. CASE At("ingress") /\ RevokeSecurityGroup("ingress", [w EXCEPT !.pc = "attrs"])
    BY <2>1, <2>2, <2>4 DEF RevokeSecurityGroup, Call, Refused, At
  <2> QED BY <1>4, <2>3, <2>4 DEF deleteSecurityGroupDefaultRules
<1> QED BY <1>3, <1>4

LEMMA AttributesInv ==
  ASSUME PassInv, syncAttributes
  PROVE  WorkerOK' /\ PassIsExact'
<1>1. w \in Worker /\ w.pc = "attrs" /\ w.id # 0 /\ w.spec \in SpecType
      /\ w.mode \in {"create", "update"}
  BY TypeOKIs DEF PassInv, syncAttributes, At, WorkerOK, InHand, Worker
<1>2. V \in VPCType
  BY <1>1, VPCInHand DEF InHand
<1>3. CASE w' = onError
  BY <1>1, <1>3, ErrorInv DEF At
<1>4. CASE \E a \in w.toSet :
             /\ vpcs' = [vpcs EXCEPT ![w.id] = [V EXCEPT !.attrs =
                           IF a \in w.spec.attrs THEN V.attrs \cup {a} ELSE V.attrs \ {a}]]
             /\ w' = [w EXCEPT !.toSet = @ \ {a}]
  <2>1. PICK b \in w.toSet :
             /\ vpcs' = [vpcs EXCEPT ![w.id] = [V EXCEPT !.attrs =
                           IF b \in w.spec.attrs THEN V.attrs \cup {b} ELSE V.attrs \ {b}]]
             /\ w' = [w EXCEPT !.toSet = @ \ {b}]
    BY <1>4
  <2>2. /\ w'.pc = "attrs" /\ w'.mode = w.mode /\ w'.id = w.id /\ w'.spec = w.spec
        /\ w'.seen = w.seen /\ w'.interfered = w.interfered /\ w'.readFailed = w.readFailed
        /\ w'.toDelete = w.toDelete /\ w'.toSet = w.toSet \ {b}
    BY <1>1, <2>1 DEF Worker
  <2>3. WorkerOK'
    BY <1>1, <2>2 DEF PassInv, WorkerOK, At, InHand
  <2>4. PassIsExact'
    <3> SUFFICES ASSUME Undisturbed PROVE InHandOK(V)'
      BY <2>2 DEF PassIsExact, SyncedIsExact, Undisturbed, At
    <3>1. InHandOK(V) /\ \A c \in CIDRs : Held(V, c)
      BY <1>1 DEF PassInv, PassIsExact, InHand, InHandOK
    <3> DEFINE attrs == IF b \in w.spec.attrs THEN V.attrs \cup {b} ELSE V.attrs \ {b}
    <3>2. V' = [V EXCEPT !.attrs = attrs]
      BY <1>1, <2>1, <2>2, VPCChanges DEF InHand
    <3>3. \A a : a \in attrs <=> IF a = b THEN a \in w.spec.attrs ELSE a \in V.attrs
      OBVIOUS
    <3> HIDE DEF attrs
    <3>4. /\ V'.live = V.live /\ V'.tags = V.tags /\ V'.rules = V.rules
          /\ V'.state = V.state /\ V'.attrs = attrs
      BY <1>2, <3>2 DEF VPCType
    <3>5. \A a \in Attrs \ w'.toSet : a \in attrs <=> a \in w.spec.attrs
      <4>1. \A a \in Attrs \ w.toSet : a \in V.attrs <=> a \in w.spec.attrs
        BY <1>1, <3>1 DEF InHandOK
      <4> QED BY <2>2, <3>3, <4>1
    <3>6. \A c \in CIDRs : Held(V, c)'
      BY <2>2, <3>1, <3>4 DEF Held, IsActive, Exactly
    <3> QED BY <1>1, <2>2, <3>1, <3>4, <3>5, <3>6 DEF InHandOK, Late, At
  <2> QED BY <2>3, <2>4
<1>5. CASE /\ w.toSet = {} /\ vpcs' = vpcs
           /\ w' = [w EXCEPT !.pc = IF w.mode = "create" THEN "checkRules" ELSE "tags"]
  <2>1. /\ w'.pc = IF w.mode = "create" THEN "checkRules" ELSE "tags"
        /\ w'.mode = w.mode /\ w'.id = w.id /\ w'.spec = w.spec
        /\ w'.seen = w.seen /\ w'.interfered = w.interfered /\ w'.readFailed = w.readFailed
        /\ w'.toDelete = w.toDelete
    BY <1>1, <1>5 DEF Worker
  <2>2. WorkerOK'
    BY <1>1, <2>1 DEF PassInv, WorkerOK, At, InHand
  <2>3. PassIsExact'
    <3> SUFFICES ASSUME Undisturbed PROVE InHandOK(V)'
      BY <2>1 DEF PassIsExact, SyncedIsExact, Undisturbed, At
    <3>1. InHandOK(V) /\ V' = V /\ \A c \in CIDRs : Held(V, c)
      BY <1>1, <1>5, <2>1 DEF PassInv, PassIsExact, InHand, InHandOK, V
    <3>2. V.attrs = w.spec.attrs
      <4>1. \A a \in Attrs : a \in V.attrs <=> a \in w.spec.attrs
        BY <1>1, <1>5, <3>1 DEF InHandOK
      <4>2. V.attrs \subseteq Attrs /\ w.spec.attrs \subseteq Attrs
        BY <1>1, <1>2, SpecIsDesired DEF VPCType, Desired
      <4> QED BY <4>1, <4>2
    <3>3. \A c \in CIDRs : Held(V, c)'
      BY <2>1, <3>1 DEF Held, IsActive, Exactly
    <3> QED BY <1>1, <2>1, <3>1, <3>2, <3>3 DEF InHandOK, Late, At
  <2> QED BY <2>2, <2>3
<1> QED BY <1>3, <1>4, <1>5 DEF syncAttributes, Call, Refused, Go

LEMMA CheckInv ==
  ASSUME PassInv, checkRules
  PROVE  WorkerOK' /\ PassIsExact'
<1>1. w \in Worker /\ w.pc = "checkRules" /\ w.mode = "create" /\ w.id # 0 /\ w.spec \in SpecType
  BY TypeOKIs DEF PassInv, checkRules, At, WorkerOK, InHand
<1>2. CASE w' = onError
  BY <1>1, <1>2, ErrorInv DEF At
<1>3. CASE \E answered \in BOOLEAN :
             /\ vpcs' = vpcs
             /\ w' = [w EXCEPT !.rulesExist = hasSecurityGroupDefaultRules(answered),
                    !.readFailed = ~answered,
                    !.pc = IF hasSecurityGroupDefaultRules(answered) /\ w.spec.disallow
                           THEN "requeue" ELSE "lateInit"]
  <2>1. PICK answered \in BOOLEAN :
             /\ vpcs' = vpcs
             /\ w' = [w EXCEPT !.rulesExist = hasSecurityGroupDefaultRules(answered),
                    !.readFailed = ~answered,
                    !.pc = IF hasSecurityGroupDefaultRules(answered) /\ w.spec.disallow
                           THEN "requeue" ELSE "lateInit"]
    BY <1>3
  <2>2. /\ w'.pc = IF hasSecurityGroupDefaultRules(answered) /\ w.spec.disallow
                   THEN "requeue" ELSE "lateInit"
        /\ w'.mode = w.mode /\ w'.id = w.id /\ w'.spec = w.spec /\ w'.seen = w.seen
        /\ w'.interfered = w.interfered /\ w'.readFailed = ~answered
        /\ w'.toDelete = w.toDelete
    BY <1>1, <2>1 DEF Worker
  <2>3. CASE w'.pc = "requeue"
    BY <1>1, <2>2, <2>3, StopInv
  <2>4. CASE w'.pc = "lateInit"
    <3>1. WorkerOK'
      BY <1>1, <2>2, <2>4 DEF PassInv, WorkerOK, At, InHand, Late
    <3>2. PassIsExact'
      <4> SUFFICES ASSUME Undisturbed PROVE InHandOK(V)'
        BY <2>2, <2>4 DEF PassIsExact, SyncedIsExact, Undisturbed, At
      <4>1. InHandOK(V) /\ V' = V /\ \A c \in CIDRs : Held(V, c)
        BY <1>1, <2>1, <2>2 DEF PassInv, PassIsExact, InHand, InHandOK, V
      <4>2. w.spec.disallow /\ ~w'.readFailed => V.rules = {}
        BY <2>2, <2>4 DEF hasSecurityGroupDefaultRules
      <4>3. \A c \in CIDRs : Held(V, c)'
        BY <2>2, <4>1 DEF Held, IsActive, Exactly
      <4> QED BY <1>1, <2>2, <2>4, <4>1, <4>2, <4>3 DEF InHandOK, Late, At
    <3> QED BY <3>1, <3>2
  <2> QED BY <2>2, <2>3, <2>4
<1> QED BY <1>2, <1>3 DEF checkRules, Refused, DescribeSecurityGroupRules

LEMMA TagsInv ==
  ASSUME PassInv, syncTags
  PROVE  WorkerOK' /\ PassIsExact'
<1> DEFINE removed == V.tags \ (w.seen.tags \ w.spec.tags)
           tags    == removed \cup (w.spec.tags \ w.seen.tags)
<1>1. w \in Worker /\ w.pc = "tags" /\ w.mode = "update" /\ w.id # 0 /\ w.spec \in SpecType
  BY TypeOKIs DEF PassInv, syncTags, At, WorkerOK, InHand
<1>2. V \in VPCType
  BY <1>1, VPCInHand DEF InHand
<1>3. CASE w' = onError
  BY <1>1, <1>3, ErrorInv DEF At
<1>4. CASE /\ w' = [w EXCEPT !.pc = "lateInit"]
           /\ \/ vpcs' = vpcs /\ w.spec.tags = w.seen.tags
              \/ vpcs' = [vpcs EXCEPT ![w.id] = [V EXCEPT !.tags = tags]]
  <2>1. /\ w'.pc = "lateInit" /\ w'.mode = w.mode /\ w'.id = w.id /\ w'.spec = w.spec
        /\ w'.seen = w.seen /\ w'.interfered = w.interfered /\ w'.readFailed = w.readFailed
        /\ w'.toDelete = w.toDelete
    BY <1>1, <1>4 DEF Worker
  <2>2. WorkerOK'
    BY <1>1, <2>1 DEF PassInv, WorkerOK, At, InHand, Late
  <2>3. PassIsExact'
    <3> SUFFICES ASSUME Undisturbed PROVE InHandOK(V)'
      BY <2>1 DEF PassIsExact, SyncedIsExact, Undisturbed, At
    <3>1. InHandOK(V) /\ \A c \in CIDRs : Held(V, c)
      BY <1>1 DEF PassInv, PassIsExact, InHand, InHandOK
    <3>2. V.tags = w.seen.tags
      BY <1>1, <3>1 DEF InHandOK, Late
    <3>3. tags = w.spec.tags
      BY <3>2
    <3> HIDE DEF tags
    <3>4. V' = V \/ V' = [V EXCEPT !.tags = tags]
      BY <1>1, <1>4, <2>1, VPCChanges DEF InHand, V
    <3>5. V'.tags = w.spec.tags
      BY <1>2, <1>4, <2>1, <3>2, <3>3, VPCChanges, <1>1 DEF VPCType, InHand, V
    <3>6. V'.live = V.live /\ V'.state = V.state /\ V'.attrs = V.attrs /\ V'.rules = V.rules
      BY <1>2, <3>4 DEF VPCType
    <3>7. \A c \in CIDRs : Held(V, c)'
      BY <2>1, <3>1, <3>6 DEF Held, IsActive, Exactly
    <3> QED BY <1>1, <2>1, <3>1, <3>5, <3>6, <3>7 DEF InHandOK, Late, At
  <2> QED BY <2>2, <2>3
<1> HIDE DEF tags, removed
<1> QED
  <2>1. \/ w' = onError
        \/ /\ w' = [w EXCEPT !.pc = "lateInit"]
           /\ \/ vpcs' = vpcs /\ w.spec.tags = w.seen.tags
              \/ vpcs' = [vpcs EXCEPT ![w.id] = [V EXCEPT !.tags = tags]]
    BY DEF syncTags, Call, Go, Refused, tags, removed
  <2> QED BY <1>3, <1>4, <2>1

\* The second read of the VPC changes nothing but the verdict on the pass: it is
\* what keeps a VPC with a CIDR in transition from being called synced.
LEMMA LateInv ==
  ASSUME PassInv, LateInitialize
  PROVE  WorkerOK' /\ PassIsExact'
<1>1. w \in Worker /\ w.pc \in Late /\ w.id # 0 /\ w.spec \in SpecType /\ vpcs' = vpcs
  BY TypeOKIs DEF PassInv, LateInitialize, At, WorkerOK, InHand, Late, Go
<1>2. V \in VPCType
  BY <1>1, VPCInHand DEF InHand
<1>3. PICK label \in {"failed", "requeue", "lateRules", "synced"} : w' = [w EXCEPT !.pc = label]
  BY DEF LateInitialize, Go
<1>4. /\ w'.pc = label /\ w'.mode = w.mode /\ w'.id = w.id /\ w'.spec = w.spec
      /\ w'.seen = w.seen /\ w'.interfered = w.interfered /\ w'.readFailed = w.readFailed
      /\ w'.toDelete = w.toDelete
  BY <1>1, <1>3 DEF Worker
<1>5. V' = V
  BY <1>1, <1>4 DEF V
<1>6. ASSUME Undisturbed
      PROVE  /\ InHandOK(V) /\ V.live /\ V.attrs = w.spec.attrs /\ V.tags = w.spec.tags
             /\ w.spec.disallow /\ ~w.readFailed => V.rules = {}
             /\ \A c \in CIDRs : Held(V, c)
             /\ w.pc = "lateRules" => ~areCIDRBlocksSyncing(V)
  BY <1>1, <1>6 DEF PassInv, PassIsExact, InHand, InHandOK, At
<1>7. CASE label \in {"failed", "requeue"}
  BY <1>1, <1>4, <1>7, StopInv DEF Late
<1>8. CASE label = "lateRules"
  <2>1. ~areCIDRBlocksSyncing(V)
    <3>1. [w EXCEPT !.pc = "failed"].pc = "failed" /\ [w EXCEPT !.pc = "requeue"].pc = "requeue"
          /\ [w EXCEPT !.pc = "synced"].pc = "synced"
      BY <1>1 DEF Worker
    <3> QED BY <1>4, <1>8, <3>1 DEF LateInitialize, Go
  <2>2. WorkerOK'
    BY <1>1, <1>4, <1>8 DEF PassInv, WorkerOK, At, InHand, Late
  <2>3. PassIsExact'
    <3> SUFFICES ASSUME Undisturbed PROVE InHandOK(V)'
      BY <1>4, <1>8 DEF PassIsExact, SyncedIsExact, Undisturbed, At
    <3>1. \A c \in CIDRs : Held(V, c)'
      BY <1>4, <1>5, <1>6 DEF Held, IsActive, Exactly
    <3>2. ~areCIDRBlocksSyncing(V)'
      BY <1>5, <2>1 DEF areCIDRBlocksSyncing
    <3> QED BY <1>4, <1>5, <1>6, <1>8, <3>1, <3>2 DEF InHandOK, Late, At
  <2> QED BY <2>2, <2>3
<1>9. CASE label = "synced"
  <2>1. w.pc = "lateRules"
    <3>1. [w EXCEPT !.pc = "failed"].pc = "failed" /\ [w EXCEPT !.pc = "requeue"].pc = "requeue"
          /\ [w EXCEPT !.pc = "lateRules"].pc = "lateRules"
      BY <1>1 DEF Worker
    <3> QED BY <1>4, <1>9, <3>1 DEF LateInitialize, Go, At
  <2>2. WorkerOK'
    BY <1>1, <1>4, <1>9, <2>1 DEF PassInv, WorkerOK, At, InHand, Late
  <2>3. SyncedIsExact'
    <3> SUFFICES ASSUME Undisturbed
                 PROVE  /\ V.live /\ V.attrs = w.spec.attrs /\ V.tags = w.spec.tags
                        /\ \A c \in CIDRs :
                             /\ V.state[c] \in IF c \in w.spec.cidrs
                                               THEN {"associated", "none"} ELSE {"none"}
                             /\ Exactly /\ c \in w.spec.cidrs => V.state[c] = "associated"
                        /\ w.spec.disallow /\ ~w.readFailed => V.rules = {}
      BY <1>4, <1>5 DEF SyncedIsExact, Undisturbed, Exactly
    <3>1. ASSUME NEW c \in CIDRs
          PROVE  /\ V.state[c] \in IF c \in w.spec.cidrs
                                   THEN {"associated", "none"} ELSE {"none"}
                 /\ Exactly /\ c \in w.spec.cidrs => V.state[c] = "associated"
      <4>1. V.state[c] \in {"associated", "none"}
        BY <1>2, <1>6, <2>1 DEF areCIDRBlocksSyncing, VPCType, States, Transitional
      <4>2. Held(V, c)
        BY <1>6
      <4> QED BY <4>1, <4>2 DEF Held, IsActive
    <3> QED BY <1>6, <3>1
  <2> QED BY <1>4, <1>9, <2>2, <2>3 DEF PassIsExact, InHand, Late
<1> QED BY <1>3, <1>7, <1>8, <1>9

LEMMA EndInv ==
  ASSUME PassInv, sdkDelete \/ setResourceUnmanaged \/ PatchStatus \/ Crash
  PROVE  WorkerOK' /\ PassIsExact'
<1>1. w \in Worker
  BY TypeOKIs DEF PassInv
<1>2. CASE sdkDelete
  <2>1. w.pc = "found"
    BY <1>2 DEF sdkDelete, At
  <2>2. CASE w' = onError
    BY <2>1, <2>2, ErrorInv DEF At
  <2>3. CASE w' = [w EXCEPT !.pc = "release"]
    <3>1. /\ w'.pc = "release" /\ w'.mode = w.mode /\ w'.spec = w.spec
          /\ w'.toDelete = w.toDelete
      BY <1>1, <2>3 DEF Worker
    <3> QED BY <2>1, <3>1, StopInv
  <2> QED BY <1>2, <2>2, <2>3 DEF sdkDelete, Call, Refused
<1> QED BY <1>2, IdleInv DEF setResourceUnmanaged, PatchStatus, Crash

\* EC2 finishes a transition of a CIDR of v, or forgets a dead entry.
Settled(v, next) ==
  /\ next.live = v.live /\ next.tags = v.tags /\ next.attrs = v.attrs /\ next.rules = v.rules
  /\ \A c \in CIDRs :
       /\ v.state[c] \in {"none", "associated"} => next.state[c] = v.state[c]
       /\ IsActive(next, c) <=> IsActive(v, c)
  /\ ~areCIDRBlocksSyncing(v) => next.state = v.state

LEMMA SettleIs ==
  ASSUME TypeOK, Settle, NEW i \in Ids
  PROVE  Settled(vpcs[i], vpcs'[i])
<1>1. vpcs \in [Ids -> VPCType] /\ vpcs[i] \in VPCType
  BY TypeOKIs
<1>2. CASE vpcs'[i] = vpcs[i]
  BY <1>2 DEF Settled, IsActive
<1>3. ASSUME NEW d PROVE Settled(vpcs[i], [vpcs[i] EXCEPT !.dead = d])
  BY <1>1 DEF Settled, IsActive, VPCType
<1>4. ASSUME NEW c \in CIDRs, NEW s \in {"associated", "none"}, NEW d,
             vpcs[i].state[c] = IF s = "none" THEN "disassociating" ELSE "associating"
      PROVE  /\ Settled(vpcs[i], [vpcs[i] EXCEPT !.state[c] = s, !.dead = d])
             /\ Settled(vpcs[i], [vpcs[i] EXCEPT !.state[c] = s])
  <2> DEFINE next == [vpcs[i] EXCEPT !.state[c] = s]
  <2>1. areCIDRBlocksSyncing(vpcs[i])
    BY <1>4 DEF areCIDRBlocksSyncing, Transitional
  <2>2. /\ next.live = vpcs[i].live /\ next.tags = vpcs[i].tags /\ next.attrs = vpcs[i].attrs
        /\ next.rules = vpcs[i].rules /\ next.state = [vpcs[i].state EXCEPT ![c] = s]
    BY <1>1 DEF VPCType
  <2>3. LET more == [vpcs[i] EXCEPT !.state[c] = s, !.dead = d]
        IN  /\ more.live = vpcs[i].live /\ more.tags = vpcs[i].tags /\ more.attrs = vpcs[i].attrs
            /\ more.rules = vpcs[i].rules /\ more.state = [vpcs[i].state EXCEPT ![c] = s]
    BY <1>1 DEF VPCType
  <2>4. \A b \in CIDRs : [vpcs[i].state EXCEPT ![c] = s][b]
                          = IF b = c THEN s ELSE vpcs[i].state[b]
    BY <1>1 DEF VPCType
  <2> QED BY <1>4, <2>1, <2>2, <2>3, <2>4 DEF Settled, IsActive
<1>5. PICK j \in Live, c \in CIDRs :
         \/ /\ vpcs[j].state[c] = "associating"
            /\ vpcs' = [vpcs EXCEPT ![j].state[c] = "associated"]
         \/ /\ vpcs[j].state[c] = "disassociating"
            /\ vpcs' = [vpcs EXCEPT ![j].state[c] = "none", ![j].dead = @ \cup {c}]
         \/ vpcs' = [vpcs EXCEPT ![j].dead = @ \ {c}]
  BY DEF Settle
<1>6. CASE i # j
  BY <1>1, <1>2, <1>5, <1>6
<1>7. CASE i = j
  <2>1. \/ /\ vpcs[i].state[c] = "associating"
           /\ vpcs'[i] = [vpcs[i] EXCEPT !.state[c] = "associated"]
        \/ /\ vpcs[i].state[c] = "disassociating"
           /\ vpcs'[i] = [vpcs[i] EXCEPT !.state[c] = "none", !.dead = vpcs[i].dead \cup {c}]
        \/ vpcs'[i] = [vpcs[i] EXCEPT !.dead = vpcs[i].dead \ {c}]
    <3>1. CASE /\ vpcs[i].state[c] = "disassociating"
               /\ vpcs' = [vpcs EXCEPT ![i].state[c] = "none", ![i].dead = @ \cup {c}]
      <4>1. vpcs'[i] = [[vpcs[i] EXCEPT !.state[c] = "none"] EXCEPT !.dead = @ \cup {c}]
        BY <1>1, <3>1
      <4>2. [vpcs[i] EXCEPT !.state[c] = "none"].dead = vpcs[i].dead
        BY <1>1 DEF VPCType
      <4> QED BY <3>1, <4>1, <4>2
    <3>2. CASE /\ vpcs[i].state[c] = "associating"
               /\ vpcs' = [vpcs EXCEPT ![i].state[c] = "associated"]
      BY <1>1, <3>2
    <3>3. CASE vpcs' = [vpcs EXCEPT ![i].dead = @ \ {c}]
      BY <1>1, <3>3
    <3> QED BY <1>5, <1>7, <3>1, <3>2, <3>3
  <2> QED BY <1>3, <1>4, <2>1
<1> QED BY <1>6, <1>7

LEMMA WorldInv ==
  ASSUME PassInv, EditSpec \/ DeleteCR \/ RecreateCR \/ Drift \/ Settle
  PROVE  WorkerOK' /\ PassIsExact'
<1>1. w \in Worker /\ TypeOK
  BY TypeOKIs DEF PassInv
<1>2. CASE EditSpec \/ DeleteCR \/ RecreateCR
  <2>1. w' = w /\ vpcs' = vpcs
    BY <1>2 DEF EditSpec, DeleteCR, RecreateCR, env
  <2>2. WorkerOK'
    BY <2>1 DEF PassInv, WorkerOK, At
  <2>3. PassIsExact'
    BY <2>1 DEF PassInv, PassIsExact, SyncedIsExact, Undisturbed, InHandOK, OnTheWay, Held,
           Exactly, IsActive, At, V
  <2> QED BY <2>2, <2>3
<1>3. CASE Drift
  <2>1. /\ w'.pc = w.pc /\ w'.mode = w.mode /\ w'.id = w.id /\ w'.spec = w.spec
        /\ w'.seen = w.seen /\ w'.toDelete = w.toDelete
        /\ w.pc # "idle" => w'.interfered
    BY <1>1, <1>3 DEF Drift, Worker, At
  <2>2. WorkerOK'
    BY <2>1 DEF PassInv, WorkerOK, At
  <2>3. PassIsExact'
    BY <2>1 DEF PassIsExact, SyncedIsExact, Undisturbed, InHand, Late, At
  <2> QED BY <2>2, <2>3
<1>4. CASE Settle
  <2>1. w' = w
    BY <1>4 DEF Settle
  <2>2. WorkerOK'
    BY <2>1 DEF PassInv, WorkerOK, At
  <2>3. PassIsExact'
    <3>1. ASSUME Undisturbed, w.pc \in InHand PROVE InHandOK(V)'
      <4>1. Settled(V, V') /\ InHandOK(V)
        BY <1>1, <1>4, <2>1, <3>1, VPCInHand, SettleIs DEF PassInv, PassIsExact, V
      <4>2. w.pc \in {"readRules", "found"} /\ ~areCIDRBlocksSyncing(w.seen)
              => V'.state = w.seen.state
        <5> SUFFICES ASSUME w.pc \in {"readRules", "found"}, ~areCIDRBlocksSyncing(w.seen)
                     PROVE  V'.state = w.seen.state
          OBVIOUS
        <5>1. V.state = w.seen.state
          BY <4>1 DEF InHandOK
        <5>2. ~areCIDRBlocksSyncing(V)
          BY <5>1 DEF areCIDRBlocksSyncing
        <5> QED BY <4>1, <5>1, <5>2 DEF Settled
      <4>3. ASSUME NEW c \in CIDRs, At("cidrs") PROVE OnTheWay(V, c)'
        <5>1. OnTheWay(V, c)
          BY <4>1, <4>3 DEF InHandOK
        <5> QED BY <2>1, <4>1, <5>1 DEF OnTheWay, Settled, IsActive, Exactly
      <4>4. \A c \in CIDRs : Held(V, c) => Held(V, c)'
        BY <2>1, <4>1 DEF Settled, Held, IsActive, Exactly
      <4>5. ~areCIDRBlocksSyncing(V) => ~areCIDRBlocksSyncing(V)'
        BY <4>1 DEF Settled, areCIDRBlocksSyncing
      <4> QED BY <2>1, <4>1, <4>2, <4>3, <4>4, <4>5 DEF InHandOK, Settled, At
    <3>2. SyncedIsExact'
      <4> SUFFICES ASSUME At("synced"), ~w.interfered
                   PROVE  /\ V'.live /\ V'.attrs = w.spec.attrs /\ V'.tags = w.spec.tags
                          /\ \A c \in CIDRs :
                               /\ V'.state[c] \in IF c \in w.spec.cidrs
                                                  THEN {"associated", "none"} ELSE {"none"}
                               /\ w.mode = "update" /\ w.seen.dead = {} /\ c \in w.spec.cidrs
                                    => V'.state[c] = "associated"
                          /\ w.spec.disallow /\ ~w.readFailed => V'.rules = {}
        BY <2>1 DEF SyncedIsExact, At
      <4>1. /\ V.live /\ V.attrs = w.spec.attrs /\ V.tags = w.spec.tags
            /\ \A c \in CIDRs :
                 /\ V.state[c] \in IF c \in w.spec.cidrs
                                   THEN {"associated", "none"} ELSE {"none"}
                 /\ w.mode = "update" /\ w.seen.dead = {} /\ c \in w.spec.cidrs
                      => V.state[c] = "associated"
            /\ w.spec.disallow /\ ~w.readFailed => V.rules = {}
        BY DEF PassInv, PassIsExact, SyncedIsExact
      <4>2. w.id \in Ids
        BY <1>1 DEF PassInv, WorkerOK, At, Worker
      <4>3. Settled(V, V')
        BY <1>1, <1>4, <2>1, <4>2, SettleIs DEF V
      <4>4. \A c \in CIDRs : V'.state[c] = V.state[c]
        BY <4>1, <4>3 DEF Settled
      <4> QED BY <4>1, <4>3, <4>4 DEF Settled
    <3> QED BY <2>1, <3>1, <3>2 DEF PassIsExact, Undisturbed
  <2> QED BY <2>2, <2>3
<1> QED BY <1>2, <1>3, <1>4

LEMMA PassInvStep == PassInv /\ [Next]_vars => PassInv'
<1> SUFFICES ASSUME PassInv, [Next]_vars PROVE PassInv'
  OBVIOUS
<1>1. TypeOK'
  BY NextType DEF PassInv
<1>2. CASE UNCHANGED vars
  <2>1. w' = w /\ vpcs' = vpcs
    BY <1>2 DEF vars
  <2>2. WorkerOK'
    BY <2>1 DEF PassInv, WorkerOK, At
  <2>3. PassIsExact'
    BY <2>1 DEF PassInv, PassIsExact, SyncedIsExact, Undisturbed, InHandOK, OnTheWay, Held,
           Exactly, IsActive, At, V
  <2> QED BY <1>1, <2>2, <2>3 DEF PassInv
<1>3. CASE Next
  <2>1. WorkerOK' /\ PassIsExact'
    BY <1>3, ReadInv, CreateInv, CompareInv, CIDRInv, RulesInv, AttributesInv, CheckInv,
       TagsInv, LateInv, EndInv, WorldInv DEF Next, Reconcile
  <2> QED BY <1>1, <2>1 DEF PassInv
<1> QED BY <1>2, <1>3

LEMMA PassInvInit == Init => PassInv
<1>1. Init => WorkerOK /\ PassIsExact
  BY DEF Init, IdleWorker, WorkerOK, PassIsExact, SyncedIsExact, InHand, Late, At
<1> QED BY <1>1, InitType DEF PassInv

LEMMA PassInvAlways == Spec => []PassInv
BY PassInvInit, PassInvStep, PTL DEF Spec

\* What a create or an update reports synced has no CIDR in transition and none that
\* was not declared, and the declared attributes and tags; an update that read no
\* dead entry has every declared CIDR associated; no default rules are left if none
\* are wanted and they could be read.  Unless another client interferes; EC2's work
\* on the associations goes on in between.
THEOREM ExactCorrect == Spec => []SyncedIsExact
<1>1. PassInv => SyncedIsExact
  BY DEF PassInv, PassIsExact
<1> QED BY <1>1, PassInvAlways, PTL

LEMMA CIDRStays ==
  ASSUME PassInv, [Next]_vars, drifts' = drifts, w.mode = "update", w.id # 0,
         NEW c \in w.spec.cidrs, V.state[c] = "associated"
  PROVE  vpcs'[w.id].state[c] = "associated"
<1>1. w \in Worker /\ w.id \in Ids /\ vpcs \in [Ids -> VPCType] /\ V \in VPCType
      /\ V = vpcs[w.id] /\ TypeOK
  BY TypeOKIs DEF PassInv, Worker, V
<1>2. c \in CIDRs
  BY <1>1 DEF Worker, Desired
<1>3. ASSUME NEW v, v.state[c] = "associated", vpcs' = [vpcs EXCEPT ![w.id] = v]
      PROVE  vpcs'[w.id].state[c] = "associated"
  BY <1>1, <1>3
<1>4. CASE vpcs' = vpcs
  BY <1>1, <1>4
<1>5. ASSUME NEW x
      PROVE  /\ [V EXCEPT !.rules = x].state[c] = "associated"
             /\ [V EXCEPT !.attrs = x].state[c] = "associated"
             /\ [V EXCEPT !.tags = x].state[c] = "associated"
  BY <1>1 DEF VPCType
<1>6. ASSUME NEW d, d # c, NEW s
      PROVE  [V EXCEPT !.state[d] = s].state[c] = "associated"
  BY <1>1, <1>2, <1>6 DEF VPCType
<1>7. CASE DisassociateVpcCidrBlock
  <2>1. \/ vpcs' = vpcs
        \/ \E e \in w.toDelete :
             vpcs' = [vpcs EXCEPT ![w.id] = [V EXCEPT !.state[e[1]] = "disassociating"]]
    BY <1>7 DEF DisassociateVpcCidrBlock, Call, Go
  <2>2. \A e \in w.toDelete : e[1] # c
    BY DEF PassInv, WorkerOK
  <2>3. ASSUME NEW e \in w.toDelete,
               vpcs' = [vpcs EXCEPT ![w.id] = [V EXCEPT !.state[e[1]] = "disassociating"]]
        PROVE  vpcs'[w.id].state[c] = "associated"
    <3>1. [V EXCEPT !.state[e[1]] = "disassociating"].state[c] = "associated"
      BY <1>6, <2>2
    <3> QED BY <1>3, <2>3, <3>1
  <2> QED BY <1>4, <2>1, <2>3
<1>8. CASE AssociateVpcCidrBlock
  <2>1. \/ vpcs' = vpcs
        \/ \E d : /\ V.state[d] = "none"
                 /\ vpcs' = [vpcs EXCEPT ![w.id] = [V EXCEPT !.state[d] = "associating"]]
    BY <1>8 DEF AssociateVpcCidrBlock, Call, Go
  <2>2. ASSUME NEW d, V.state[d] = "none",
               vpcs' = [vpcs EXCEPT ![w.id] = [V EXCEPT !.state[d] = "associating"]]
        PROVE  vpcs'[w.id].state[c] = "associated"
    <3>1. d # c
      BY <2>2
    <3>2. [V EXCEPT !.state[d] = "associating"].state[c] = "associated"
      BY <1>6, <3>1
    <3> QED BY <1>3, <2>2, <3>2
  <2> QED BY <1>4, <2>1, <2>2
<1>9. CASE deleteSecurityGroupDefaultRules
  <2>1. \/ vpcs' = vpcs
        \/ vpcs' = [vpcs EXCEPT ![w.id] = [V EXCEPT !.rules = V.rules \ {"egress"}]]
        \/ vpcs' = [vpcs EXCEPT ![w.id] = [V EXCEPT !.rules = V.rules \ {"ingress"}]]
    BY <1>9 DEF deleteSecurityGroupDefaultRules, RevokeSecurityGroup, Call, Refused
  <2> QED BY <1>3, <1>4, <1>5, <2>1
<1>10. CASE syncAttributes
  <2>1. \/ vpcs' = vpcs
        \/ \E a : vpcs' = [vpcs EXCEPT ![w.id] = [V EXCEPT !.attrs =
                     IF a \in w.spec.attrs THEN V.attrs \cup {a} ELSE V.attrs \ {a}]]
    BY <1>10 DEF syncAttributes, Call, Refused, Go
  <2> QED BY <1>3, <1>4, <1>5, <2>1
<1>11. CASE syncTags
  <2> DEFINE removed == V.tags \ (w.seen.tags \ w.spec.tags)
             synced  == removed \cup (w.spec.tags \ w.seen.tags)
  <2>1. \/ vpcs' = vpcs
        \/ vpcs' = [vpcs EXCEPT ![w.id] = [V EXCEPT !.tags = synced]]
        \/ vpcs' = [vpcs EXCEPT ![w.id].tags = removed]
    BY <1>11 DEF syncTags, Call, Refused, Go
  <2>2. [vpcs EXCEPT ![w.id].tags = removed] = [vpcs EXCEPT ![w.id] = [V EXCEPT !.tags = removed]]
    BY <1>1
  <2> HIDE DEF removed, synced
  <2> QED BY <1>3, <1>4, <1>5, <2>1, <2>2
<1>12. CASE Settle
  <2>1. Settled(V, vpcs'[w.id])
    BY <1>1, <1>12, SettleIs
  <2> QED BY <1>2, <2>1 DEF Settled
<1>13. ~Drift /\ ~sdkCreate /\ ~sdkDelete
  <2>1. drifts \in Nat
    BY <1>1, TypeOKIs DEF Counters
  <2>2. ~Drift
    BY <2>1 DEF Drift
  <2> QED BY <2>2 DEF sdkCreate, sdkDelete, PassInv, WorkerOK, At
<1>14. CASE \/ Begin \/ sdkFind \/ readRules \/ setResourceManaged \/ customUpdateVPC
            \/ syncCIDRBlocks \/ checkRules \/ LateInitialize \/ setResourceUnmanaged
            \/ PatchStatus
  <2>1. vpcs' = vpcs
    BY <1>14 DEF Begin, sdkFind, readRules, setResourceManaged, customUpdateVPC,
                 syncCIDRBlocks, checkRules, LateInitialize, setResourceUnmanaged,
                 PatchStatus, Go, Refused, DescribeSecurityGroupRules
  <2> QED BY <1>4, <2>1
<1>15. CASE ReadFails \/ Crash \/ EditSpec \/ DeleteCR \/ RecreateCR \/ UNCHANGED vars
  <2>1. vpcs' = vpcs
    BY <1>15 DEF ReadFails, Crash, EditSpec, DeleteCR, RecreateCR, vars
  <2> QED BY <1>4, <2>1
<1> QED
  BY <1>7, <1>8, <1>9, <1>10, <1>11, <1>12, <1>13, <1>14, <1>15 DEF Next, Reconcile

\* A CIDR that the CR declares is never disassociated by the controller, whatever
\* other clients do to the VPC in the meantime.
THEOREM DeclaredCIDRStaysCorrect == Spec => DeclaredCIDRStays
<1>1. PassInv /\ [Next]_vars
        => [ drifts' = drifts /\ w.mode = "update" /\ w.id # 0 =>
               \A c \in w.spec.cidrs :
                 V.state[c] = "associated" => vpcs'[w.id].state[c] = "associated" ]_vars
  BY CIDRStays
<1> QED BY <1>1, PassInvAlways, PTL DEF Spec, DeclaredCIDRStays

----------------------------------------------------------------------------
(* The VPC, the finalizer and the id in the status.                        *)

\* The live VPCs that a CR's status has held: what Lifecycle calls objects.
Owning == recorded \cap Live

PhaseOK ==
  /\ cr.phase = "gone" => ~cr.managed
  /\ cr.phase = "deleting" \/ (cr.phase = "live" /\ cr.id # 0) => cr.managed

IdsOK ==
  /\ \A i \in recorded \cup Live : i < nextId
  /\ cr.id \in recorded \cup {0}

OwningOK == Owning \subseteq {cr.id} /\ (~cr.managed => Owning = {})

\* A pass holds the id it was started with, or that of the VPC it has just created
\* and nobody has recorded yet.
PassOK ==
  ~At("idle") =>
    /\ cr.phase = "gone" => cr.id = 0
    /\ w.mode # "create" => w.id = cr.id
    /\ w.mode = "create" =>
         /\ cr.managed /\ Owning = {} /\ w.id < nextId
         /\ w.id = cr.id \/ w.id \notin recorded
    /\ w.mode = "delete" => cr.phase = "deleting"
    /\ w.pc \in {"manage", "release"} => Owning = {}
    /\ w.pc \in {"describe", "manage"} => w.mode # "create"

Ownership == PhaseOK /\ IdsOK /\ OwningOK /\ PassOK

\* A VPC that changes in no more than its CIDRs, rules, attributes or tags lives on.
LEMMA LiveStays ==
  ASSUME TypeOK, NEW i \in Ids, NEW v, v.live = vpcs[i].live,
         vpcs' = vpcs \/ vpcs' = [vpcs EXCEPT ![i] = v]
  PROVE  Live' = Live
<1>1. \A j \in Ids : vpcs'[j].live = vpcs[j].live
  BY TypeOKIs
<1> QED BY <1>1 DEF Live

LEMMA ChangesLive ==
  ASSUME NEW v \in VPCType, NEW x
  PROVE  /\ \A c : [v EXCEPT !.state[c] = x].live = v.live
         /\ [v EXCEPT !.rules = x].live = v.live /\ [v EXCEPT !.attrs = x].live = v.live
         /\ [v EXCEPT !.tags = x].live = v.live /\ [v EXCEPT !.dead = x].live = v.live
BY DEF VPCType

\* The calls of a pass on the VPC in hand leave it alive.
LEMMA PassLive ==
  ASSUME PassInv,
         \/ DisassociateVpcCidrBlock \/ AssociateVpcCidrBlock
         \/ deleteSecurityGroupDefaultRules \/ syncAttributes \/ syncTags
  PROVE  Live' = Live
<1>1. TypeOK /\ vpcs \in [Ids -> VPCType]
  BY TypeOKIs DEF PassInv
<1>2. w.id \in Ids /\ V \in VPCType /\ V = vpcs[w.id]
  BY VPCInHand DEF DisassociateVpcCidrBlock, AssociateVpcCidrBlock, InHand, At, V,
                   deleteSecurityGroupDefaultRules, syncAttributes, syncTags
<1>3. ASSUME NEW v, v.live = V.live, vpcs' = [vpcs EXCEPT ![w.id] = v] PROVE Live' = Live
  BY <1>1, <1>2, <1>3, LiveStays
<1>4. CASE vpcs' = vpcs
  BY <1>4 DEF Live
<1>5. CASE DisassociateVpcCidrBlock
  <2>1. \/ vpcs' = vpcs
        \/ \E e : vpcs' = [vpcs EXCEPT ![w.id] = [V EXCEPT !.state[e[1]] = "disassociating"]]
    BY <1>5 DEF DisassociateVpcCidrBlock, Call, Go
  <2>2. ASSUME NEW e, vpcs' = [vpcs EXCEPT ![w.id] = [V EXCEPT !.state[e[1]] = "disassociating"]]
        PROVE  Live' = Live
    <3>1. [V EXCEPT !.state[e[1]] = "disassociating"].live = V.live
      BY <1>2, ChangesLive
    <3> QED BY <1>3, <2>2, <3>1
  <2> QED BY <1>4, <2>1, <2>2
<1>6. CASE AssociateVpcCidrBlock
  <2>1. \/ vpcs' = vpcs
        \/ \E c : vpcs' = [vpcs EXCEPT ![w.id] = [V EXCEPT !.state[c] = "associating"]]
    BY <1>6 DEF AssociateVpcCidrBlock, Call, Go
  <2>2. ASSUME NEW c, vpcs' = [vpcs EXCEPT ![w.id] = [V EXCEPT !.state[c] = "associating"]]
        PROVE  Live' = Live
    <3>1. [V EXCEPT !.state[c] = "associating"].live = V.live
      BY <1>2, ChangesLive
    <3> QED BY <1>3, <2>2, <3>1
  <2> QED BY <1>4, <2>1, <2>2
<1>7. CASE deleteSecurityGroupDefaultRules
  <2>1. \/ vpcs' = vpcs
        \/ vpcs' = [vpcs EXCEPT ![w.id] = [V EXCEPT !.rules = V.rules \ {"egress"}]]
        \/ vpcs' = [vpcs EXCEPT ![w.id] = [V EXCEPT !.rules = V.rules \ {"ingress"}]]
    BY <1>7 DEF deleteSecurityGroupDefaultRules, RevokeSecurityGroup, Call, Refused
  <2> QED BY <1>2, <1>3, <1>4, <2>1, ChangesLive
<1>8. CASE syncAttributes
  <2>1. \/ vpcs' = vpcs
        \/ \E a : vpcs' = [vpcs EXCEPT ![w.id] = [V EXCEPT !.attrs =
                     IF a \in w.spec.attrs THEN V.attrs \cup {a} ELSE V.attrs \ {a}]]
    BY <1>8 DEF syncAttributes, Call, Refused, Go
  <2>2. ASSUME NEW a, vpcs' = [vpcs EXCEPT ![w.id] = [V EXCEPT !.attrs =
                        IF a \in w.spec.attrs THEN V.attrs \cup {a} ELSE V.attrs \ {a}]]
        PROVE  Live' = Live
    BY <1>2, <1>3, <2>2, ChangesLive
  <2> QED BY <1>4, <2>1, <2>2
<1>9. CASE syncTags
  <2> DEFINE removed == V.tags \ (w.seen.tags \ w.spec.tags)
             synced  == removed \cup (w.spec.tags \ w.seen.tags)
  <2>1. \/ vpcs' = vpcs
        \/ vpcs' = [vpcs EXCEPT ![w.id] = [V EXCEPT !.tags = synced]]
        \/ vpcs' = [vpcs EXCEPT ![w.id].tags = removed]
    BY <1>9 DEF syncTags, Call, Refused, Go
  <2>2. [vpcs EXCEPT ![w.id].tags = removed] = [vpcs EXCEPT ![w.id] = [V EXCEPT !.tags = removed]]
    BY <1>2
  <2> HIDE DEF removed, synced
  <2> QED BY <1>2, <1>3, <1>4, <2>1, <2>2, ChangesLive
<1> QED BY <1>5, <1>6, <1>7, <1>8, <1>9

\* The steps of a pass on the VPC in hand move neither the CR nor the ids; they keep
\* the id in hand, or an error in a creation drops it.
LEMMA PassSteps ==
  ASSUME PassInv,
         \/ readRules \/ customUpdateVPC \/ DisassociateVpcCidrBlock \/ AssociateVpcCidrBlock
         \/ syncCIDRBlocks \/ deleteSecurityGroupDefaultRules \/ syncAttributes
         \/ checkRules \/ syncTags \/ LateInitialize \/ ReadFails
  PROVE  /\ UNCHANGED <<cr, nextId, recorded>> /\ Live' = Live
         /\ ~At("idle") /\ w'.mode = w.mode
         /\ w'.pc \notin {"idle", "describe", "manage", "release"}
         /\ w'.id = w.id \/ (w.mode = "create" /\ w'.id = cr.id)
<1>1. w \in Worker
  BY TypeOKIs DEF PassInv
<1> DEFINE Kept(r) == /\ r.mode = w.mode
                      /\ r.pc \notin {"idle", "describe", "manage", "release"}
                      /\ r.id = w.id \/ (w.mode = "create" /\ r.id = cr.id)
<1>2. Kept(onError) /\ Kept(cidrsFailed)
  BY <1>1 DEF onError, cidrsFailed, Worker
<1>3. UNCHANGED <<cr, nextId, recorded>> /\ ~At("idle")
  BY DEF readRules, customUpdateVPC, DisassociateVpcCidrBlock, AssociateVpcCidrBlock,
         syncCIDRBlocks, deleteSecurityGroupDefaultRules, syncAttributes, checkRules,
         syncTags, LateInitialize, ReadFails, env, At
<1>4. CASE \/ readRules \/ checkRules \/ ReadFails \/ customUpdateVPC \/ syncCIDRBlocks
           \/ LateInitialize
  <2>1. Live' = Live
    BY <1>4 DEF readRules, checkRules, ReadFails, customUpdateVPC, syncCIDRBlocks,
                LateInitialize, Refused, Go, DescribeSecurityGroupRules, Live
  <2>2. Kept(w')
    <3>1. CASE readRules
      BY <1>1, <1>2, <3>1 DEF readRules, Refused, Worker
    <3>2. CASE checkRules
      BY <1>1, <1>2, <3>2 DEF checkRules, Refused, Worker
    <3>3. CASE ReadFails
      <4>1. Kept([w EXCEPT !.pc = "failed"])
        BY <1>1 DEF Worker
      <4> QED BY <1>2, <3>3, <4>1 DEF ReadFails
    <3>4. CASE customUpdateVPC \/ syncCIDRBlocks
      BY <1>1, <3>4 DEF customUpdateVPC, syncCIDRBlocks, Go, Worker
    <3>5. CASE LateInitialize
      <4>1. \E label \in {"failed", "requeue", "lateRules", "synced"} : w' = [w EXCEPT !.pc = label]
        BY <3>5 DEF LateInitialize, Go
      <4> QED BY <1>1, <4>1 DEF Worker
    <3> QED BY <1>4, <3>1, <3>2, <3>3, <3>4, <3>5
  <2> QED BY <1>3, <2>1, <2>2
<1>5. CASE \/ DisassociateVpcCidrBlock \/ AssociateVpcCidrBlock
           \/ deleteSecurityGroupDefaultRules \/ syncAttributes \/ syncTags
  <2>1. Live' = Live
    BY <1>5, PassLive
  <2>2. Kept(w')
    <3>1. CASE DisassociateVpcCidrBlock
      <4>1. w' = cidrsFailed \/ \E e : w' = [w EXCEPT !.toDelete = @ \ {e}]
        BY <3>1 DEF DisassociateVpcCidrBlock, Call, Go
      <4>2. w.pc = "cidrs"
        BY <3>1 DEF DisassociateVpcCidrBlock, At
      <4> QED BY <1>1, <1>2, <4>1, <4>2 DEF Worker
    <3>2. CASE AssociateVpcCidrBlock
      <4>1. w' = cidrsFailed \/ \E c : w' = [w EXCEPT !.toAdd = @ \ {c}]
        BY <3>2 DEF AssociateVpcCidrBlock, Call, Go
      <4>2. w.pc = "cidrs"
        BY <3>2 DEF AssociateVpcCidrBlock, At
      <4> QED BY <1>1, <1>2, <4>1, <4>2 DEF Worker
    <3>3. CASE deleteSecurityGroupDefaultRules
      <4>1. w' \in {onError, [w EXCEPT !.pc = "ingress"], [w EXCEPT !.pc = "attrs"]}
        BY <3>3 DEF deleteSecurityGroupDefaultRules, RevokeSecurityGroup, Call, Refused
      <4> QED BY <1>1, <1>2, <4>1 DEF Worker
    <3>4. CASE syncAttributes
      <4>1. \/ w' \in {onError, [w EXCEPT !.pc = "checkRules"], [w EXCEPT !.pc = "tags"]}
            \/ \E a : w' = [w EXCEPT !.toSet = @ \ {a}]
        BY <3>4 DEF syncAttributes, Call, Refused, Go
      <4>2. w.pc = "attrs"
        BY <3>4 DEF syncAttributes, At
      <4> QED BY <1>1, <1>2, <4>1, <4>2 DEF Worker
    <3>5. CASE syncTags
      <4>1. w' \in {onError, [w EXCEPT !.pc = "lateInit"]}
        BY <3>5 DEF syncTags, Call, Refused, Go
      <4> QED BY <1>1, <1>2, <4>1 DEF Worker
    <3> QED BY <1>5, <3>1, <3>2, <3>3, <3>4, <3>5
  <2> QED BY <1>3, <2>1, <2>2
<1> QED BY <1>4, <1>5

LEMMA OwnershipPass ==
  ASSUME PassInv, Ownership,
         \/ readRules \/ customUpdateVPC \/ DisassociateVpcCidrBlock \/ AssociateVpcCidrBlock
         \/ syncCIDRBlocks \/ deleteSecurityGroupDefaultRules \/ syncAttributes
         \/ checkRules \/ syncTags \/ LateInitialize \/ ReadFails \/ Begin \/ sdkFind
  PROVE  Ownership' /\ UNCHANGED cr /\ Owning' = Owning
<1>1. /\ w \in Worker /\ TypeOK /\ 0 \notin Ids /\ recorded \subseteq Ids
      /\ cr.id \in Ids \cup {0} /\ nextId \in Nat \ {0}
  BY TypeOKIs, VPCAssumption DEF PassInv, CR, Ids
<1>2. /\ UNCHANGED <<cr, nextId, recorded>> /\ Live' = Live
  <2>1. CASE Begin \/ sdkFind
    BY <2>1 DEF Begin, sdkFind, Go, Live, env
  <2> QED BY <2>1, PassSteps
<1>3. Owning' = Owning /\ PhaseOK' /\ IdsOK' /\ OwningOK'
  <2>1. Owning' = Owning
    BY <1>2 DEF Owning
  <2>2. PhaseOK'
    BY <1>2 DEF Ownership, PhaseOK
  <2>3. IdsOK'
    <3>1. recorded' \cup Live' = recorded \cup Live /\ nextId' = nextId /\ cr' = cr
      BY <1>2
    <3> QED BY <1>2, <3>1 DEF Ownership, IdsOK
  <2>4. OwningOK'
    BY <1>2, <2>1 DEF Ownership, OwningOK
  <2> QED BY <2>1, <2>2, <2>3, <2>4
<1>4. PassOK'
  <2>1. CASE Begin
    <3>1. /\ w'.pc = "describe" /\ w'.id = cr.id
          /\ w'.mode = IF cr.phase = "deleting" THEN "delete" ELSE "update"
      BY <2>1 DEF Begin, Go, IdleWorker
    <3> QED BY <1>2, <2>1, <3>1 DEF Begin, PassOK, At
  <2>2. CASE sdkFind
    <3>1. w.pc = "describe" /\ w.mode # "create" /\ w.id = cr.id
      BY <2>2 DEF sdkFind, At, Ownership, PassOK
    <3>2. \/ w'.pc \in {"manage", "release"} /\ (w.id = 0 \/ ~vpcs[w.id].live)
          \/ w'.pc = "readRules"
      BY <1>1, <2>2 DEF sdkFind, Go, NotFound, V, Worker
    <3>3. w'.mode = w.mode /\ w'.id = w.id
      BY <1>1, <2>2 DEF sdkFind, Go, NotFound, Worker
    <3>4. (w.id = 0 \/ ~vpcs[w.id].live) => Owning = {}
      <4>1. Owning \subseteq {w.id}
        BY <3>1 DEF Ownership, OwningOK
      <4> QED BY <1>1, <4>1 DEF Owning, Live
    <3> QED BY <1>2, <1>3, <3>1, <3>2, <3>3, <3>4 DEF Ownership, PassOK, At
  <2>3. CASE \/ readRules \/ customUpdateVPC \/ DisassociateVpcCidrBlock
             \/ AssociateVpcCidrBlock \/ syncCIDRBlocks \/ deleteSecurityGroupDefaultRules
             \/ syncAttributes \/ checkRules \/ syncTags \/ LateInitialize \/ ReadFails
    <3>1. cr.id < nextId
      BY <1>1 DEF Ownership, IdsOK
    <3>2. /\ ~At("idle") /\ w'.mode = w.mode
          /\ w'.pc \notin {"idle", "describe", "manage", "release"}
          /\ w'.id = w.id \/ (w.mode = "create" /\ w'.id = cr.id)
      BY <2>3, PassSteps
    <3> QED BY <1>2, <1>3, <3>1, <3>2 DEF Ownership, PassOK, At
  <2> QED BY <2>1, <2>2, <2>3
<1> QED BY <1>2, <1>3, <1>4 DEF Ownership

\* A creation, whether or not its reply arrives, makes a VPC that nobody owns yet.
LEMMA OwnershipCreate ==
  ASSUME PassInv, Ownership, setResourceManaged \/ sdkCreate
  PROVE  Ownership' /\ Owning' = Owning
<1>1. /\ w \in Worker /\ TypeOK /\ vpcs \in [Ids -> VPCType] /\ recorded \subseteq Ids
      /\ cr \in CR /\ nextId \in Nat \ {0} /\ 0 \notin Ids
  BY TypeOKIs, VPCAssumption DEF PassInv, Ids
<1>2. CASE setResourceManaged
  <2>1. UNCHANGED <<nextId, recorded>> /\ Live' = Live /\ Owning' = Owning
    BY <1>2 DEF setResourceManaged, Live, Owning, env
  <2>2. cr.phase = "gone" => cr' = cr /\ w'.pc = "idle"
    BY <1>2 DEF setResourceManaged, IdleWorker
  <2>3. cr.phase # "gone" =>
          /\ cr'.phase = cr.phase /\ cr'.id = cr.id /\ cr'.managed
          /\ w'.pc = "create" /\ w'.mode = "create" /\ w'.id = w.id
    BY <1>1, <1>2 DEF setResourceManaged, CR, Worker
  <2>4. w.pc = "manage" /\ Owning = {} /\ w.id = cr.id
    BY <1>2 DEF setResourceManaged, At, Ownership, PassOK
  <2>5. cr'.id = cr.id /\ cr.id < nextId
    BY <1>1, <2>2, <2>3 DEF Ownership, IdsOK
  <2>6. PhaseOK' /\ OwningOK'
    BY <2>1, <2>2, <2>3, <2>4 DEF Ownership, PhaseOK, OwningOK
  <2>7. IdsOK'
    <3>1. recorded' \cup Live' = recorded \cup Live /\ recorded' = recorded /\ nextId' = nextId
      BY <2>1
    <3> QED BY <2>5, <3>1 DEF Ownership, IdsOK
  <2>8. PassOK'
    BY <2>1, <2>2, <2>3, <2>4, <2>5 DEF PassOK, At
  <2> QED BY <2>1, <2>6, <2>7, <2>8 DEF Ownership
<1>3. CASE sdkCreate
  <2> DEFINE new == [NoVPC EXCEPT !.live = TRUE, !.state[Primary] = "associated",
                       !.rules = {"egress", "ingress"}, !.tags = w.spec.tags]
  <2>1. /\ w.pc = "create" /\ w.mode = "create" /\ cr.managed /\ Owning = {}
        /\ w.id < nextId /\ (w.id = cr.id \/ w.id \notin recorded)
    BY <1>3 DEF sdkCreate, At, PassInv, WorkerOK, Ownership, PassOK
  <2>2. UNCHANGED <<cr, recorded>>
    BY <1>3 DEF sdkCreate
  <2>3. \/ vpcs' = vpcs /\ nextId' = nextId /\ w' = onError
        \/ nextId \in Ids /\ vpcs' = [vpcs EXCEPT ![nextId] = new] /\ nextId' = nextId + 1
    BY <1>3 DEF sdkCreate, Refused
  <2>4. nextId \notin recorded /\ nextId \notin Live /\ cr.id < nextId
    BY <1>1 DEF Ownership, IdsOK
  <2>5. CASE vpcs' = vpcs /\ nextId' = nextId /\ w' = onError
    <3>1. w'.pc = "failed" /\ w'.mode = "create" /\ w'.id = cr.id
      BY <1>1, <2>1, <2>5 DEF onError, Worker
    <3>2. Live' = Live /\ Owning' = Owning
      BY <2>2, <2>5 DEF Live, Owning
    <3>3. PhaseOK' /\ OwningOK'
      BY <2>2, <3>2 DEF Ownership, PhaseOK, OwningOK
    <3>4. IdsOK'
      BY <2>2, <2>5, <3>2 DEF Ownership, IdsOK
    <3>5. PassOK'
      BY <2>1, <2>2, <2>4, <2>5, <3>1, <3>2 DEF Ownership, PassOK, At
    <3> QED BY <3>2, <3>3, <3>4, <3>5 DEF Ownership
  <2>6. CASE nextId \in Ids /\ vpcs' = [vpcs EXCEPT ![nextId] = new] /\ nextId' = nextId + 1
    <3>1. new.live
      BY DEF NoVPC
    <3>2. vpcs'[nextId].live /\ \A j \in Ids : j # nextId => vpcs'[j] = vpcs[j]
      <4> HIDE DEF new
      <4> QED BY <1>1, <2>6, <3>1
    <3>3. Live' = Live \cup {nextId}
      BY <2>6, <3>2 DEF Live
    <3>4. Owning' = Owning
      BY <2>2, <2>4, <3>3 DEF Owning
    <3>5. /\ w'.mode = "create" /\ w'.pc \in {"failed", "cidrs"}
          /\ w'.id = nextId \/ w'.id = cr.id
      <4>1. onError.mode = "create" /\ onError.pc = "failed" /\ onError.id = cr.id
        BY <1>1, <2>1 DEF onError, Worker
      <4>2. \/ w' = onError
            \/ w' = [w EXCEPT !.pc = "cidrs", !.id = nextId,
                       !.toAdd = w.spec.cidrs \ {Primary}, !.toSet = Attrs]
        BY <1>3 DEF sdkCreate, Refused
      <4> QED BY <1>1, <2>1, <4>1, <4>2 DEF Worker
    <3>6. PhaseOK' /\ OwningOK'
      BY <2>2, <3>4 DEF Ownership, PhaseOK, OwningOK
    <3>7. IdsOK'
      <4>1. \A i \in recorded \cup Live : i < nextId
        BY DEF Ownership, IdsOK
      <4>2. ASSUME NEW i \in recorded' \cup Live' PROVE i < nextId'
        <5>1. i \in Nat /\ (i < nextId \/ i = nextId)
          BY <1>1, <2>2, <3>3, <4>1 DEF Live, Ids
        <5> QED BY <1>1, <2>6, <5>1
      <4> QED BY <2>2, <4>2 DEF Ownership, IdsOK
    <3>8. PassOK'
      <4>1. w'.id < nextId' /\ (w'.id = cr.id \/ w'.id \notin recorded)
        BY <1>1, <2>4, <2>6, <3>5 DEF CR, Ids
      <4> QED BY <2>1, <2>2, <3>4, <3>5, <4>1 DEF Ownership, PassOK, At
    <3> QED BY <3>4, <3>6, <3>7, <3>8 DEF Ownership
  <2> QED BY <2>3, <2>5, <2>6
<1> QED BY <1>2, <1>3

\* The last steps of a pass: the VPC goes, then the finalizer; or the status is
\* patched, which is when a new VPC becomes the CR's.
LEMMA OwnershipEnd ==
  ASSUME PassInv, Ownership, sdkDelete \/ setResourceUnmanaged \/ PatchStatus \/ Crash
  PROVE  /\ Ownership'
         /\ \/ cr'.managed = cr.managed /\ (Owning' = Owning \/ Owning' = {})
            \/ ~cr'.managed /\ Owning = {} /\ Owning' = {}
            \/ /\ cr.managed /\ cr'.managed /\ Owning = {}
               /\ \E i \in Owning' : Owning' = {i}
<1>1. /\ w \in Worker /\ TypeOK /\ vpcs \in [Ids -> VPCType] /\ recorded \subseteq Ids
      /\ cr \in CR /\ nextId \in Nat \ {0} /\ 0 \notin Ids
  BY TypeOKIs, VPCAssumption DEF PassInv, Ids
<1>2. CASE sdkDelete
  <2>1. w.pc = "found" /\ w.mode = "delete" /\ w.id = cr.id /\ w.id \in Ids
    BY <1>2, VPCInHand DEF sdkDelete, At, InHand, Ownership, PassOK
  <2>2. UNCHANGED <<cr, recorded, nextId>>
    BY <1>2 DEF sdkDelete, env
  <2>3. CASE vpcs' = vpcs /\ w' = onError
    <3>1. Live' = Live /\ Owning' = Owning
      BY <2>2, <2>3 DEF Live, Owning
    <3>2. w'.pc = "failed" /\ w'.mode = "delete" /\ w'.id = cr.id
      BY <1>1, <2>1, <2>3 DEF onError, Worker
    <3>3. PhaseOK' /\ IdsOK' /\ OwningOK'
      BY <2>2, <3>1 DEF Ownership, PhaseOK, IdsOK, OwningOK
    <3>4. PassOK'
      BY <2>1, <2>2, <3>1, <3>2 DEF Ownership, PassOK, At
    <3> QED BY <2>2, <3>1, <3>3, <3>4 DEF Ownership
  <2>4. CASE vpcs' = [vpcs EXCEPT ![w.id] = NoVPC]
    <3>1. Live' = Live \ {w.id}
      BY <1>1, <2>1, <2>4 DEF Live, NoVPC
    <3>2. Owning' = {}
      BY <2>1, <2>2, <3>1 DEF Owning, Ownership, OwningOK
    <3>3. w'.pc \in {"failed", "release"} /\ w'.mode = "delete" /\ w'.id = cr.id
      BY <1>1, <1>2, <2>1 DEF sdkDelete, Call, Refused, onError, Worker
    <3>4. PhaseOK' /\ OwningOK'
      BY <2>2, <3>2 DEF Ownership, PhaseOK, OwningOK
    <3>5. IdsOK'
      BY <2>2, <3>1 DEF Ownership, IdsOK
    <3>6. PassOK'
      BY <2>1, <2>2, <3>2, <3>3 DEF Ownership, PassOK, At
    <3> QED BY <2>2, <3>2, <3>4, <3>5, <3>6 DEF Ownership
  <2>5. CASE vpcs' = vpcs /\ w' = [w EXCEPT !.pc = "release"]
    <3>1. onError.pc = "failed" /\ w'.pc = "release"
      BY <1>1, <2>5 DEF onError, Worker
    <3>2. vpcs' = [vpcs EXCEPT ![w.id] = NoVPC]
      BY <1>2, <3>1 DEF sdkDelete, Call, Refused
    <3> QED BY <2>4, <3>2
  <2> QED BY <1>2, <2>3, <2>4, <2>5 DEF sdkDelete, Call, Refused
<1>3. CASE setResourceUnmanaged
  <2>1. Owning = {} /\ w.pc = "release"
    BY <1>3 DEF setResourceUnmanaged, At, Ownership, PassOK
  <2>2. UNCHANGED <<recorded, nextId>> /\ Live' = Live /\ Owning' = Owning /\ w'.pc = "idle"
    BY <1>3 DEF setResourceUnmanaged, Live, Owning, IdleWorker, env
  <2>3. cr'.phase = "gone" /\ cr'.managed = FALSE /\ cr'.id = cr.id
    BY <1>1, <1>3 DEF setResourceUnmanaged, CR
  <2>4. IdsOK'
    BY <2>2, <2>3 DEF Ownership, IdsOK
  <2>5. PhaseOK' /\ OwningOK' /\ PassOK'
    BY <2>1, <2>2, <2>3 DEF PhaseOK, OwningOK, PassOK, At
  <2> QED BY <2>1, <2>2, <2>3, <2>4, <2>5 DEF Ownership
<1>4. CASE PatchStatus
  <2>1. ~At("idle") /\ w.pc \in {"synced", "requeue", "failed"}
    BY <1>4 DEF PatchStatus, At
  <2>2. UNCHANGED nextId /\ Live' = Live /\ w'.pc = "idle"
        /\ recorded' = (recorded \cup {cr'.id}) \ {0}
    BY <1>4 DEF PatchStatus, Live, IdleWorker
  <2>3. PassOK'
    BY <2>2 DEF PassOK, At
  <2>4. CASE cr.phase = "gone" \/ w.id = cr.id
    <3>1. cr'.id = cr.id /\ cr'.phase = cr.phase /\ cr'.managed = cr.managed
      BY <1>1, <1>4, <2>4 DEF PatchStatus, CR
    <3>2. recorded' = recorded /\ Owning' = Owning
      BY <1>1, <2>2, <3>1 DEF Ownership, IdsOK, Owning
    <3>3. PhaseOK' /\ IdsOK' /\ OwningOK'
      BY <2>2, <3>1, <3>2 DEF Ownership, PhaseOK, IdsOK, OwningOK
    <3> QED BY <2>3, <3>1, <3>2, <3>3 DEF Ownership
  <2>5. CASE cr.phase # "gone" /\ w.id # cr.id
    <3>1. w.mode = "create" /\ cr.managed /\ Owning = {} /\ w.id < nextId
      BY <1>1, <2>1, <2>5 DEF Worker, Ownership, PassOK
    <3>2. cr'.id = w.id /\ cr'.phase = cr.phase /\ cr'.managed = cr.managed
      BY <1>1, <1>4, <2>5 DEF PatchStatus, CR
    <3>3. recorded' = recorded \cup ({w.id} \ {0})
      BY <1>1, <2>2, <3>2
    <3>4. Owning' = {w.id} \/ Owning' = {}
      BY <1>1, <2>2, <3>1, <3>3 DEF Owning, Live
    <3>5. PhaseOK' /\ OwningOK'
      BY <3>1, <3>2, <3>4 DEF Ownership, PhaseOK, OwningOK
    <3>6. IdsOK'
      <4>1. \A i \in recorded \cup Live : i < nextId
        BY DEF Ownership, IdsOK
      <4>2. \A i \in recorded' \cup Live' : i < nextId
        BY <2>2, <3>1, <3>3, <4>1
      <4>3. cr'.id \in recorded' \cup {0}
        BY <3>2, <3>3
      <4> QED BY <2>2, <4>2, <4>3 DEF IdsOK
    <3> QED BY <2>3, <3>1, <3>2, <3>4, <3>5, <3>6 DEF Ownership
  <2> QED BY <2>4, <2>5
<1>5. CASE Crash
  <2>1. UNCHANGED <<cr, recorded, nextId>> /\ Live' = Live /\ Owning' = Owning /\ w'.pc = "idle"
    BY <1>5 DEF Crash, Live, Owning, IdleWorker, env
  <2>2. PhaseOK' /\ IdsOK' /\ OwningOK'
    BY <2>1 DEF Ownership, PhaseOK, IdsOK, OwningOK
  <2> QED BY <2>1, <2>2 DEF Ownership, PassOK, At
<1> QED BY <1>2, <1>3, <1>4, <1>5

\* EC2's background work and other clients end the life of at most one VPC.
LEMMA WorldLive ==
  ASSUME TypeOK, Settle \/ Drift
  PROVE  \E i \in Live : Live' = Live \/ Live' = Live \ {i}
<1>1. PICK i \in Live :
        \/ \E c \in CIDRs :
             \/ vpcs' = [vpcs EXCEPT ![i] = [vpcs[i] EXCEPT !.state[c] = "associated"]]
             \/ vpcs' = [vpcs EXCEPT ![i] = [vpcs[i] EXCEPT
                            !.state[c] = "none", !.dead = vpcs[i].dead \cup {c}]]
             \/ vpcs' = [vpcs EXCEPT ![i] = [vpcs[i] EXCEPT !.dead = vpcs[i].dead \ {c}]]
        \/ \E c \in CIDRs, s \in {"associating", "disassociating"} :
             vpcs' = [vpcs EXCEPT ![i] = [vpcs[i] EXCEPT !.state[c] = s]]
        \/ \E r : vpcs' = [vpcs EXCEPT ![i] =
                              [vpcs[i] EXCEPT !.rules = vpcs[i].rules \ {r}]]
        \/ vpcs' = [vpcs EXCEPT ![i] = NoVPC]
  BY WorldChanges
<1>2. i \in Ids /\ vpcs[i] \in VPCType /\ vpcs \in [Ids -> VPCType]
  BY TypeOKIs DEF Live
<1>3. ASSUME NEW v, v.live = vpcs[i].live, vpcs' = [vpcs EXCEPT ![i] = v] PROVE Live' = Live
  BY <1>2, <1>3, LiveStays
<1>4. CASE \E c \in CIDRs :
             \/ vpcs' = [vpcs EXCEPT ![i] = [vpcs[i] EXCEPT !.state[c] = "associated"]]
             \/ vpcs' = [vpcs EXCEPT ![i] = [vpcs[i] EXCEPT
                            !.state[c] = "none", !.dead = vpcs[i].dead \cup {c}]]
             \/ vpcs' = [vpcs EXCEPT ![i] = [vpcs[i] EXCEPT !.dead = vpcs[i].dead \ {c}]]
  <2>1. ASSUME NEW c, NEW d
        PROVE  /\ [vpcs[i] EXCEPT !.state[c] = "associated"].live = vpcs[i].live
               /\ [vpcs[i] EXCEPT !.state[c] = "none", !.dead = d].live = vpcs[i].live
               /\ [vpcs[i] EXCEPT !.dead = d].live = vpcs[i].live
    BY <1>2 DEF VPCType
  <2> QED BY <1>3, <1>4, <2>1
<1>5. CASE \E c \in CIDRs, s \in {"associating", "disassociating"} :
             vpcs' = [vpcs EXCEPT ![i] = [vpcs[i] EXCEPT !.state[c] = s]]
  <2>1. ASSUME NEW c, NEW s PROVE [vpcs[i] EXCEPT !.state[c] = s].live = vpcs[i].live
    BY <1>2 DEF VPCType
  <2> QED BY <1>3, <1>5, <2>1
<1>6. CASE \E r : vpcs' = [vpcs EXCEPT ![i] = [vpcs[i] EXCEPT !.rules = vpcs[i].rules \ {r}]]
  <2>1. ASSUME NEW r PROVE [vpcs[i] EXCEPT !.rules = vpcs[i].rules \ {r}].live = vpcs[i].live
    BY <1>2 DEF VPCType
  <2> QED BY <1>3, <1>6, <2>1
<1>7. CASE vpcs' = [vpcs EXCEPT ![i] = NoVPC]
  BY <1>2, <1>7 DEF Live, NoVPC
<1> QED BY <1>1, <1>4, <1>5, <1>6, <1>7

LEMMA OwnershipWorld ==
  ASSUME PassInv, Ownership, Settle \/ EditSpec \/ DeleteCR \/ RecreateCR \/ Drift
  PROVE  /\ Ownership'
         /\ \/ cr'.managed = cr.managed /\ (Owning' = Owning \/ Owning' = {})
            \/ ~cr'.managed /\ Owning = {} /\ Owning' = {}
<1>1. /\ w \in Worker /\ TypeOK /\ vpcs \in [Ids -> VPCType] /\ recorded \subseteq Ids
      /\ cr \in CR /\ nextId \in Nat \ {0} /\ 0 \notin Ids
  BY TypeOKIs, VPCAssumption DEF PassInv, Ids
<1>2. CASE EditSpec \/ DeleteCR \/ RecreateCR
  <2>1. UNCHANGED <<w, recorded, nextId>> /\ Live' = Live /\ Owning' = Owning
    BY <1>2 DEF EditSpec, DeleteCR, RecreateCR, Live, Owning, env
  <2>2. CASE EditSpec
    <3>1. cr'.id = cr.id /\ cr'.phase = cr.phase /\ cr'.managed = cr.managed
      BY <1>1, <2>2 DEF EditSpec, CR
    <3>2. PhaseOK' /\ IdsOK' /\ OwningOK' /\ PassOK'
      BY <2>1, <3>1 DEF Ownership, PhaseOK, IdsOK, OwningOK, PassOK, At
    <3> QED BY <2>1, <3>1, <3>2 DEF Ownership
  <2>3. CASE DeleteCR
    <3>1. /\ cr.phase = "live" /\ cr'.id = cr.id /\ cr'.managed = cr.managed
          /\ cr'.phase = IF cr.managed THEN "deleting" ELSE "gone"
      BY <1>1, <2>3 DEF DeleteCR, CR
    <3>2. PhaseOK' /\ OwningOK'
      BY <2>1, <3>1 DEF Ownership, PhaseOK, OwningOK
    <3>3. IdsOK'
      BY <2>1, <3>1 DEF Ownership, IdsOK
    <3>4. PassOK'
      BY <2>1, <3>1 DEF Ownership, PhaseOK, PassOK, At
    <3> QED BY <2>1, <3>1, <3>2, <3>3, <3>4 DEF Ownership
  <2>4. CASE RecreateCR
    <3>1. /\ cr.phase = "gone" /\ cr'.id = 0 /\ cr'.managed = FALSE /\ cr'.phase = "live"
      BY <2>4 DEF RecreateCR, NewCR
    <3>2. ~cr.managed /\ Owning = {}
      BY <3>1 DEF Ownership, PhaseOK, OwningOK
    <3>3. PhaseOK' /\ OwningOK'
      BY <2>1, <3>1, <3>2 DEF PhaseOK, OwningOK
    <3>4. IdsOK'
      BY <2>1, <3>1 DEF Ownership, IdsOK
    <3>5. PassOK'
      BY <2>1, <3>1, <3>2 DEF Ownership, PassOK, At
    <3> QED BY <2>1, <3>1, <3>2, <3>3, <3>4, <3>5 DEF Ownership
  <2> QED BY <1>2, <2>2, <2>3, <2>4
<1>3. CASE Settle \/ Drift
  <2>1. UNCHANGED <<cr, recorded, nextId>>
    BY <1>3 DEF Settle, Drift, env
  <2>2. w'.pc = w.pc /\ w'.mode = w.mode /\ w'.id = w.id
    BY <1>1, <1>3 DEF Settle, Drift, Worker
  <2>3. \E i \in Live : Live' = Live \/ Live' = Live \ {i}
    BY <1>1, <1>3, WorldLive
  <2>4. Live' \subseteq Live /\ Owning' \subseteq Owning
    BY <2>1, <2>3 DEF Owning
  <2>5. Owning' = Owning \/ Owning' = {}
    BY <2>4 DEF Ownership, OwningOK
  <2>6. PhaseOK' /\ OwningOK'
    BY <2>1, <2>4 DEF Ownership, PhaseOK, OwningOK
  <2>7. IdsOK'
    BY <2>1, <2>4 DEF Ownership, IdsOK
  <2>8. PassOK'
    BY <2>1, <2>2, <2>4 DEF Ownership, PassOK, At
  <2> QED BY <2>1, <2>5, <2>6, <2>7, <2>8 DEF Ownership
<1> QED BY <1>2, <1>3

LEMMA OwnershipNext ==
  ASSUME PassInv, Ownership, [Next]_vars
  PROVE  /\ Ownership'
         /\ \/ cr'.managed = cr.managed /\ (Owning' = Owning \/ Owning' = {})
            \/ ~cr.managed /\ cr'.managed /\ Owning' = Owning
            \/ ~cr'.managed /\ Owning = {} /\ Owning' = {}
            \/ /\ cr.managed /\ cr'.managed /\ Owning = {}
               /\ \E i \in Owning' : Owning' = {i}
<1>1. CASE setResourceManaged \/ sdkCreate
  <2>1. Ownership' /\ Owning' = Owning
    BY <1>1, OwnershipCreate
  <2>2. cr \in CR
    BY TypeOKIs DEF PassInv
  <2>3. cr'.managed = cr.managed \/ cr'.managed = TRUE
    BY <1>1, <2>2 DEF setResourceManaged, sdkCreate, CR
  <2>4. cr.managed \in BOOLEAN
    BY <2>2 DEF CR
  <2> QED BY <2>1, <2>3, <2>4
<1>2. CASE UNCHANGED vars
  <2>1. Live' = Live /\ Owning' = Owning
    BY <1>2 DEF vars, env, Live, Owning
  <2>2. PhaseOK' /\ IdsOK' /\ OwningOK' /\ PassOK'
    BY <1>2, <2>1 DEF vars, env, Ownership, PhaseOK, IdsOK, OwningOK, PassOK, At
  <2> QED BY <1>2, <2>1, <2>2 DEF vars, Ownership
<1>3. CASE sdkDelete \/ setResourceUnmanaged \/ PatchStatus \/ Crash
  BY <1>3, OwnershipEnd
<1>4. CASE Settle \/ EditSpec \/ DeleteCR \/ RecreateCR \/ Drift
  BY <1>4, OwnershipWorld
<1>5. CASE \/ readRules \/ customUpdateVPC \/ DisassociateVpcCidrBlock \/ AssociateVpcCidrBlock
           \/ syncCIDRBlocks \/ deleteSecurityGroupDefaultRules \/ syncAttributes
           \/ checkRules \/ syncTags \/ LateInitialize \/ ReadFails \/ Begin \/ sdkFind
  BY <1>5, OwnershipPass
<1> QED BY <1>1, <1>2, <1>3, <1>4, <1>5 DEF Next, Reconcile

LEMMA OwnershipInit == Init => Ownership
<1> SUFFICES ASSUME Init PROVE Ownership
  OBVIOUS
<1>1. Live = {} /\ Owning = {} /\ w.pc = "idle" /\ cr.id = 0
      /\ cr.phase = "live" /\ recorded = {}
  BY DEF Init, NewCR, IdleWorker, NoVPC, Live, Owning
<1> QED BY <1>1 DEF Ownership, PhaseOK, IdsOK, OwningOK, PassOK, At

LEMMA OwnershipAlways == Spec => []Ownership
<1>1. PassInv /\ Ownership /\ [Next]_vars => Ownership'
  BY OwnershipNext
<1> QED BY <1>1, OwnershipInit, PassInvAlways, PTL DEF Spec

LEMMA LifecycleStep == PassInv /\ Ownership /\ [Next]_vars => [Abs!Next]_(Abs!vars)
<1> SUFFICES ASSUME PassInv, Ownership, [Next]_vars
             PROVE  Abs!Next \/ UNCHANGED <<cr.managed, Owning>>
  BY DEF Abs!vars, Owning
<1>1. CASE cr'.managed = cr.managed /\ (Owning' = Owning \/ Owning' = {})
  BY <1>1 DEF Abs!Next, Abs!Vanish, Owning
<1>2. CASE ~cr.managed /\ cr'.managed /\ Owning' = Owning
  <2>1. cr \in CR /\ cr' \in CR
    BY NextType, TypeOKIs, TypeOKWillBe DEF PassInv
  <2>2. cr'.managed = TRUE
    BY <1>2, <2>1 DEF CR
  <2> QED BY <1>2, <2>2 DEF Abs!Next, Abs!Claim, Owning
<1>3. CASE ~cr'.managed /\ Owning = {} /\ Owning' = {}
  <2>1. cr' \in CR
    BY NextType, TypeOKWillBe DEF PassInv
  <2>2. cr'.managed = FALSE
    BY <1>3, <2>1 DEF CR
  <2> QED BY <1>3, <2>2 DEF Abs!Next, Abs!Release, Owning
<1>4. CASE cr.managed /\ cr'.managed /\ Owning = {} /\ \E i \in Owning' : Owning' = {i}
  <2>1. cr \in CR /\ cr' \in CR
    BY NextType, TypeOKIs, TypeOKWillBe DEF PassInv
  <2>2. cr'.managed = cr.managed
    BY <1>4, <2>1 DEF CR
  <2> QED BY <1>4, <2>2 DEF Abs!Next, Abs!Create, Owning
<1> QED BY <1>1, <1>2, <1>3, <1>4, OwnershipNext

\* VPC implements Lifecycle: the VPCs whose id reached the CR's status come
\* one at a time, under the finalizer, which goes last.
THEOREM LifecycleCorrect == Spec => ImplementsLifecycle
<1>1. Init => Abs!Init
  <2> SUFFICES ASSUME Init PROVE Abs!Init
    OBVIOUS
  <2>1. cr.managed = FALSE /\ Owning = {}
    BY DEF Init, NewCR, Owning
  <2> QED BY <2>1 DEF Abs!Init, Owning
<1> QED
  BY <1>1, LifecycleStep, PassInvAlways, OwnershipAlways, PTL
     DEF Spec, ImplementsLifecycle, Abs!Spec

=============================================================================
