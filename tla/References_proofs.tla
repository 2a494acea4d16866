-------------------------- MODULE References_proofs --------------------------
(***************************************************************************)
(* Theorems about References, for any CRs, kinds, specs and bounds: CRs    *)
(* never wait for one another in a circle, as long as there is no route    *)
(* table among them; a pass that reports success left the rules declared,  *)
(* as long as no group's spec refers to the group itself; and each CR's    *)
(* objects come and go under its finalizer, as long as no CR made anew     *)
(* finds a group that another of its name has lost.                        *)
(***************************************************************************)
EXTENDS References, TLAPS

Kinds == DOMAIN AwaitedKinds

\* Which kinds there are, and what each of them awaits.
LEMMA KindsAre ==
  Kinds = {"dhcp_options", "egress_only_internet_gateway", "instance", "internet_gateway",
           "nat_gateway", "network_acl", "route_table", "security_group", "subnet",
           "transit_gateway_vpc_attachment", "vpc_endpoint", "vpc_peering_connection"}
BY DEF Kinds, AwaitedKinds

\* A kind none of whose awaited kinds is circular is not circular itself.
LEMMA NoAwaited ==
  ASSUME NEW kinds \in SUBSET Kinds, Circular(kinds), NEW k \in Kinds,
         AwaitedKinds[k] \cap kinds = {}
  PROVE  k \notin kinds
BY DEF Circular

\* Without the route table the kinds await one another in an order: first the
\* ones that await a VPC only, then the subnet and what leads to it.
LEMMA CirclesCorrect == CirclesHaveRoutes
<1> SUFFICES ASSUME NEW kinds \in SUBSET Kinds, Circular(kinds), "route_table" \notin kinds
             PROVE  FALSE
  BY DEF CirclesHaveRoutes, Kinds
<1> USE KindsAre, NoAwaited
<1>1. {"vpc", "elastic_ip_address", "launch_template", "transit_gateway",
       "vpc_endpoint_service_configuration"} \cap kinds = {}
  OBVIOUS
<1>2. {"dhcp_options", "egress_only_internet_gateway", "vpc_peering_connection",
       "security_group"} \cap kinds = {}
  <2>1. "dhcp_options" \notin kinds
    BY <1>1 DEF AwaitedKinds, DHCPOptionsReferences
  <2>2. "egress_only_internet_gateway" \notin kinds
    BY <1>1 DEF AwaitedKinds, EgressOnlyInternetGatewayReferences
  <2>3. "vpc_peering_connection" \notin kinds
    BY <1>1 DEF AwaitedKinds, VPCPeeringConnectionReferences
  <2>4. "security_group" \notin kinds
    BY <1>1 DEF AwaitedKinds, SecurityGroupReferences
  <2> QED BY <2>1, <2>2, <2>3, <2>4
<1>3. {"subnet", "internet_gateway"} \cap kinds = {}
  <2>1. "subnet" \notin kinds
    BY <1>1 DEF AwaitedKinds, SubnetReferences
  <2>2. "internet_gateway" \notin kinds
    BY <1>1 DEF AwaitedKinds, InternetGatewayReferences
  <2> QED BY <2>1, <2>2
<1>4. {"instance", "nat_gateway", "network_acl", "transit_gateway_vpc_attachment",
       "vpc_endpoint"} \cap kinds = {}
  <2>1. "instance" \notin kinds
    BY <1>1, <1>3 DEF AwaitedKinds, InstanceReferences
  <2>2. "nat_gateway" \notin kinds
    BY <1>1, <1>3 DEF AwaitedKinds, NATGatewayReferences
  <2>3. "network_acl" \notin kinds
    BY <1>1, <1>3 DEF AwaitedKinds, NetworkACLReferences
  <2>4. "transit_gateway_vpc_attachment" \notin kinds
    BY <1>1, <1>3 DEF AwaitedKinds, TransitGatewayVPCAttachmentReferences
  <2>5. "vpc_endpoint" \notin kinds
    BY <1>1, <1>2, <1>3 DEF AwaitedKinds, VPCEndpointReferences
  <2> QED BY <2>1, <2>2, <2>3, <2>4, <2>5
<1>5. kinds = {}
  BY <1>2, <1>3, <1>4
<1> QED BY <1>5 DEF Circular

----------------------------------------------------------------------------
(* Types.                                                                  *)

CR ==
  [phase: {"live", "deleting", "gone"}, managed: BOOLEAN, id: Ids \cup {0},
   synced: BOOLEAN, spec: AllSpecs]

Object == [live: BOOLEAN, of: CRs, uses: SUBSET Ids, rules: SUBSET Ids]

Worker ==
  [pc: {"idle", "read", "create", "sync", "delete", "release", "synced", "unsynced", "failed"},
   mode: {"update", "create", "delete"}, id: Ids \cup {0}, spec: AllSpecs \cup {NoSpec},
   ids: [CRs -> Ids \cup {0}], revoke: SUBSET Ids, authorize: SUBSET Ids]

CROf(c) ==
  /\ cr[c].spec \in Specs[c]
  /\ cr[c].phase = "deleting" => cr[c].managed
  /\ cr[c].phase = "gone" => ~cr[c].managed

LEMMA TypeOKIs ==
  TypeOK <=> /\ cr \in [CRs -> CR] /\ \A c \in CRs : CROf(c)
             /\ ec2 \in [Ids -> Object]
             /\ nextId \in 1 .. MaxObjects + 1
             /\ w \in [CRs -> Worker]
             /\ events \in 0 .. MaxEvents
BY DEF TypeOK, CR, CROf, Object, Worker

LEMMA TypeOKWillBe ==
  TypeOK' <=> /\ cr' \in [CRs -> CR] /\ \A c \in CRs : CROf(c)'
              /\ ec2' \in [Ids -> Object]
              /\ nextId' \in 1 .. MaxObjects + 1
              /\ w' \in [CRs -> Worker]
              /\ events' \in 0 .. MaxEvents
BY DEF TypeOK, CR, CROf, Object, Worker

LEMMA GoneType == Gone \in Object
BY ReferencesAssumption DEF Gone, Object

LEMMA IdleType == IdleWorker \in Worker
BY DEF IdleWorker, Worker

\* A pass that is over is a worker again.
LEMMA OverType ==
  ASSUME TypeOK, NEW c \in CRs,
         NEW label \in {"release", "failed", "unsynced", "delete"}
  PROVE  /\ Over(c, label) \in Worker
         /\ \A i \in Ids : [Over(c, label) EXCEPT !.id = i] \in Worker
<1>1. w[c] \in Worker
  BY TypeOKIs
<1> QED BY <1>1 DEF Over, IdleWorker, Worker

LEMMA SyncType ==
  ASSUME NEW next \in Worker
  PROVE  Sync(next) \in Worker
BY DEF Sync, Worker

\* What a spec refers to are CRs.
LEMMA RefersToCRs ==
  ASSUME NEW spec \in AllSpecs \cup {NoSpec}
  PROVE  spec.awaited \subseteq CRs /\ spec.groups \subseteq CRs
BY ReferencesAssumption DEF AllSpecs, NoSpec

LEMMA NamedType ==
  ASSUME TypeOK, NEW c \in CRs
  PROVE  Named(c) \subseteq Ids
<1>1. w[c] \in Worker
  BY TypeOKIs
<1>2. w[c].spec.groups \subseteq CRs
  BY <1>1, RefersToCRs DEF Worker
<1> QED BY <1>1, <1>2 DEF Named, Worker

\* The two outcomes of a step of a worker keep the types.
LEMMA GoType ==
  ASSUME TypeOK, NEW c \in CRs, NEW next \in Worker, Go(c, next)
  PROVE  TypeOK'
BY TypeOKIs, TypeOKWillBe DEF Go, CROf

LEMMA CallType ==
  ASSUME TypeOK, NEW c \in CRs, NEW obj \in Object, NEW next \in Worker, Call(c, obj, next)
  PROVE  TypeOK'
<1>1. Over(c, "failed") \in Worker
  BY OverType
<1>2. ec2' \in [Ids -> Object]
  BY TypeOKIs DEF Call
<1>3. w' \in [CRs -> Worker]
  BY <1>1, TypeOKIs DEF Call
<1>4. events' \in 0 .. MaxEvents
  BY TypeOKIs, ReferencesAssumption DEF Call
<1> QED BY <1>2, <1>3, <1>4, TypeOKIs, TypeOKWillBe DEF Call, CROf

LEMMA ResolveType ==
  ASSUME TypeOK, NEW c \in CRs, ResolveReferences(c)
  PROVE  TypeOK'
<1> DEFINE failing  == Unresolvable(c).groups \cup Unresolvable(c).awaited
           resolved == IF Unresolvable(c).groups # {} THEN {}
                       ELSE cr[c].spec.groups
                              \cup (IF failing = {} THEN cr[c].spec.awaited ELSE {})
           pass     == [IdleWorker EXCEPT !.id = cr[c].id]
           read     == [pass EXCEPT
                          !.pc = "read", !.spec = cr[c].spec,
                          !.ids = [r \in CRs |-> IF r \in resolved THEN cr[r].id ELSE 0],
                          !.mode = IF cr[c].phase = "live" THEN "update" ELSE "delete"]
<1>1. \A r \in CRs : cr[r] \in CR
  BY TypeOKIs
<1>2. [pass EXCEPT !.pc = "failed"] \in Worker
  BY <1>1 DEF IdleWorker, Worker, CR
<1>3. read \in Worker
  <2> HIDE DEF resolved
  <2>1. [r \in CRs |-> IF r \in resolved THEN cr[r].id ELSE 0] \in [CRs -> Ids \cup {0}]
    BY <1>1 DEF CR
  <2> QED BY <1>1, <2>1 DEF IdleWorker, Worker, CR
<1>4. Go(c, IF cr[c].phase = "live" /\ failing # {} THEN [pass EXCEPT !.pc = "failed"] ELSE read)
  <2> HIDE DEF failing, resolved
  <2> QED BY DEF ResolveReferences, failing, resolved
<1> HIDE DEF failing, pass, read
<1>5. CASE cr[c].phase = "live" /\ failing # {}
  BY <1>2, <1>4, <1>5, GoType
<1>6. CASE ~(cr[c].phase = "live" /\ failing # {})
  BY <1>3, <1>4, <1>6, GoType
<1> QED BY <1>5, <1>6

LEMMA NotFoundType ==
  ASSUME TypeOK, NEW c \in CRs, NotFound(c)
  PROVE  TypeOK'
<1>1. cr[c] \in CR /\ w[c] \in Worker /\ \A d \in CRs : CROf(d)
  BY TypeOKIs
<1>2. CASE w[c].mode = "delete"
  BY <1>2, OverType, GoType DEF NotFound
<1>3. CASE w[c].mode # "delete"
  <2>1. w' \in [CRs -> Worker]
    <3>1. [w[c] EXCEPT !.pc = "create", !.mode = "create"] \in Worker
      BY <1>1 DEF Worker
    <3> QED BY <1>3, <3>1, IdleType, TypeOKIs DEF NotFound
  <2>2. cr' \in [CRs -> CR] /\ \A d \in CRs : CROf(d)'
    <3>1. CASE cr[c].phase = "gone"
      BY <1>1, <1>3, <3>1, TypeOKIs DEF NotFound, CROf
    <3>2. CASE cr[c].phase # "gone"
      <4>1. [cr[c] EXCEPT !.managed = TRUE] \in CR
        BY <1>1 DEF CR
      <4>2. cr' = [cr EXCEPT ![c] = [cr[c] EXCEPT !.managed = TRUE]]
        BY <1>3, <3>2 DEF NotFound
      <4> QED BY <1>1, <3>2, <4>1, <4>2, TypeOKIs DEF CROf, CR
    <3> QED BY <3>1, <3>2
  <2> QED BY <1>3, <2>1, <2>2, TypeOKIs, TypeOKWillBe DEF NotFound
<1> QED BY <1>2, <1>3

LEMMA UpdateType ==
  ASSUME TypeOK, NEW c \in CRs, NEW i \in Ids
  PROVE  customUpdateSecurityGroup(c, i) \in Worker /\ sdkDelete(c, i) \in Worker
<1>1. w[c] \in Worker /\ ec2[i] \in Object
  BY TypeOKIs
<1>2. [w[c] EXCEPT !.pc = "synced", !.id = i] \in Worker
  BY <1>1 DEF Worker
<1>3. [Over(c, "unsynced") EXCEPT !.id = i] \in Worker
  BY OverType
<1>4. [w[c] EXCEPT !.id = i, !.revoke = ec2[i].rules \ Named(c),
                   !.authorize = Named(c) \ ec2[i].rules] \in Worker
  BY <1>1, NamedType DEF Worker, Object
<1>5. [Over(c, "delete") EXCEPT !.id = i, !.mode = "delete", !.revoke = ec2[i].rules] \in Worker
  <2>1. Over(c, "delete") \in Worker
    BY OverType
  <2> QED BY <1>1, <2>1 DEF Worker, Object
<1> QED BY <1>2, <1>3, <1>4, <1>5, SyncType DEF customUpdateSecurityGroup, sdkDelete

LEMMA FindType ==
  ASSUME TypeOK, NEW c \in CRs, sdkFind(c)
  PROVE  TypeOK'
<1> DEFINE found == IF w[c].id # 0 THEN {w[c].id} \cap Live ELSE getSecurityGroupID(c)
<1>1. found \subseteq Ids
  BY DEF Live, getSecurityGroupID
<1>2. \/ Go(c, Over(c, "failed"))
      \/ NotFound(c)
      \/ \E i \in found : \/ Go(c, sdkDelete(c, i))
                          \/ Go(c, customUpdateSecurityGroup(c, i))
  BY DEF sdkFind
<1>3. CASE Go(c, Over(c, "failed"))
  BY <1>3, OverType, GoType
<1>4. CASE NotFound(c)
  BY <1>4, NotFoundType
<1>5. ASSUME NEW i \in found, Go(c, sdkDelete(c, i)) \/ Go(c, customUpdateSecurityGroup(c, i))
      PROVE  TypeOK'
  <2>1. i \in Ids
    BY <1>1
  <2> QED BY <1>5, <2>1, UpdateType, GoType
<1> QED BY <1>2, <1>3, <1>4, <1>5

LEMMA CreateType ==
  ASSUME TypeOK, NEW c \in CRs, sdkCreate(c)
  PROVE  TypeOK'
<1> DEFINE uses    == {w[c].ids[r] : r \in w[c].spec.awaited}
           obj     == [live |-> TRUE, of |-> c, uses |-> uses, rules |-> {}]
           created == [w[c] EXCEPT !.id = nextId]
           fits    == nextId \in Ids /\ uses \subseteq Live /\ getSecurityGroupID(c) = {}
           synced  == IF referencesResolved(c) THEN Sync([created EXCEPT !.authorize = Named(c)])
                      ELSE [Over(c, "unsynced") EXCEPT !.id = nextId]
<1>1. w[c] \in Worker /\ Over(c, "failed") \in Worker
  BY TypeOKIs, OverType
<1>2. CASE ~fits
  <2>1. Go(c, Over(c, "failed"))
    BY <1>2 DEF sdkCreate, Go
  <2> QED BY <1>1, <2>1, GoType
<1>3. CASE fits
  <2>1. synced \in Worker
    <3>1. [created EXCEPT !.authorize = Named(c)] \in Worker
      BY <1>1, <1>3, NamedType DEF Worker
    <3>2. [Over(c, "unsynced") EXCEPT !.id = nextId] \in Worker
      BY <1>3, OverType
    <3> HIDE DEF created
    <3> QED BY <3>1, <3>2, SyncType
  <2>2. obj \in Object
    BY <1>3 DEF Object, Live
  <2> HIDE DEF uses, obj, synced
  <2>3. /\ ec2' \in {ec2, [ec2 EXCEPT ![nextId] = obj]}
        /\ nextId' = IF ec2' = ec2 THEN nextId ELSE nextId + 1
        /\ \/ UNCHANGED events /\ w' = [w EXCEPT ![c] = synced]
           \/ events < MaxEvents /\ events' = events + 1 /\ w' = [w EXCEPT ![c] = Over(c, "failed")]
        /\ UNCHANGED cr
    BY <1>3 DEF sdkCreate, uses, obj, synced
  <2>4. ec2' \in [Ids -> Object]
    BY <2>2, <2>3, TypeOKIs
  <2>5. nextId' \in 1 .. MaxObjects + 1
    <3>1. nextId \in 1 .. MaxObjects
      BY <1>3 DEF Ids
    <3> QED BY <2>3, <3>1, ReferencesAssumption
  <2>6. w' \in [CRs -> Worker]
    BY <1>1, <2>1, <2>3, TypeOKIs
  <2>7. events' \in 0 .. MaxEvents
    BY <2>3, TypeOKIs, ReferencesAssumption
  <2>8. cr' \in [CRs -> CR] /\ \A d \in CRs : CROf(d)'
    BY <2>3, TypeOKIs DEF CROf
  <2> QED BY <2>4, <2>5, <2>6, <2>7, <2>8, TypeOKWillBe
<1> QED BY <1>2, <1>3

\* A step that sends rules: what EC2 then holds, and the worker.
LEMMA RulesType ==
  ASSUME TypeOK, NEW c \in CRs, deleteSecurityGroupRules(c) \/ createSecurityGroupRules(c)
  PROVE  TypeOK'
<1> DEFINE obj     == ec2[w[c].id]
           fewer   == [obj EXCEPT !.rules = @ \ w[c].revoke]
           more    == [obj EXCEPT !.rules = @ \cup w[c].authorize]
           revoked == Sync([w[c] EXCEPT !.revoke = {}])
           granted == Sync([w[c] EXCEPT !.authorize = {}])
<1>1. w[c] \in Worker /\ Over(c, "failed") \in Worker
  BY TypeOKIs, OverType
<1>2. revoked \in Worker /\ granted \in Worker
  <2>1. [w[c] EXCEPT !.revoke = {}] \in Worker /\ [w[c] EXCEPT !.authorize = {}] \in Worker
    BY <1>1 DEF Worker
  <2> QED BY <2>1, SyncType
<1>3. w[c].id \in Ids => fewer \in Object /\ more \in Object
  <2>1. ASSUME w[c].id \in Ids PROVE obj \in Object
    BY <2>1, TypeOKIs
  <2> QED BY <1>1, <2>1 DEF Object, Worker
<1> HIDE DEF fewer, more, revoked, granted
<1>4. \/ Go(c, Over(c, "failed"))
      \/ Call(c, fewer, revoked)
      \/ Call(c, more, granted)
  BY DEF deleteSecurityGroupRules, createSecurityGroupRules, fewer, more, revoked, granted
<1>5. CASE Go(c, Over(c, "failed"))
  BY <1>1, <1>5, GoType
<1>6. CASE w[c].id \in Ids /\ (Call(c, fewer, revoked) \/ Call(c, more, granted))
  BY <1>2, <1>3, <1>6, CallType
<1>7. CASE w[c].id \notin Ids /\ (Call(c, fewer, revoked) \/ Call(c, more, granted))
  <2>1. \A o : [ec2 EXCEPT ![w[c].id] = o] = [ec2 EXCEPT ![w[c].id] = Gone]
    BY <1>7, TypeOKIs
  <2>2. Call(c, Gone, revoked) \/ Call(c, Gone, granted)
    BY <1>7, <2>1 DEF Call
  <2> QED BY <1>2, <2>2, GoneType, CallType
<1> QED BY <1>4, <1>5, <1>6, <1>7

LEMMA DeleteType ==
  ASSUME TypeOK, NEW c \in CRs, DeleteObject(c)
  PROVE  TypeOK'
<1>1. Over(c, "failed") \in Worker /\ Over(c, "release") \in Worker
  BY OverType
<1>2. Go(c, Over(c, "failed")) \/ Call(c, Gone, Over(c, "release"))
  BY DEF DeleteObject
<1> QED BY <1>1, <1>2, GoneType, GoType, CallType

\* A step that makes `obj` of the CR, and leaves the worker or makes it idle.
LEMMA CRType ==
  ASSUME TypeOK, NEW c \in CRs, NEW obj \in CR,
         obj.spec \in Specs[c],
         obj.phase = "deleting" => obj.managed, obj.phase = "gone" => ~obj.managed,
         cr' = [cr EXCEPT ![c] = obj],
         w' = w \/ w' = [w EXCEPT ![c] = IdleWorker],
         events' = events \/ (events < MaxEvents /\ events' = events + 1),
         UNCHANGED <<ec2, nextId>>
  PROVE  TypeOK'
<1>1. cr' \in [CRs -> CR] /\ \A d \in CRs : CROf(d)'
  BY TypeOKIs DEF CROf
<1>2. w' \in [CRs -> Worker]
  BY IdleType, TypeOKIs
<1>3. events' \in 0 .. MaxEvents
  BY TypeOKIs, ReferencesAssumption
<1> QED BY <1>1, <1>2, <1>3, TypeOKIs, TypeOKWillBe

LEMMA StatusType ==
  ASSUME TypeOK, NEW c \in CRs, setResourceUnmanaged(c) \/ PatchStatus(c)
  PROVE  TypeOK'
<1>1. cr[c] \in CR /\ w[c] \in Worker /\ CROf(c)
  BY TypeOKIs
<1>2. CASE setResourceUnmanaged(c)
  <2>1. [cr[c] EXCEPT !.phase = "gone", !.managed = FALSE] \in CR
    BY <1>1 DEF CR
  <2>2. cr' = [cr EXCEPT ![c] = [cr[c] EXCEPT !.phase = "gone", !.managed = FALSE]]
    BY <1>2, TypeOKIs DEF setResourceUnmanaged
  <2> QED BY <1>1, <1>2, <2>1, <2>2, CRType DEF setResourceUnmanaged, CROf, CR
<1>3. CASE PatchStatus(c) /\ cr[c].phase = "gone"
  <2>1. Go(c, IdleWorker)
    BY <1>3 DEF PatchStatus, Go
  <2> QED BY <2>1, IdleType, GoType
<1>4. CASE PatchStatus(c) /\ cr[c].phase # "gone"
  <2> DEFINE patched == [cr[c] EXCEPT !.id = w[c].id, !.synced = At(c, "synced")]
  <2>1. patched \in CR
    BY <1>1 DEF CR, Worker, At
  <2>2. cr' = [cr EXCEPT ![c] = patched]
    BY <1>4, TypeOKIs DEF PatchStatus
  <2>3. /\ patched.spec = cr[c].spec /\ patched.phase = cr[c].phase
        /\ patched.managed = cr[c].managed
    BY <1>1 DEF CR
  <2> HIDE DEF patched
  <2> QED BY <1>1, <1>4, <2>1, <2>2, <2>3, CRType DEF PatchStatus, CROf
<1> QED BY <1>2, <1>3, <1>4

LEMMA UserType ==
  ASSUME TypeOK, NEW c \in CRs, EditSpec(c) \/ DeleteCR(c) \/ RecreateCR(c)
  PROVE  TypeOK'
<1>1. cr[c] \in CR /\ CROf(c)
  BY TypeOKIs
<1>2. CASE EditSpec(c)
  <2>1. PICK spec \in Specs[c] : cr' = [cr EXCEPT ![c].spec = spec]
    BY <1>2 DEF EditSpec
  <2>2. [cr[c] EXCEPT !.spec = spec] \in CR
    BY <1>1 DEF CR, AllSpecs
  <2>3. cr' = [cr EXCEPT ![c] = [cr[c] EXCEPT !.spec = spec]]
    BY <2>1, TypeOKIs
  <2> QED BY <1>1, <1>2, <2>2, <2>3, CRType DEF EditSpec, CROf, CR
<1>3. CASE DeleteCR(c)
  <2> DEFINE phase == IF cr[c].managed THEN "deleting" ELSE "gone"
  <2>1. [cr[c] EXCEPT !.phase = phase] \in CR
    BY <1>1 DEF CR
  <2>2. cr' = [cr EXCEPT ![c] = [cr[c] EXCEPT !.phase = phase]]
    BY <1>3, TypeOKIs DEF DeleteCR
  <2> QED BY <1>1, <1>3, <2>1, <2>2, CRType DEF DeleteCR, CROf, CR
<1>4. CASE RecreateCR(c)
  <2>1. PICK spec \in Specs[c] : cr' = [cr EXCEPT ![c] = NewCR(spec)]
    BY <1>4 DEF RecreateCR
  <2>2. NewCR(spec) \in CR
    BY DEF NewCR, CR, AllSpecs
  <2> QED BY <1>4, <2>1, <2>2, CRType DEF RecreateCR, NewCR
<1> QED BY <1>2, <1>3, <1>4

LEMMA InitType == Init => TypeOK
<1> SUFFICES ASSUME Init PROVE TypeOK
  OBVIOUS
<1>1. PICK spec \in [CRs -> UNION {Specs[c] : c \in CRs}] :
        (\A c \in CRs : spec[c] \in Specs[c]) /\ cr = [c \in CRs |-> NewCR(spec[c])]
  BY DEF Init
<1>2. cr \in [CRs -> CR] /\ \A c \in CRs : CROf(c)
  BY <1>1 DEF NewCR, CR, CROf, AllSpecs
<1> QED BY <1>2, GoneType, IdleType, ReferencesAssumption, TypeOKIs DEF Init

LEMMA NextType == TypeOK /\ [Next]_vars => TypeOK'
<1> SUFFICES ASSUME TypeOK, [Next]_vars PROVE TypeOK'
  OBVIOUS
<1>1. ASSUME NEW c \in CRs, Reconcile(c) PROVE TypeOK'
  BY <1>1, ResolveType, FindType, CreateType, RulesType, DeleteType, StatusType DEF Reconcile
<1>2. ASSUME NEW c \in CRs, EditSpec(c) \/ DeleteCR(c) \/ RecreateCR(c) PROVE TypeOK'
  BY <1>2, UserType
<1>3. CASE Crash
  <2>1. w' \in [CRs -> Worker] /\ events' \in 0 .. MaxEvents
    BY <1>3, IdleType, TypeOKIs, ReferencesAssumption DEF Crash
  <2> QED BY <1>3, <2>1, TypeOKIs, TypeOKWillBe DEF Crash, CROf
<1>4. CASE UNCHANGED vars
  BY <1>4, TypeOKIs, TypeOKWillBe DEF vars, CROf
<1> QED BY <1>1, <1>2, <1>3, <1>4 DEF Next

\* Every variable keeps its type, whatever worker, user or failure acts.
THEOREM TypeCorrect == Spec => []TypeOK
BY InitType, NextType, PTL DEF Spec

----------------------------------------------------------------------------
(* Waiting in a circle.  A CR in one is live and waited for, so it is not  *)
(* a group that a GroupRef waits for: that one is gone.  What is left are  *)
(* awaited references, and a circle of those is one of kinds.              *)

NoRouteTables == \A c \in CRs : KindOf[c] # "route_table"

LEMMA AwaitedKindOf ==
  ASSUME NEW c \in CRs, NEW spec \in Specs[c], NEW r \in spec.awaited
  PROVE  KindOf[c] \in Kinds /\ KindOf[r] \in AwaitedKinds[KindOf[c]]
BY ReferencesAssumption DEF MayAwait, Kinds

LEMMA NoneWaits ==
  ASSUME TypeOK, NoRouteTables
  PROVE  NoCircularWait
<1> SUFFICES ASSUME NEW S \in (SUBSET CRs) \ {{}}, \A c \in S : Waiting(c) \cap S # {}
             PROVE  FALSE
  BY CirclesCorrect DEF NoCircularWait
<1>1. \A c \in S : cr[c].phase = "live"
  BY DEF Waiting
<1>2. \A c \in S : \E r \in S : r \in cr[c].spec.awaited
  <2>1. ASSUME NEW c \in S, NEW r \in Waiting(c), r \in S PROVE r \in cr[c].spec.awaited
    <3>1. r \notin Unresolvable(c).groups
      BY <1>1, <2>1 DEF Unresolvable, getReferencedResourceState_SecurityGroup
    <3> QED BY <2>1, <3>1 DEF Waiting, Unresolvable
  <2> QED BY <2>1
<1> DEFINE kinds == {KindOf[c] : c \in S}
<1>3. \A c \in S : KindOf[c] \in Kinds /\ AwaitedKinds[KindOf[c]] \cap kinds # {}
  <2> SUFFICES ASSUME NEW c \in S
               PROVE  KindOf[c] \in Kinds /\ AwaitedKinds[KindOf[c]] \cap kinds # {}
    OBVIOUS
  <2>1. PICK r \in S : r \in cr[c].spec.awaited
    BY <1>2
  <2>2. cr[c].spec \in Specs[c]
    BY TypeOKIs DEF CROf
  <2>3. KindOf[c] \in Kinds /\ KindOf[r] \in AwaitedKinds[KindOf[c]]
    BY <2>1, <2>2, AwaitedKindOf
  <2> QED BY <2>3
<1>4. kinds \in SUBSET Kinds /\ Circular(kinds)
  BY <1>3 DEF Circular
<1>5. "route_table" \notin kinds
  BY DEF NoRouteTables
<1> HIDE DEF kinds
<1> QED BY <1>4, <1>5, CirclesCorrect DEF CirclesHaveRoutes, Kinds

\* CRs without a route table among them never wait for one another in a circle,
\* although security groups name one another: getReferencedResourceState of a
\* GroupRef asks for no state.
THEOREM NoCircularWaitCorrect ==
  ASSUME NoRouteTables
  PROVE  Spec => []NoCircularWait
<1>1. TypeOK => NoCircularWait
  BY NoneWaits
<1> QED BY <1>1, TypeCorrect, PTL

----------------------------------------------------------------------------
(* Who made what.  Every id that a CR or a worker holds is older than the  *)
(* next one, and if its object lives it was made for that CR; and what an  *)
(* object needs lives as long as it does.                                  *)

Belongs(i, c) == i < nextId /\ (i \in Live => ec2[i].of = c)

Held(c) ==
  /\ Belongs(cr[c].id, c) /\ Belongs(w[c].id, c)
  /\ \A r \in CRs : Belongs(w[c].ids[r], r)

Unused == \A i \in Ids : i >= nextId => i \notin Live

Intact == \A i \in Live : ec2[i].uses \cup ec2[i].rules \subseteq Live

Objects == (\A c \in CRs : Held(c)) /\ Unused /\ Intact

\* What a step of a worker may do to the objects.
Leaves == UNCHANGED <<ec2, nextId>>

Makes(c) ==
  /\ nextId \in Ids /\ nextId' = nextId + 1
  /\ \E uses \in SUBSET Live :
       ec2' = [ec2 EXCEPT ![nextId] = [live |-> TRUE, of |-> c, uses |-> uses, rules |-> {}]]

Changes(c) ==
  /\ w[c].id \in Live /\ nextId' = nextId
  /\ \E rules \in SUBSET (ec2[w[c].id].rules \cup (w[c].authorize \cap Live)) :
       ec2' = [ec2 EXCEPT ![w[c].id] = [@ EXCEPT !.rules = rules]]

Drops(c) ==
  /\ w[c].id \in Live /\ ~InUse(w[c].id) /\ nextId' = nextId
  /\ ec2' = [ec2 EXCEPT ![w[c].id] = Gone]

LEMMA LiveIs == \A i : i \in Live <=> i \in Ids /\ ec2[i].live
BY DEF Live

LEMMA EffectOf ==
  ASSUME TypeOK, NEW c \in CRs, Reconcile(c)
  PROVE  Leaves \/ Makes(c) \/ Changes(c) \/ Drops(c)
<1>1. w[c] \in Worker
  BY TypeOKIs
<1>2. CASE ResolveReferences(c) \/ sdkFind(c) \/ setResourceUnmanaged(c) \/ PatchStatus(c)
  BY <1>2 DEF ResolveReferences, sdkFind, NotFound, setResourceUnmanaged, PatchStatus, Go, Leaves
<1>3. CASE sdkCreate(c)
  <2> DEFINE uses == {w[c].ids[r] : r \in w[c].spec.awaited}
             obj  == [live |-> TRUE, of |-> c, uses |-> uses, rules |-> {}]
  <2>1. CASE nextId \in Ids /\ uses \subseteq Live /\ getSecurityGroupID(c) = {}
    <3> HIDE DEF uses
    <3>1. ec2' \in {ec2, [ec2 EXCEPT ![nextId] = obj]}
          /\ nextId' = IF ec2' = ec2 THEN nextId ELSE nextId + 1
      BY <1>3, <2>1 DEF sdkCreate, uses
    <3> QED BY <2>1, <3>1 DEF Leaves, Makes
  <2>2. CASE ~(nextId \in Ids /\ uses \subseteq Live /\ getSecurityGroupID(c) = {})
    BY <1>3, <2>2 DEF sdkCreate, Leaves
  <2> QED BY <2>1, <2>2
<1>4. CASE deleteSecurityGroupRules(c) \/ createSecurityGroupRules(c)
  <2> DEFINE obj   == ec2[w[c].id]
             fewer == [obj EXCEPT !.rules = @ \ w[c].revoke]
             more  == [obj EXCEPT !.rules = @ \cup w[c].authorize]
  <2>1. \/ Leaves
        \/ /\ obj.live /\ nextId' = nextId
           /\ \/ ec2' = [ec2 EXCEPT ![w[c].id] = fewer]
              \/ ec2' = [ec2 EXCEPT ![w[c].id] = more] /\ w[c].authorize \subseteq Live
    BY <1>4 DEF deleteSecurityGroupRules, createSecurityGroupRules, Go, Call, Leaves
  <2>2. CASE w[c].id \notin Ids
    BY <2>1, <2>2, TypeOKIs DEF Leaves
  <2>3. CASE w[c].id \in Ids /\ ~Leaves
    <3>1. w[c].id \in Live
      BY <2>1, <2>3, LiveIs
    <3>2. obj \in Object
      BY <2>3, TypeOKIs
    <3>3. \/ ec2' = [ec2 EXCEPT ![w[c].id] = [obj EXCEPT !.rules = obj.rules \ w[c].revoke]]
          \/ /\ ec2' = [ec2 EXCEPT ![w[c].id] = [obj EXCEPT !.rules = obj.rules \cup w[c].authorize]]
             /\ w[c].authorize \subseteq Live
      BY <2>1, <2>3
    <3> HIDE DEF fewer, more
    <3>4. \E rules \in SUBSET (obj.rules \cup (w[c].authorize \cap Live)) :
            ec2' = [ec2 EXCEPT ![w[c].id] = [obj EXCEPT !.rules = rules]]
      <4>1. CASE ec2' = [ec2 EXCEPT ![w[c].id] = [obj EXCEPT !.rules = obj.rules \ w[c].revoke]]
        BY <4>1
      <4>2. CASE /\ ec2' = [ec2 EXCEPT ![w[c].id] = [obj EXCEPT !.rules = obj.rules \cup w[c].authorize]]
                 /\ w[c].authorize \subseteq Live
        BY <4>2
      <4> QED BY <3>3, <4>1, <4>2
    <3> QED BY <2>1, <2>3, <3>1, <3>4 DEF Changes
  <2> QED BY <2>2, <2>3
<1>5. CASE DeleteObject(c)
  BY <1>5 DEF DeleteObject, Go, Call, Leaves, Drops
<1> QED BY <1>2, <1>3, <1>4, <1>5 DEF Reconcile

Effect(c) == Leaves \/ Makes(c) \/ Changes(c) \/ Drops(c)

\* Which objects live afterwards, and for whom.
LEMMA LiveAfter ==
  ASSUME TypeOK, Objects, NEW c \in CRs, Effect(c)
  PROVE  /\ \/ nextId' = nextId /\ Live' \subseteq Live
            \/ /\ nextId \in Ids /\ nextId' = nextId + 1 /\ Live' = Live \cup {nextId}
               /\ nextId \notin Live /\ ec2'[nextId].of = c
         /\ \A i \in Live \cap Live' : ec2'[i].of = ec2[i].of
<1>1. ec2 \in [Ids -> Object] /\ nextId \in 1 .. MaxObjects + 1
  BY TypeOKIs
<1>2. CASE Leaves
  BY <1>2 DEF Leaves, Live
<1>3. CASE Makes(c)
  <2>1. PICK uses \in SUBSET Live :
          ec2' = [ec2 EXCEPT ![nextId] = [live |-> TRUE, of |-> c, uses |-> uses, rules |-> {}]]
    BY <1>3 DEF Makes
  <2>2. nextId \in Ids /\ nextId' = nextId + 1
    BY <1>3 DEF Makes
  <2>3. nextId \notin Live
    BY <1>1, <2>2 DEF Objects, Unused
  <2>4. ec2'[nextId].live /\ ec2'[nextId].of = c /\ \A i \in Ids \ {nextId} : ec2'[i] = ec2[i]
    BY <1>1, <2>1, <2>2
  <2>5. Live' = Live \cup {nextId}
    BY <2>2, <2>4 DEF Live
  <2> QED BY <2>2, <2>3, <2>4, <2>5, LiveIs
<1>4. CASE Changes(c)
  <2>1. PICK rules : ec2' = [ec2 EXCEPT ![w[c].id] = [@ EXCEPT !.rules = rules]]
    BY <1>4 DEF Changes
  <2>2. w[c].id \in Ids
    BY <1>4, LiveIs DEF Changes
  <2>3. ec2[w[c].id] \in Object
    BY <1>1, <2>2
  <2>4. \A i \in Ids : ec2'[i].live = ec2[i].live /\ ec2'[i].of = ec2[i].of
    BY <1>1, <2>1, <2>2, <2>3 DEF Object
  <2> QED BY <1>4, <2>4 DEF Live, Changes
<1>5. CASE Drops(c)
  <2>1. \A i \in Ids : ec2'[i] = ec2[i] \/ ec2'[i] = Gone
    BY <1>1, <1>5 DEF Drops
  <2>2. ~Gone.live
    BY DEF Gone
  <2> QED BY <1>5, <2>1, <2>2 DEF Live, Drops
<1> QED BY <1>2, <1>3, <1>4, <1>5 DEF Effect

LEMMA IntactAfter ==
  ASSUME TypeOK, Objects, NEW c \in CRs, Effect(c)
  PROVE  Intact'
<1>1. ec2 \in [Ids -> Object] /\ Intact
  BY TypeOKIs DEF Objects
<1>2. CASE Leaves
  BY <1>1, <1>2 DEF Leaves, Intact, Live
<1>3. CASE Makes(c)
  <2>1. PICK uses \in SUBSET Live :
          ec2' = [ec2 EXCEPT ![nextId] = [live |-> TRUE, of |-> c, uses |-> uses, rules |-> {}]]
    BY <1>3 DEF Makes
  <2>2. nextId \in Ids
    BY <1>3 DEF Makes
  <2>3. Live \subseteq Live' /\ Live' \subseteq Live \cup {nextId}
    BY <1>1, <2>1, <2>2 DEF Live
  <2>4. \A i \in Live' : i = nextId \/ (ec2'[i] = ec2[i] /\ i \in Live)
    <3>1. \A i \in Ids \ {nextId} : ec2'[i] = ec2[i]
      BY <1>1, <2>1, <2>2
    <3> QED BY <2>3, <3>1, LiveIs
  <2>5. ec2'[nextId].uses = uses /\ ec2'[nextId].rules = {}
    BY <1>1, <2>1, <2>2
  <2> QED BY <1>1, <2>3, <2>4, <2>5 DEF Intact
<1>4. CASE Changes(c)
  <2>1. PICK rules \in SUBSET (ec2[w[c].id].rules \cup (w[c].authorize \cap Live)) :
          ec2' = [ec2 EXCEPT ![w[c].id] = [@ EXCEPT !.rules = rules]]
    BY <1>4 DEF Changes
  <2>2. w[c].id \in Live /\ w[c].id \in Ids
    BY <1>4, LiveIs DEF Changes
  <2>3. ec2[w[c].id] \in Object
    BY <1>1, <2>2
  <2>4. /\ \A i \in Ids : ec2'[i].live = ec2[i].live /\ ec2'[i].uses = ec2[i].uses
        /\ \A i \in Ids \ {w[c].id} : ec2'[i].rules = ec2[i].rules
        /\ ec2'[w[c].id].rules = rules
    BY <1>1, <2>1, <2>2, <2>3 DEF Object
  <2>5. Live' = Live
    BY <2>4 DEF Live
  <2>6. rules \subseteq Live
    BY <1>1, <2>2 DEF Intact
  <2> QED BY <1>1, <2>2, <2>4, <2>5, <2>6, LiveIs DEF Intact
<1>5. CASE Drops(c)
  <2>1. /\ \A i \in Live \ {w[c].id} : ec2'[i] = ec2[i] /\ i \in Live'
        /\ Live' \subseteq Live \ {w[c].id}
    BY <1>1, <1>5 DEF Drops, Live, Gone
  <2>2. \A i \in Live \ {w[c].id} : w[c].id \notin ec2[i].uses \cup ec2[i].rules
    BY <1>5 DEF Drops, InUse
  <2> QED BY <1>1, <2>1, <2>2 DEF Intact
<1> QED BY <1>2, <1>3, <1>4, <1>5 DEF Effect

\* What a pass that is over, and one with rules to send, know.
LEMMA OverIs ==
  ASSUME NEW c \in CRs, NEW label
  PROVE  /\ Over(c, label).pc = label /\ Over(c, label).id = w[c].id
         /\ Over(c, label).ids = [r \in CRs |-> 0] /\ Over(c, label).spec = NoSpec
         /\ Over(c, label).revoke = {} /\ Over(c, label).authorize = {}
         /\ \A i : /\ [Over(c, label) EXCEPT !.id = i].pc = label
                   /\ [Over(c, label) EXCEPT !.id = i].id = i
                   /\ [Over(c, label) EXCEPT !.id = i].ids = [r \in CRs |-> 0]
                   /\ [Over(c, label) EXCEPT !.id = i].spec = NoSpec
                   /\ [Over(c, label) EXCEPT !.id = i].revoke = {}
                   /\ [Over(c, label) EXCEPT !.id = i].authorize = {}
BY DEF Over, IdleWorker

LEMMA SyncIs ==
  ASSUME NEW next \in Worker
  PROVE  /\ Sync(next).id = next.id /\ Sync(next).ids = next.ids
         /\ Sync(next).spec = next.spec /\ Sync(next).mode = next.mode
         /\ Sync(next).revoke = next.revoke /\ Sync(next).authorize = next.authorize
         /\ \/ Sync(next).pc = "sync"
            \/ Sync(next).pc = "delete" /\ next.mode = "delete"
            \/ /\ Sync(next).pc = "synced" /\ next.mode # "delete"
               /\ next.revoke = {} /\ next.authorize = {}
<1> DEFINE pc == IF next.revoke # {} \/ next.authorize # {} THEN "sync"
                 ELSE IF next.mode = "delete" THEN "delete" ELSE "synced"
<1>1. Sync(next) = [next EXCEPT !.pc = pc]
  BY DEF Sync
<1>2. \/ pc = "sync"
      \/ pc = "delete" /\ next.mode = "delete"
      \/ /\ pc = "synced" /\ next.mode # "delete"
         /\ next.revoke = {} /\ next.authorize = {}
  OBVIOUS
<1> HIDE DEF pc
<1>3. /\ Sync(next).id = next.id /\ Sync(next).ids = next.ids
      /\ Sync(next).spec = next.spec /\ Sync(next).mode = next.mode
      /\ Sync(next).revoke = next.revoke /\ Sync(next).authorize = next.authorize
      /\ Sync(next).pc = pc
  <2> DEFINE sent == [next EXCEPT !.pc = pc]
  <2>1. /\ sent.id = next.id /\ sent.ids = next.ids /\ sent.spec = next.spec
        /\ sent.mode = next.mode /\ sent.revoke = next.revoke
        /\ sent.authorize = next.authorize /\ sent.pc = pc
    BY DEF Worker
  <2> HIDE DEF sent
  <2>2. Sync(next) = sent
    BY <1>1 DEF sent
  <2> QED BY <2>1, <2>2
<1> QED BY <1>2, <1>3

\* Only the worker of c acts.
LEMMA OthersStay ==
  ASSUME TypeOK, NEW c \in CRs, Reconcile(c)
  PROVE  \A d \in CRs \ {c} : w'[d] = w[d] /\ cr'[d] = cr[d]
<1>1. w \in [CRs -> Worker] /\ cr \in [CRs -> CR]
  BY TypeOKIs
<1>2. \E next : w' = [w EXCEPT ![c] = next]
  <2>1. CASE ResolveReferences(c)
    BY <2>1 DEF ResolveReferences, Go
  <2>2. CASE sdkFind(c)
    BY <2>2 DEF sdkFind, NotFound, Go
  <2>3. CASE sdkCreate(c)
    BY <2>3 DEF sdkCreate
  <2>4. CASE deleteSecurityGroupRules(c)
    BY <2>4 DEF deleteSecurityGroupRules, Go, Call
  <2>5. CASE createSecurityGroupRules(c)
    BY <2>5 DEF createSecurityGroupRules, Go, Call
  <2>6. CASE DeleteObject(c)
    BY <2>6 DEF DeleteObject, Go, Call
  <2>7. CASE setResourceUnmanaged(c) \/ PatchStatus(c)
    BY <2>7 DEF setResourceUnmanaged, PatchStatus
  <2> QED BY <2>1, <2>2, <2>3, <2>4, <2>5, <2>6, <2>7 DEF Reconcile
<1>3. \A d \in CRs \ {c} : cr'[d] = cr[d]
  BY <1>1 DEF Reconcile, ResolveReferences, sdkFind, NotFound, sdkCreate, deleteSecurityGroupRules,
              createSecurityGroupRules, DeleteObject, setResourceUnmanaged, PatchStatus, Go, Call
<1> QED BY <1>1, <1>2, <1>3

\* Where the ids a worker holds come from.
LEMMA IdsAfter ==
  ASSUME TypeOK, NEW c \in CRs, Reconcile(c)
  PROVE  /\ cr'[c].id \in {cr[c].id, w[c].id}
         /\ \/ w'[c].id \in {0, w[c].id, cr[c].id}
            \/ w'[c].id \in Live /\ ec2[w'[c].id].of = c /\ Leaves
            \/ w'[c].id = nextId /\ nextId' = nextId + 1
         /\ \A r \in CRs : w'[c].ids[r] \in {0, w[c].ids[r], cr[r].id}
<1> DEFINE From(next) ==
             /\ next.id \in {0, w[c].id, cr[c].id}
             /\ \A r \in CRs : next.ids[r] \in {0, w[c].ids[r], cr[r].id}
<1>1. /\ w \in [CRs -> Worker] /\ cr \in [CRs -> CR]
      /\ w[c] \in Worker /\ cr[c] \in CR
  BY TypeOKIs
<1>2. From(IdleWorker) /\ \A label : From(Over(c, label))
  BY OverIs DEF IdleWorker
<1>3. cr'[c].id \in {cr[c].id, w[c].id}
  BY <1>1 DEF Reconcile, ResolveReferences, sdkFind, NotFound, sdkCreate, deleteSecurityGroupRules,
              createSecurityGroupRules, DeleteObject, setResourceUnmanaged, PatchStatus, Go, Call, CR
<1>4. CASE ResolveReferences(c)
  <2> DEFINE failing  == Unresolvable(c).groups \cup Unresolvable(c).awaited
             resolved == IF Unresolvable(c).groups # {} THEN {}
                         ELSE cr[c].spec.groups
                                \cup (IF failing = {} THEN cr[c].spec.awaited ELSE {})
             mode     == IF cr[c].phase = "live" THEN "update" ELSE "delete"
             pass     == [IdleWorker EXCEPT !.id = cr[c].id]
  <2>1. \/ w' = [w EXCEPT ![c] = [pass EXCEPT !.pc = "failed"]]
        \/ w' = [w EXCEPT ![c] = [pass EXCEPT
                   !.pc = "read", !.spec = cr[c].spec,
                   !.ids = [r \in CRs |-> IF r \in resolved THEN cr[r].id ELSE 0],
                   !.mode = mode]]
    BY <1>4 DEF ResolveReferences, Go
  <2> HIDE DEF resolved, mode
  <2>2. From(w'[c])
    <3>1. CASE w' = [w EXCEPT ![c] = [pass EXCEPT !.pc = "failed"]]
      BY <1>1, <3>1 DEF IdleWorker
    <3>2. CASE w' = [w EXCEPT ![c] = [pass EXCEPT
                       !.pc = "read", !.spec = cr[c].spec,
                       !.ids = [r \in CRs |-> IF r \in resolved THEN cr[r].id ELSE 0],
                       !.mode = mode]]
      BY <1>1, <3>2 DEF IdleWorker
    <3> QED BY <2>1, <3>1, <3>2
  <2> QED BY <1>3, <2>2
<1>5. CASE sdkFind(c)
  <2>1. CASE w'[c] = Over(c, "failed") \/ w'[c] = Over(c, "release") \/ w'[c] = IdleWorker
             \/ w'[c] = [w[c] EXCEPT !.pc = "create", !.mode = "create"]
    <3>1. From([w[c] EXCEPT !.pc = "create", !.mode = "create"])
      BY <1>1 DEF Worker
    <3> HIDE DEF From
    <3>2. From(w'[c])
      BY <1>2, <2>1, <3>1
    <3> QED BY <1>3, <3>2 DEF From
  <2>2. ASSUME NEW i \in IF w[c].id # 0 THEN {w[c].id} \cap Live ELSE getSecurityGroupID(c),
               w'[c] = sdkDelete(c, i) \/ w'[c] = customUpdateSecurityGroup(c, i), Leaves
        PROVE  /\ w'[c].id = i
               /\ \A r \in CRs : w'[c].ids[r] \in {0, w[c].ids[r]}
    <3>1. i \in Ids
      BY DEF getSecurityGroupID, Live
    <3>2. ec2[i] \in Object
      BY <3>1, TypeOKIs
    <3>3. sdkDelete(c, i).id = i /\ \A r \in CRs : sdkDelete(c, i).ids[r] = 0
      <4> DEFINE next == [Over(c, "delete") EXCEPT !.id = i, !.mode = "delete", !.revoke = ec2[i].rules]
      <4>1. Over(c, "delete") \in Worker /\ next \in Worker
        <5>1. Over(c, "delete") \in Worker
          BY OverType
        <5> QED BY <3>1, <3>2, <5>1 DEF Worker, Object
      <4>2. next.id = i /\ next.ids = Over(c, "delete").ids
        BY <4>1 DEF Worker
      <4>3. Over(c, "delete").ids = [r \in CRs |-> 0]
        BY OverIs
      <4>4. sdkDelete(c, i) = Sync(next)
        BY DEF sdkDelete
      <4> HIDE DEF next
      <4>5. sdkDelete(c, i).id = next.id /\ sdkDelete(c, i).ids = next.ids
        BY <4>1, <4>4, SyncIs
      <4> QED BY <4>2, <4>3, <4>5
    <3>4. customUpdateSecurityGroup(c, i).id = i
          /\ \A r \in CRs : customUpdateSecurityGroup(c, i).ids[r] \in {0, w[c].ids[r]}
      <4> DEFINE next == [w[c] EXCEPT !.id = i, !.revoke = ec2[i].rules \ Named(c),
                                      !.authorize = Named(c) \ ec2[i].rules]
      <4>1. next \in Worker /\ next.id = i /\ next.ids = w[c].ids
        BY <1>1, <3>1, <3>2, NamedType DEF Worker, Object
      <4>2. Sync(next).id = i /\ Sync(next).ids = w[c].ids
        BY <4>1, SyncIs
      <4>3. [w[c] EXCEPT !.pc = "synced", !.id = i].id = i
            /\ [w[c] EXCEPT !.pc = "synced", !.id = i].ids = w[c].ids
        BY <1>1 DEF Worker
      <4> HIDE DEF next
      <4>4. \/ customUpdateSecurityGroup(c, i) = [w[c] EXCEPT !.pc = "synced", !.id = i]
            \/ customUpdateSecurityGroup(c, i) = [Over(c, "unsynced") EXCEPT !.id = i]
            \/ customUpdateSecurityGroup(c, i) = Sync(next)
        BY DEF customUpdateSecurityGroup, next
      <4>5. /\ [Over(c, "unsynced") EXCEPT !.id = i].id = i
            /\ [Over(c, "unsynced") EXCEPT !.id = i].ids = [r \in CRs |-> 0]
        BY OverIs
      <4> QED BY <4>2, <4>3, <4>4, <4>5
    <3> QED BY <2>2, <3>3, <3>4
  <2>3. \/ w'[c] = Over(c, "failed") \/ w'[c] = Over(c, "release") \/ w'[c] = IdleWorker
        \/ w'[c] = [w[c] EXCEPT !.pc = "create", !.mode = "create"]
        \/ \E i \in IF w[c].id # 0 THEN {w[c].id} \cap Live ELSE getSecurityGroupID(c) :
             /\ w'[c] = sdkDelete(c, i) \/ w'[c] = customUpdateSecurityGroup(c, i)
             /\ Leaves
    BY <1>1, <1>5 DEF sdkFind, NotFound, Go, Leaves
  <2> QED BY <1>3, <2>1, <2>2, <2>3 DEF getSecurityGroupID
<1>6. CASE sdkCreate(c)
  <2> DEFINE created == [w[c] EXCEPT !.id = nextId]
             named   == [created EXCEPT !.authorize = Named(c)]
  <2>1. \/ w'[c] = Over(c, "failed")
        \/ /\ nextId \in Ids /\ nextId' = nextId + 1
           /\ w'[c] = Sync(named) \/ w'[c] = [Over(c, "unsynced") EXCEPT !.id = nextId]
    BY <1>1, <1>6 DEF sdkCreate
  <2>2. ASSUME nextId \in Ids
        PROVE  Sync(named).id = nextId /\ Sync(named).ids = w[c].ids
    <3>1. named \in Worker /\ named.id = nextId /\ named.ids = w[c].ids
      BY <1>1, <2>2, NamedType DEF Worker
    <3> QED BY <3>1, SyncIs
  <2>3. /\ [Over(c, "unsynced") EXCEPT !.id = nextId].id = nextId
        /\ [Over(c, "unsynced") EXCEPT !.id = nextId].ids = [r \in CRs |-> 0]
        /\ From(Over(c, "failed"))
    BY <1>2, OverIs
  <2> HIDE DEF named
  <2>4. CASE w'[c] = Over(c, "failed")
    BY <1>3, <2>3, <2>4
  <2>5. CASE nextId' = nextId + 1 /\ w'[c].id = nextId /\ \A r \in CRs : w'[c].ids[r] \in {0, w[c].ids[r]}
    BY <1>3, <2>5
  <2> QED BY <2>1, <2>2, <2>3, <2>4, <2>5
<1>7. CASE deleteSecurityGroupRules(c) \/ createSecurityGroupRules(c)
  <2> DEFINE revoked == [w[c] EXCEPT !.revoke = {}]
             granted == [w[c] EXCEPT !.authorize = {}]
  <2>1. From(Sync(revoked)) /\ From(Sync(granted))
    <3>1. /\ revoked \in Worker /\ revoked.id = w[c].id /\ revoked.ids = w[c].ids
          /\ granted \in Worker /\ granted.id = w[c].id /\ granted.ids = w[c].ids
      BY <1>1 DEF Worker
    <3> QED BY <3>1, SyncIs
  <2>2. w'[c] = Over(c, "failed") \/ w'[c] = Sync(revoked) \/ w'[c] = Sync(granted)
    BY <1>1, <1>7 DEF deleteSecurityGroupRules, createSecurityGroupRules, Go, Call
  <2> HIDE DEF From
  <2>3. From(w'[c])
    BY <1>2, <2>1, <2>2
  <2> QED BY <1>3, <2>3 DEF From
<1>8. CASE DeleteObject(c) \/ setResourceUnmanaged(c) \/ PatchStatus(c)
  <2>1. \/ w'[c] = IdleWorker \/ w'[c] = Over(c, "failed") \/ w'[c] = Over(c, "release")
    BY <1>1, <1>8 DEF DeleteObject, setResourceUnmanaged, PatchStatus, Go, Call
  <2> HIDE DEF From
  <2>2. From(w'[c])
    BY <1>2, <2>1
  <2> QED BY <1>3, <2>2 DEF From
<1> QED BY <1>4, <1>5, <1>6, <1>7, <1>8 DEF Reconcile

LEMMA BelongsAfter ==
  ASSUME TypeOK, Objects, NEW c \in CRs, Effect(c), NEW r \in CRs, NEW i \in Ids \cup {0},
         Belongs(i, r)
  PROVE  i < nextId' /\ (i \in Live' => ec2'[i].of = r)
<1>1. nextId \in Int /\ i \in Int
  BY TypeOKIs, ReferencesAssumption DEF Ids
<1>2. i < nextId /\ (i \in Live => ec2[i].of = r)
  BY DEF Belongs
<1>3. CASE nextId' = nextId /\ Live' \subseteq Live
  BY <1>2, <1>3, LiveAfter
<1>4. CASE nextId' = nextId + 1 /\ Live' = Live \cup {nextId}
  <2>1. i < nextId'
    BY <1>1, <1>2, <1>4
  <2>2. i # nextId
    BY <1>1, <1>2
  <2>3. \A j \in Live \cap Live' : ec2'[j].of = ec2[j].of
    BY LiveAfter
  <2> QED BY <1>2, <1>4, <2>1, <2>2, <2>3
<1> QED BY <1>3, <1>4, LiveAfter

LEMMA LiveIsOld ==
  ASSUME TypeOK, Objects
  PROVE  \A i \in Live : i < nextId
<1> SUFFICES ASSUME NEW i \in Live PROVE i < nextId
  OBVIOUS
<1>1. nextId \in Int /\ Ids \subseteq Int
  BY TypeOKIs, ReferencesAssumption DEF Ids
<1>2. i \in Ids /\ ~(i >= nextId)
  BY LiveIs DEF Objects, Unused
<1> QED BY <1>1, <1>2

LEMMA ReconcileObjects ==
  ASSUME TypeOK, Objects, NEW c \in CRs, Reconcile(c)
  PROVE  Objects'
<1>1. Effect(c)
  BY EffectOf DEF Effect
<1>2. \A d \in CRs : cr[d] \in CR /\ w[d] \in Worker /\ Held(d)
  BY TypeOKIs DEF Objects
<1>3. \A d \in CRs : cr[d].id \in Ids \cup {0} /\ w[d].id \in Ids \cup {0}
                     /\ \A r \in CRs : w[d].ids[r] \in Ids \cup {0}
  BY <1>2 DEF CR, Worker
<1>4. 0 < nextId' /\ 0 \notin Live'
  <2>1. nextId' \in 1 .. MaxObjects + 1
    BY NextType, TypeOKWillBe DEF Next
  <2> QED BY <2>1, ReferencesAssumption DEF Live, Ids
<1> DEFINE Held0(i, r) == i < nextId' /\ (i \in Live' => ec2'[i].of = r)
<1>5. /\ \A r \in CRs : Held0(0, r)
      /\ \A d \in CRs : Held0(cr[d].id, d) /\ Held0(w[d].id, d)
                       /\ \A r \in CRs : Held0(w[d].ids[r], r)
  BY <1>1, <1>2, <1>3, <1>4, BelongsAfter DEF Held
<1>6. ASSUME NEW d \in CRs PROVE Held(d)'
  <2>1. CASE d # c
    BY <1>5, <2>1, OthersStay DEF Held, Belongs
  <2>2. CASE d = c
    <3>1. Held0(cr'[c].id, c)
      BY <1>5, IdsAfter
    <3>2. \A r \in CRs : Held0(w'[c].ids[r], r)
      BY <1>5, IdsAfter
    <3>3. Held0(w'[c].id, c)
      <4>1. CASE w'[c].id \in {0, w[c].id, cr[c].id}
        BY <1>5, <4>1
      <4>2. CASE w'[c].id \in Live /\ ec2[w'[c].id].of = c /\ Leaves
        <5>1. w'[c].id < nextId
          BY <4>2, LiveIsOld
        <5> QED BY <4>2, <5>1 DEF Leaves, Live
      <4>3. CASE w'[c].id = nextId /\ nextId' = nextId + 1
        <5>1. nextId \in Int
          BY TypeOKIs, ReferencesAssumption
        <5>2. nextId \in Live' => ec2'[nextId].of = c
          BY <1>1, <4>3, <5>1, LiveAfter
        <5> QED BY <4>3, <5>1, <5>2
      <4> QED BY <4>1, <4>2, <4>3, IdsAfter
    <3> QED BY <2>2, <3>1, <3>2, <3>3 DEF Held, Belongs
  <2> QED BY <2>1, <2>2
<1>7. Unused'
  <2>1. nextId \in Int /\ Ids \subseteq Int
    BY TypeOKIs, ReferencesAssumption DEF Ids
  <2>2. ASSUME NEW i \in Ids, i >= nextId' PROVE i \notin Live'
    BY <1>1, <2>1, <2>2, LiveAfter DEF Objects, Unused
  <2> QED BY <2>2 DEF Unused, Ids
<1>8. Intact'
  BY <1>1, IntactAfter
<1> QED BY <1>6, <1>7, <1>8 DEF Objects

LEMMA InitObjects == Init => Objects
<1> SUFFICES ASSUME Init PROVE Objects
  OBVIOUS
<1>1. Live = {}
  BY DEF Init, Live, Gone
<1>2. \A c \in CRs : cr[c].id = 0 /\ w[c].id = 0 /\ \A r \in CRs : w[c].ids[r] = 0
  BY DEF Init, NewCR, IdleWorker
<1>3. nextId = 1
  BY DEF Init
<1> QED BY <1>1, <1>2, <1>3 DEF Objects, Held, Belongs, Unused, Intact

LEMMA NextObjects == TypeOK /\ Objects /\ [Next]_vars => Objects'
<1> SUFFICES ASSUME TypeOK, Objects, [Next]_vars PROVE Objects'
  OBVIOUS
<1>1. 0 < nextId /\ 0 \notin Live /\ cr \in [CRs -> CR]
  BY TypeOKIs, ReferencesAssumption DEF Live, Ids
<1>2. ASSUME UNCHANGED <<ec2, nextId>>,
             \A d \in CRs : cr'[d].id \in {0, cr[d].id},
             \A d \in CRs : w'[d] = w[d] \/ w'[d] = IdleWorker
      PROVE  Objects'
  <2>1. Live' = Live
    BY <1>2 DEF Live
  <2>2. ASSUME NEW d \in CRs PROVE Held(d)'
    <3>1. IdleWorker.id = 0 /\ \A r \in CRs : IdleWorker.ids[r] = 0
      BY DEF IdleWorker
    <3>2. Held(d)
      BY DEF Objects
    <3> QED BY <1>1, <1>2, <2>1, <3>1, <3>2 DEF Held, Belongs
  <2>3. Unused' /\ Intact'
    BY <1>2, <2>1 DEF Objects, Unused, Intact
  <2> QED BY <2>2, <2>3 DEF Objects
<1>3. ASSUME NEW c \in CRs, EditSpec(c) \/ DeleteCR(c) \/ RecreateCR(c) PROVE Objects'
  <2>1. \A d \in CRs : cr'[d].id \in {0, cr[d].id}
    <3>1. CASE EditSpec(c)
      BY <1>1, <1>3, <3>1 DEF EditSpec, CR
    <3>2. CASE DeleteCR(c)
      BY <1>1, <1>3, <3>2 DEF DeleteCR, CR
    <3>3. CASE RecreateCR(c)
      BY <1>1, <1>3, <3>3 DEF RecreateCR, NewCR
    <3> QED BY <1>3, <3>1, <3>2, <3>3
  <2> QED BY <1>2, <1>3, <2>1 DEF EditSpec, DeleteCR, RecreateCR
<1>4. CASE Crash
  BY <1>2, <1>4 DEF Crash
<1>5. CASE UNCHANGED vars
  BY <1>2, <1>5 DEF vars
<1> QED BY <1>3, <1>4, <1>5, ReconcileObjects DEF Next

----------------------------------------------------------------------------
(* What is sent.  While a pass sends rules, what EC2 has of them without   *)
(* the ones to revoke and with the ones to authorize is what is declared.  *)
(* An unresolved reference reads as one of the group to itself: no group   *)
(* has such a rule, if no spec declares one, so that it is never taken for *)
(* the one declared.                                                       *)

NoSelfReference == \A c \in CRs : \A spec \in Specs[c] : c \notin spec.groups

Means(next) == {next.ids[g] : g \in next.spec.groups}

Shape(c, next) ==
  /\ next.spec \in Specs[c] \cup {NoSpec}
  /\ next.authorize \subseteq Means(next) \ {0}
  /\ next.pc \in {"read", "create", "synced"} => next.revoke = {} /\ next.authorize = {}
  /\ next.pc = "create" => next.mode = "create"
  /\ next.pc = "synced" => next.mode # "delete"

Sends(next, rules) ==
  next.pc \in {"sync", "synced"} /\ next.mode # "delete" =>
    0 \notin Means(next) /\ (rules \ next.revoke) \cup next.authorize = Means(next)

Sent(c) == Shape(c, w[c]) /\ (w[c].id \in Live => Sends(w[c], ec2[w[c].id].rules))

NoSelfRule == \A i \in Live : i \notin ec2[i].rules

Exact == (\A c \in CRs : Sent(c)) /\ NoSelfRule

LEMMA NamedIs ==
  ASSUME NEW c
  PROVE  /\ Named(c) = Means(w[c]) \ {0}
         /\ referencesResolved(c) <=> 0 \notin Means(w[c])
BY DEF Named, Means, referencesResolved

\* A pass that is over sends nothing.
LEMMA OverFits ==
  ASSUME NEW c \in CRs, NEW label \in {"release", "failed", "unsynced", "delete"}
  PROVE  /\ Shape(c, Over(c, label)) /\ \A rules : Sends(Over(c, label), rules)
         /\ \A i : /\ Shape(c, [Over(c, label) EXCEPT !.id = i])
                   /\ \A rules : Sends([Over(c, label) EXCEPT !.id = i], rules)
BY OverIs DEF Shape, Sends

LEMMA IdleFits ==
  ASSUME NEW c \in CRs
  PROVE  Shape(c, IdleWorker) /\ \A rules : Sends(IdleWorker, rules)
BY DEF IdleWorker, Shape, Sends

LEMMA ShapeOfSync ==
  ASSUME NEW c \in CRs, NEW next \in Worker,
         next.spec \in Specs[c] \cup {NoSpec},
         next.authorize \subseteq Means(next) \ {0}
  PROVE  Shape(c, Sync(next))
<1>1. Means(Sync(next)) = Means(next)
  BY SyncIs DEF Means
<1> QED BY <1>1, SyncIs DEF Shape

LEMMA SyncFits ==
  ASSUME NEW c \in CRs, NEW next \in Worker, NEW rules,
         next.spec \in Specs[c] \cup {NoSpec},
         next.authorize \subseteq Means(next) \ {0},
         next.mode # "delete" =>
           0 \notin Means(next) /\ (rules \ next.revoke) \cup next.authorize = Means(next)
  PROVE  Shape(c, Sync(next)) /\ Sends(Sync(next), rules)
<1>1. Means(Sync(next)) = Means(next)
  BY SyncIs DEF Means
<1>2. Shape(c, Sync(next))
  BY ShapeOfSync
<1>3. Sends(Sync(next), rules)
  BY <1>1, SyncIs DEF Sends
<1> QED BY <1>2, <1>3

\* The object in the hand of another worker stays as it is.
LEMMA OthersObjects ==
  ASSUME TypeOK, Objects, NEW c \in CRs, Effect(c), NEW d \in CRs \ {c}, w[d].id \in Live'
  PROVE  w[d].id \in Live /\ ec2'[w[d].id] = ec2[w[d].id]
<1>1. ec2 \in [Ids -> Object] /\ w[d] \in Worker /\ nextId \in Int
  BY TypeOKIs, ReferencesAssumption
<1>2. w[d].id \in Ids /\ w[d].id < nextId /\ Ids \subseteq Int
  BY ReferencesAssumption DEF Live, Objects, Held, Belongs, Ids
<1>3. w[d].id # nextId
  BY <1>1, <1>2
<1>4. w[d].id \in Live
  BY <1>3, LiveAfter
<1>5. w[c].id \in Live => w[c].id # w[d].id
  BY <1>4 DEF Objects, Held, Belongs
<1>6. CASE Leaves
  BY <1>4, <1>6 DEF Leaves
<1>7. CASE Makes(c)
  BY <1>1, <1>2, <1>3, <1>4, <1>7 DEF Makes
<1>8. CASE Changes(c)
  BY <1>1, <1>2, <1>4, <1>5, <1>8 DEF Changes
<1>9. CASE Drops(c)
  BY <1>1, <1>2, <1>4, <1>5, <1>9 DEF Drops
<1> QED BY <1>6, <1>7, <1>8, <1>9 DEF Effect

\* A group is never authorized to itself: what a GroupRef means was made for the CR
\* referred to, which is another one.
LEMMA NoSelfRuleAfter ==
  ASSUME TypeOK, Objects, Exact, NoSelfReference, NEW c \in CRs, Effect(c)
  PROVE  NoSelfRule'
<1>1. ec2 \in [Ids -> Object] /\ w[c] \in Worker
  BY TypeOKIs
<1>2. w[c].id \in Live => w[c].id \notin w[c].authorize
  <2> SUFFICES ASSUME w[c].id \in Live, w[c].id \in w[c].authorize PROVE FALSE
    OBVIOUS
  <2>1. PICK g \in w[c].spec.groups : w[c].id = w[c].ids[g]
    BY DEF Exact, Sent, Shape, Means
  <2>2. g \in CRs
    BY <1>1, <2>1, RefersToCRs DEF Worker
  <2>3. g = c
    BY <2>1, <2>2 DEF Objects, Held, Belongs
  <2>4. w[c].spec \in Specs[c]
    BY <2>1 DEF Exact, Sent, Shape, NoSpec
  <2> QED BY <2>1, <2>3, <2>4 DEF NoSelfReference
<1>3. CASE Leaves
  BY <1>3 DEF Leaves, Exact, NoSelfRule, Live
<1>4. CASE Makes(c)
  <2>1. /\ nextId \in Ids /\ ec2'[nextId].rules = {}
        /\ \A i \in Ids \ {nextId} : ec2'[i] = ec2[i]
    BY <1>1, <1>4 DEF Makes
  <2> QED BY <2>1 DEF Exact, NoSelfRule, Live
<1>5. CASE Changes(c)
  <2>1. PICK rules \in SUBSET (ec2[w[c].id].rules \cup (w[c].authorize \cap Live)) :
          ec2' = [ec2 EXCEPT ![w[c].id] = [@ EXCEPT !.rules = rules]]
    BY <1>5 DEF Changes
  <2>2. w[c].id \in Live /\ w[c].id \in Ids
    BY <1>5, LiveIs DEF Changes
  <2>3. ec2[w[c].id] \in Object
    BY <1>1, <2>2
  <2>4. /\ \A i \in Ids \ {w[c].id} : ec2'[i] = ec2[i]
        /\ ec2'[w[c].id].rules = rules
    BY <1>1, <2>1, <2>2, <2>3 DEF Object
  <2>5. w[c].id \notin rules
    BY <1>2, <2>2 DEF Exact, NoSelfRule
  <2> QED BY <2>4, <2>5 DEF Exact, NoSelfRule, Live
<1>6. CASE Drops(c)
  <2>1. \A i \in Ids : ec2'[i] = ec2[i] \/ ec2'[i] = Gone
    BY <1>1, <1>6 DEF Drops
  <2>2. ~Gone.live
    BY DEF Gone
  <2> QED BY <2>1, <2>2 DEF Exact, NoSelfRule, Live
<1> QED BY <1>3, <1>4, <1>5, <1>6 DEF Effect

\* A pass that finds its group.
LEMMA UpdateFits ==
  ASSUME TypeOK, Exact, NEW c \in CRs, At(c, "read"), w[c].mode # "delete", NEW i \in Live
  PROVE  LET next == customUpdateSecurityGroup(c, i)
         IN  Shape(c, next) /\ Sends(next, ec2[i].rules)
<1> DEFINE same == [w[c] EXCEPT !.pc = "synced", !.id = i]
           sent == [w[c] EXCEPT !.id = i, !.revoke = ec2[i].rules \ Named(c),
                                !.authorize = Named(c) \ ec2[i].rules]
<1>1. w[c] \in Worker /\ i \in Ids /\ ec2[i] \in Object
  BY LiveIs, TypeOKIs
<1>2. /\ w[c].spec \in Specs[c] \cup {NoSpec}
      /\ w[c].revoke = {} /\ w[c].authorize = {}
  BY DEF Exact, Sent, Shape, At
<1>3. i \notin ec2[i].rules
  BY DEF Exact, NoSelfRule
<1>4. CASE Canonical(c, i) = ec2[i].rules
  <2>1. \A g \in w[c].spec.groups : w[c].ids[g] # 0
    BY <1>3, <1>4 DEF Canonical
  <2>2. 0 \notin Means(w[c]) /\ ec2[i].rules = Means(w[c])
    BY <1>4, <2>1 DEF Canonical, Means
  <2>3. /\ same.spec = w[c].spec /\ same.ids = w[c].ids /\ same.mode = w[c].mode
        /\ same.revoke = {} /\ same.authorize = {} /\ same.pc = "synced"
    BY <1>1, <1>2 DEF Worker
  <2> HIDE DEF same
  <2>4. Means(same) = Means(w[c])
    BY <2>3 DEF Means
  <2>5. Shape(c, same) /\ Sends(same, ec2[i].rules)
    BY <1>2, <2>2, <2>3, <2>4 DEF Shape, Sends
  <2> QED BY <1>4, <2>5 DEF customUpdateSecurityGroup, same
<1>5. CASE Canonical(c, i) # ec2[i].rules /\ ~referencesResolved(c)
  BY <1>5, OverFits DEF customUpdateSecurityGroup
<1>6. CASE Canonical(c, i) # ec2[i].rules /\ referencesResolved(c)
  <2>1. sent \in Worker
    BY <1>1, NamedType DEF Worker, Object
  <2>2. /\ sent.spec = w[c].spec /\ sent.ids = w[c].ids
        /\ sent.revoke = ec2[i].rules \ Named(c) /\ sent.authorize = Named(c) \ ec2[i].rules
    BY <1>1 DEF Worker
  <2> HIDE DEF sent
  <2>3. Means(sent) = Named(c) /\ 0 \notin Named(c)
    BY <1>6, <2>2, NamedIs DEF Means
  <2>4. Shape(c, Sync(sent)) /\ Sends(Sync(sent), ec2[i].rules)
    BY <1>2, <2>1, <2>2, <2>3, SyncFits
  <2> QED BY <1>6, <2>4 DEF customUpdateSecurityGroup, sent
<1> QED BY <1>4, <1>5, <1>6

LEMMA DeleteFits ==
  ASSUME TypeOK, NEW c \in CRs, NEW i \in Live
  PROVE  Shape(c, sdkDelete(c, i)) /\ \A rules : Sends(sdkDelete(c, i), rules)
<1> DEFINE next == [Over(c, "delete") EXCEPT !.id = i, !.mode = "delete", !.revoke = ec2[i].rules]
<1>1. Over(c, "delete") \in Worker /\ i \in Ids /\ ec2[i] \in Object
  BY LiveIs, OverType, TypeOKIs
<1>2. next \in Worker
  BY <1>1 DEF Worker, Object
<1>3. /\ next.spec = Over(c, "delete").spec /\ next.mode = "delete"
      /\ next.authorize = Over(c, "delete").authorize
  BY <1>1 DEF Worker
<1> HIDE DEF next
<1>4. next.spec = NoSpec /\ next.authorize = {}
  BY <1>3, OverIs
<1>5. \A rules : Shape(c, Sync(next)) /\ Sends(Sync(next), rules)
  BY <1>2, <1>3, <1>4, SyncFits
<1> QED BY <1>5 DEF sdkDelete, next

\* A pass that found its group has its id in hand.
LEMMA UpdateId ==
  ASSUME TypeOK, NEW c \in CRs, NEW i \in Ids
  PROVE  customUpdateSecurityGroup(c, i).id = i
<1> DEFINE same == [w[c] EXCEPT !.pc = "synced", !.id = i]
           sent == [w[c] EXCEPT !.id = i, !.revoke = ec2[i].rules \ Named(c),
                                !.authorize = Named(c) \ ec2[i].rules]
<1>1. w[c] \in Worker /\ ec2[i] \in Object
  BY TypeOKIs
<1>2. sent \in Worker /\ sent.id = i /\ same.id = i
  BY <1>1, NamedType DEF Worker, Object
<1> HIDE DEF same, sent
<1>3. Sync(sent).id = i /\ [Over(c, "unsynced") EXCEPT !.id = i].id = i
  BY <1>2, SyncIs, OverIs
<1> QED BY <1>2, <1>3 DEF customUpdateSecurityGroup, same, sent

LEMMA FindSent ==
  ASSUME TypeOK, Exact, NEW c \in CRs, sdkFind(c)
  PROVE  /\ Shape(c, w'[c])
         /\ w'[c].id \in Live' => Sends(w'[c], ec2'[w'[c].id].rules)
<1> DEFINE found  == IF w[c].id # 0 THEN {w[c].id} \cap Live ELSE getSecurityGroupID(c)
           create == [w[c] EXCEPT !.pc = "create", !.mode = "create"]
<1>1. w[c] \in Worker /\ Shape(c, w[c]) /\ w[c].pc = "read" /\ w \in [CRs -> Worker]
  BY TypeOKIs DEF Exact, Sent, sdkFind, At
<1>2. \/ w'[c] \in {Over(c, "failed"), Over(c, "release"), IdleWorker, create}
      \/ \E i \in found : /\ UNCHANGED ec2
                         /\ \/ w'[c] = sdkDelete(c, i)
                            \/ w[c].mode # "delete" /\ w'[c] = customUpdateSecurityGroup(c, i)
  BY <1>1 DEF sdkFind, NotFound, Go
<1>3. Shape(c, create) /\ \A rules : Sends(create, rules)
  <2>1. /\ create.spec = w[c].spec /\ create.ids = w[c].ids /\ create.pc = "create"
        /\ create.revoke = w[c].revoke /\ create.authorize = w[c].authorize
        /\ create.mode = "create"
    BY <1>1 DEF Worker
  <2> HIDE DEF create
  <2> QED BY <1>1, <2>1 DEF Shape, Sends, Means
<1> HIDE DEF create
<1>4. CASE w'[c] \in {Over(c, "failed"), Over(c, "release"), IdleWorker, create}
  BY <1>3, <1>4, OverFits, IdleFits
<1>5. ASSUME NEW i \in found, UNCHANGED ec2, w'[c] = sdkDelete(c, i)
      PROVE  Shape(c, w'[c]) /\ \A rules : Sends(w'[c], rules)
  <2>1. i \in Live
    BY DEF getSecurityGroupID
  <2> QED BY <1>5, <2>1, DeleteFits
<1>6. ASSUME NEW i \in found, UNCHANGED ec2, w[c].mode # "delete",
             w'[c] = customUpdateSecurityGroup(c, i)
      PROVE  Shape(c, w'[c]) /\ Sends(w'[c], ec2'[w'[c].id].rules)
  <2>1. i \in Live /\ i \in Ids
    BY LiveIs DEF getSecurityGroupID
  <2>2. Shape(c, w'[c]) /\ Sends(w'[c], ec2[i].rules)
    BY <1>1, <1>6, <2>1, UpdateFits DEF At
  <2>3. w'[c].id = i
    BY <1>6, <2>1, UpdateId
  <2> QED BY <1>6, <2>2, <2>3
<1> HIDE DEF found
<1> QED BY <1>2, <1>4, <1>5, <1>6

LEMMA CreateSent ==
  ASSUME TypeOK, Exact, NEW c \in CRs, sdkCreate(c)
  PROVE  /\ Shape(c, w'[c])
         /\ w'[c].id \in Live' => Sends(w'[c], ec2'[w'[c].id].rules)
<1> DEFINE uses    == {w[c].ids[r] : r \in w[c].spec.awaited}
           obj     == [live |-> TRUE, of |-> c, uses |-> uses, rules |-> {}]
           created == [w[c] EXCEPT !.id = nextId]
           named   == [created EXCEPT !.authorize = Named(c)]
<1>1. /\ w[c] \in Worker /\ Shape(c, w[c]) /\ w[c].pc = "create"
      /\ w \in [CRs -> Worker] /\ ec2 \in [Ids -> Object]
  BY TypeOKIs DEF Exact, Sent, sdkCreate, At
<1> HIDE DEF uses
<1>2. \/ w'[c] = Over(c, "failed")
      \/ w'[c] = [Over(c, "unsynced") EXCEPT !.id = nextId]
      \/ /\ nextId \in Ids /\ referencesResolved(c)
         /\ ec2' = [ec2 EXCEPT ![nextId] = obj] /\ w'[c] = Sync(named)
  BY <1>1 DEF sdkCreate, uses
<1>3. CASE w'[c] = Over(c, "failed") \/ w'[c] = [Over(c, "unsynced") EXCEPT !.id = nextId]
  BY <1>3, OverFits
<1>4. CASE /\ nextId \in Ids /\ referencesResolved(c)
           /\ ec2' = [ec2 EXCEPT ![nextId] = obj] /\ w'[c] = Sync(named)
  <2>1. named \in Worker
    BY <1>1, <1>4, NamedType DEF Worker
  <2>2. /\ named.id = nextId /\ named.spec = w[c].spec /\ named.ids = w[c].ids
        /\ named.authorize = Named(c) /\ named.revoke = w[c].revoke
    BY <1>1 DEF Worker
  <2> HIDE DEF named
  <2>3. ec2'[nextId].rules = {}
    BY <1>1, <1>4
  <2>4. Means(named) = Named(c) /\ 0 \notin Named(c)
    BY <1>4, <2>2, NamedIs DEF Means
  <2>5. named.spec \in Specs[c] \cup {NoSpec}
    BY <1>1, <2>2 DEF Shape
  <2>6. ({} \ named.revoke) \cup named.authorize = Means(named)
    BY <2>2, <2>4
  <2>7. Shape(c, Sync(named)) /\ Sends(Sync(named), {}) /\ Sync(named).id = nextId
    BY <2>1, <2>2, <2>4, <2>5, <2>6, SyncFits, SyncIs
  <2> QED BY <1>4, <2>3, <2>7
<1> QED BY <1>2, <1>3, <1>4

LEMMA RulesSent ==
  ASSUME TypeOK, Exact, NEW c \in CRs, deleteSecurityGroupRules(c) \/ createSecurityGroupRules(c)
  PROVE  /\ Shape(c, w'[c])
         /\ w'[c].id \in Live' => Sends(w'[c], ec2'[w'[c].id].rules)
<1> DEFINE obj     == ec2[w[c].id]
           fewer   == [obj EXCEPT !.rules = @ \ w[c].revoke]
           more    == [obj EXCEPT !.rules = @ \cup w[c].authorize]
           revoked == [w[c] EXCEPT !.revoke = {}]
           granted == [w[c] EXCEPT !.authorize = {}]
<1>1. /\ w[c] \in Worker /\ Shape(c, w[c]) /\ w[c].pc = "sync"
      /\ w[c].id \in Live => Sends(w[c], obj.rules)
      /\ w \in [CRs -> Worker] /\ ec2 \in [Ids -> Object]
  BY TypeOKIs DEF Exact, Sent, deleteSecurityGroupRules, createSecurityGroupRules, At
<1>2. \/ w'[c] = Over(c, "failed")
      \/ obj.live /\ ec2' = [ec2 EXCEPT ![w[c].id] = fewer] /\ w'[c] = Sync(revoked)
      \/ /\ obj.live /\ w[c].revoke = {}
         /\ ec2' = [ec2 EXCEPT ![w[c].id] = more] /\ w'[c] = Sync(granted)
  BY <1>1 DEF deleteSecurityGroupRules, createSecurityGroupRules, Go, Call
<1>3. CASE w'[c] = Over(c, "failed")
  BY <1>3, OverFits
<1>4. /\ revoked \in Worker /\ revoked.id = w[c].id /\ revoked.mode = w[c].mode
      /\ revoked.spec = w[c].spec /\ revoked.ids = w[c].ids
      /\ revoked.revoke = {} /\ revoked.authorize = w[c].authorize
      /\ granted \in Worker /\ granted.id = w[c].id /\ granted.mode = w[c].mode
      /\ granted.spec = w[c].spec /\ granted.ids = w[c].ids
      /\ granted.revoke = w[c].revoke /\ granted.authorize = {}
  BY <1>1 DEF Worker
<1> HIDE DEF revoked, granted
<1>5. Means(revoked) = Means(w[c]) /\ Means(granted) = Means(w[c])
  BY <1>4 DEF Means
<1>6. /\ w[c].spec \in Specs[c] \cup {NoSpec} /\ w[c].authorize \subseteq Means(w[c]) \ {0}
      /\ w[c].id \in Live /\ w[c].mode # "delete" =>
           /\ 0 \notin Means(w[c])
           /\ (obj.rules \ w[c].revoke) \cup w[c].authorize = Means(w[c])
  BY <1>1 DEF Shape, Sends
<1>7. Sync(revoked).id = w[c].id /\ Sync(granted).id = w[c].id
  BY <1>4, SyncIs
<1>8. CASE w[c].id \notin Ids /\ w'[c] \in {Sync(revoked), Sync(granted)}
  <2>1. \A rules : Sends(w'[c], rules) \/ w'[c].id \notin Live'
    BY <1>7, <1>8 DEF Live, Ids
  <2>2. Shape(c, Sync(revoked)) /\ Shape(c, Sync(granted))
    BY <1>4, <1>5, <1>6, ShapeOfSync
  <2> QED BY <1>8, <2>1, <2>2
<1>9. CASE /\ w[c].id \in Ids /\ obj.live
           /\ ec2' = [ec2 EXCEPT ![w[c].id] = fewer] /\ w'[c] = Sync(revoked)
  <2>1. obj \in Object /\ w[c].id \in Live
    BY <1>1, <1>9, LiveIs
  <2>2. ec2'[w[c].id].rules = obj.rules \ w[c].revoke
    BY <1>1, <1>9, <2>1 DEF Object
  <2>3. Shape(c, Sync(revoked)) /\ Sends(Sync(revoked), obj.rules \ w[c].revoke)
    <3>1. ((obj.rules \ w[c].revoke) \ revoked.revoke) \cup revoked.authorize
            = (obj.rules \ w[c].revoke) \cup w[c].authorize
      BY <1>4
    <3> HIDE DEF obj
    <3> QED BY <1>4, <1>5, <1>6, <2>1, <3>1, SyncFits
  <2> QED BY <1>7, <1>9, <2>2, <2>3
<1>10. CASE /\ w[c].id \in Ids /\ obj.live /\ w[c].revoke = {}
            /\ ec2' = [ec2 EXCEPT ![w[c].id] = more] /\ w'[c] = Sync(granted)
  <2>1. obj \in Object /\ w[c].id \in Live
    BY <1>1, <1>10, LiveIs
  <2>2. ec2'[w[c].id].rules = obj.rules \cup w[c].authorize
    BY <1>1, <1>10, <2>1 DEF Object
  <2>3. Shape(c, Sync(granted)) /\ Sends(Sync(granted), obj.rules \cup w[c].authorize)
    <3>1. ((obj.rules \cup w[c].authorize) \ granted.revoke) \cup granted.authorize
            = (obj.rules \ w[c].revoke) \cup w[c].authorize
      BY <1>4, <1>10
    <3> HIDE DEF obj
    <3> QED BY <1>4, <1>5, <1>6, <2>1, <3>1, SyncFits
  <2> QED BY <1>7, <1>10, <2>2, <2>3
<1> QED BY <1>2, <1>3, <1>8, <1>9, <1>10

LEMMA SentWillBe ==
  ASSUME NEW c
  PROVE  Sent(c)' <=> /\ Shape(c, w'[c])
                      /\ w'[c].id \in Live' => Sends(w'[c], ec2'[w'[c].id].rules)
BY DEF Sent, Shape, Sends, Means

LEMMA OwnSent ==
  ASSUME TypeOK, Exact, NEW c \in CRs, Reconcile(c)
  PROVE  Sent(c)'
<1>1. w \in [CRs -> Worker] /\ \A d \in CRs : CROf(d)
  BY TypeOKIs
<1>2. CASE ResolveReferences(c)
  <2> DEFINE failing  == Unresolvable(c).groups \cup Unresolvable(c).awaited
             resolved == IF Unresolvable(c).groups # {} THEN {}
                         ELSE cr[c].spec.groups
                                \cup (IF failing = {} THEN cr[c].spec.awaited ELSE {})
             ids      == [r \in CRs |-> IF r \in resolved THEN cr[r].id ELSE 0]
             mode     == IF cr[c].phase = "live" THEN "update" ELSE "delete"
             pass     == [IdleWorker EXCEPT !.id = cr[c].id]
             read     == [pass EXCEPT !.pc = "read", !.spec = cr[c].spec, !.ids = ids, !.mode = mode]
  <2>1. w'[c] = [pass EXCEPT !.pc = "failed"] \/ w'[c] = read
    BY <1>1, <1>2 DEF ResolveReferences, Go
  <2> HIDE DEF ids, mode
  <2>2. /\ read.pc = "read" /\ read.spec = cr[c].spec
        /\ read.revoke = {} /\ read.authorize = {}
        /\ [pass EXCEPT !.pc = "failed"].pc = "failed" /\ [pass EXCEPT !.pc = "failed"].spec = NoSpec
        /\ [pass EXCEPT !.pc = "failed"].authorize = {}
    BY DEF IdleWorker
  <2> HIDE DEF pass, read
  <2>3. cr[c].spec \in Specs[c]
    BY <1>1 DEF CROf
  <2> QED BY <2>1, <2>2, <2>3 DEF Sent, Shape, Sends
<1>3. CASE sdkFind(c)
  BY <1>3, FindSent, SentWillBe
<1>4. CASE sdkCreate(c)
  BY <1>4, CreateSent, SentWillBe
<1>5. CASE deleteSecurityGroupRules(c) \/ createSecurityGroupRules(c)
  BY <1>5, RulesSent, SentWillBe
<1>6. CASE DeleteObject(c) \/ setResourceUnmanaged(c) \/ PatchStatus(c)
  <2>1. w'[c] \in {IdleWorker, Over(c, "failed"), Over(c, "release")}
    BY <1>1, <1>6 DEF DeleteObject, setResourceUnmanaged, PatchStatus, Go, Call
  <2>2. Shape(c, w'[c]) /\ \A rules : Sends(w'[c], rules)
    BY <2>1, OverFits, IdleFits
  <2> QED BY <2>2, SentWillBe
<1> QED BY <1>2, <1>3, <1>4, <1>5, <1>6 DEF Reconcile

LEMMA OthersSent ==
  ASSUME TypeOK, Objects, Exact, NEW c \in CRs, Reconcile(c), NEW d \in CRs \ {c}
  PROVE  Sent(d)'
<1>1. Effect(c) /\ w'[d] = w[d] /\ Sent(d)
  BY EffectOf, OthersStay DEF Effect, Exact
<1>2. w[d].id \in Live' => w[d].id \in Live /\ ec2'[w[d].id] = ec2[w[d].id]
  BY <1>1, OthersObjects
<1> QED BY <1>1, <1>2 DEF Sent, Shape, Sends, Means

LEMMA NextExact ==
  ASSUME NoSelfReference
  PROVE  TypeOK /\ Objects /\ Exact /\ [Next]_vars => Exact'
<1> SUFFICES ASSUME TypeOK, Objects, Exact, [Next]_vars PROVE Exact'
  OBVIOUS
<1>1. ASSUME NEW c \in CRs, Reconcile(c) PROVE Exact'
  <2>1. NoSelfRule'
    BY <1>1, EffectOf, NoSelfRuleAfter DEF Effect
  <2>2. \A d \in CRs : Sent(d)'
    BY <1>1, OwnSent, OthersSent
  <2> QED BY <2>1, <2>2 DEF Exact
<1>2. ASSUME UNCHANGED ec2, \A d \in CRs : w'[d] = w[d] \/ w'[d] = IdleWorker
      PROVE  Exact'
  <2>1. Live' = Live
    BY <1>2 DEF Live
  <2>2. ASSUME NEW d \in CRs PROVE Sent(d)'
    <3>1. Sent(d) /\ Shape(d, IdleWorker) /\ \A rules : Sends(IdleWorker, rules)
      BY IdleFits DEF Exact
    <3>2. CASE w'[d] = w[d]
      BY <1>2, <2>1, <3>1, <3>2 DEF Sent, Shape, Sends, Means
    <3>3. CASE w'[d] = IdleWorker
      BY <3>1, <3>3, SentWillBe
    <3> QED BY <1>2, <3>2, <3>3
  <2>3. NoSelfRule'
    BY <1>2, <2>1 DEF Exact, NoSelfRule
  <2> QED BY <2>2, <2>3 DEF Exact
<1>3. ASSUME NEW c \in CRs, EditSpec(c) \/ DeleteCR(c) \/ RecreateCR(c) PROVE Exact'
  BY <1>2, <1>3 DEF EditSpec, DeleteCR, RecreateCR
<1>4. CASE Crash
  BY <1>2, <1>4 DEF Crash
<1>5. CASE UNCHANGED vars
  BY <1>2, <1>5 DEF vars
<1> QED BY <1>1, <1>3, <1>4, <1>5 DEF Next

LEMMA InitExact == Init => Exact
<1> SUFFICES ASSUME Init PROVE Exact
  OBVIOUS
<1>1. Live = {} /\ \A c \in CRs : w[c] = IdleWorker
  BY DEF Init, Live, Gone
<1> QED BY <1>1, IdleFits DEF Exact, Sent, NoSelfRule

LEMMA ExactIsSynced == Objects /\ Exact => SyncedIsExact
<1> SUFFICES ASSUME Objects, Exact, NEW c \in CRs, At(c, "synced"), w[c].id \in Live
             PROVE  /\ ec2[w[c].id].rules = Means(w[c])
                    /\ ec2[w[c].id].uses \subseteq Live
  BY DEF SyncedIsExact, Means
<1>1. w[c].mode # "delete" /\ w[c].revoke = {} /\ w[c].authorize = {} /\ w[c].pc = "synced"
  BY DEF Exact, Sent, Shape, At
<1>2. (ec2[w[c].id].rules \ {}) \cup {} = Means(w[c])
  BY <1>1 DEF Exact, Sent, Sends
<1> QED BY <1>2 DEF Objects, Intact

\* If no security group's spec refers to the group itself, a pass of any worker that
\* reports success leaves the group the rules to exactly the groups declared, and
\* the object what it was made of: a rule to the group itself, which is what an
\* unresolved GroupRef of customUpdateSecurityGroup's comparison reads as, is never
\* there to be mistaken for it.
THEOREM ExactCorrect ==
  ASSUME NoSelfReference
  PROVE  Spec => []SyncedIsExact
<1>1. TypeOK /\ Objects /\ Exact /\ [Next]_vars => Exact'
  BY NextExact
<1> QED BY <1>1, InitObjects, NextObjects, InitExact, ExactIsSynced, TypeCorrect, PTL DEF Spec

----------------------------------------------------------------------------
(* The life cycle.  A CR gets objects only while it has the finalizer, but *)
(* one may be lost and outlive it: the next CR of that name could find it. *)

Has(c) == \E i \in Live : ec2[i].of = c

\* No CR is made anew under a name that a lost group still has.
RecreatedIsNew == \A c \in CRs : RecreateCR(c) => ~Has(c)

\* What a CR and its worker know of the objects of the CR.
Owned(c) ==
  /\ cr[c].phase = "live" /\ ~cr[c].managed => ~Has(c)
  /\ cr[c].phase = "gone" => cr[c].id \notin Live
  /\ At(c, "create") => cr[c].managed /\ cr[c].id \notin Live
  /\ At(c, "release") => cr[c].id \notin Live
  /\ ~At(c, "idle") => w[c].id = cr[c].id \/ cr[c].id \notin Live

Ownership == \A c \in CRs : Owned(c)

\* Zero is no object, and what a CR has on record lives for it only.
LEMMA OwnedIds ==
  ASSUME TypeOK, Objects, NEW c \in CRs
  PROVE  /\ 0 \notin Live
         /\ cr[c].id \in Live => Has(c)
         /\ w[c].id \in Live => Has(c)
         /\ cr[c].id < nextId
         /\ cr[c].phase # "gone" /\ Has(c) /\ Owned(c) => cr[c].managed
<1>1. 0 \notin Live
  BY ReferencesAssumption DEF Live, Ids
<1>2. Belongs(cr[c].id, c) /\ Belongs(w[c].id, c)
  BY DEF Objects, Held
<1>3. cr[c] \in CR /\ CROf(c)
  BY TypeOKIs
<1> QED BY <1>1, <1>2, <1>3 DEF Belongs, Has, Owned, CR, CROf

\* What the worker of another CR does leaves c with the objects it has, or fewer.
LEMMA OthersLeave ==
  ASSUME TypeOK, Objects, NEW c \in CRs, NEW d \in CRs \ {c}, Reconcile(d)
  PROVE  /\ cr'[c] = cr[c] /\ w'[c] = w[c]
         /\ Has(c)' => Has(c)
         /\ cr[c].id \in Live' => cr[c].id \in Live
<1>1. Effect(d)
  BY EffectOf DEF Effect
<1>2. cr'[c] = cr[c] /\ w'[c] = w[c]
  BY OthersStay
<1>3. \A i \in Live' : i \in Live \/ (i = nextId /\ ec2'[i].of = d)
  BY <1>1, LiveAfter
<1>4. \A i \in Live \cap Live' : ec2'[i].of = ec2[i].of
  BY <1>1, LiveAfter
<1>5. cr[c].id # nextId
  <2>1. nextId \in Int /\ cr[c].id < nextId
    BY TypeOKIs, OwnedIds, ReferencesAssumption
  <2> QED BY <2>1
<1> QED BY <1>2, <1>3, <1>4, <1>5 DEF Has

\* What a CR has on record, for the life cycle.
Recorded(c) == {cr[c].id} \cap Live

Follows(c) == Owned(c)' /\ (Abs(c)!Next \/ UNCHANGED Abs(c)!vars)

\* The CR keeps what it has on record, or loses it.
LEMMA KeptOrLost ==
  ASSUME NEW c \in CRs, cr'[c].managed = cr[c].managed,
         Recorded(c)' = {} \/ Recorded(c)' = Recorded(c)
  PROVE  Abs(c)!Next \/ UNCHANGED Abs(c)!vars
<1>1. CASE Recorded(c)' = {}
  BY <1>1 DEF Abs!Next, Abs!Vanish, Recorded
<1>2. CASE Recorded(c)' = Recorded(c)
  BY <1>2 DEF Abs!vars, Recorded
<1> QED BY <1>1, <1>2

\* A step that makes no object and leaves the CR as it is.
Follow(c) ==
  /\ cr'[c] = cr[c]
  /\ Has(c)' => Has(c)
  /\ cr[c].id \in Live' => cr[c].id \in Live
  /\ w'[c].pc # "create"
  /\ w'[c].pc = "release" => cr[c].id \notin Live'
  /\ w'[c].pc # "idle" => w'[c].id = cr[c].id \/ cr[c].id \notin Live'

LEMMA FollowOwned ==
  ASSUME NEW c \in CRs, Owned(c), Follow(c)
  PROVE  Follows(c)
<1>1. Owned(c)'
  BY DEF Follow, Owned, At
<1>2. Recorded(c)' = {} \/ Recorded(c)' = Recorded(c)
  BY DEF Follow, Recorded
<1>3. cr'[c].managed = cr[c].managed
  BY DEF Follow
<1> QED BY <1>1, <1>2, <1>3, KeptOrLost DEF Follows

\* A step of the worker that makes no object leaves no other in its place.
LEMMA NoneMade ==
  ASSUME TypeOK, Objects, NEW c \in CRs, Reconcile(c), nextId' = nextId
  PROVE  /\ Has(c)' => Has(c)
         /\ Live' \subseteq Live
<1>1. nextId \in Int
  BY TypeOKIs, ReferencesAssumption
<1>2. Live' \subseteq Live /\ \A i \in Live \cap Live' : ec2'[i].of = ec2[i].of
  <2>1. Effect(c)
    BY EffectOf DEF Effect
  <2> QED BY <1>1, <2>1, LiveAfter
<1> QED BY <1>2 DEF Has

LEMMA ResolveFrom ==
  ASSUME TypeOK, NEW c \in CRs, ResolveReferences(c)
  PROVE  w'[c].id = cr[c].id /\ w'[c].pc \in {"failed", "read"}
<1> DEFINE failing  == Unresolvable(c).groups \cup Unresolvable(c).awaited
           resolved == IF Unresolvable(c).groups # {} THEN {}
                       ELSE cr[c].spec.groups
                              \cup (IF failing = {} THEN cr[c].spec.awaited ELSE {})
           mode     == IF cr[c].phase = "live" THEN "update" ELSE "delete"
           ids      == [r \in CRs |-> IF r \in resolved THEN cr[r].id ELSE 0]
           pass     == [IdleWorker EXCEPT !.id = cr[c].id]
<1>1. \/ w' = [w EXCEPT ![c] = [pass EXCEPT !.pc = "failed"]]
      \/ w' = [w EXCEPT ![c] = [pass EXCEPT
                 !.pc = "read", !.spec = cr[c].spec, !.ids = ids, !.mode = mode]]
  BY DEF ResolveReferences, Go
<1> HIDE DEF ids, mode
<1>2. \A x : [w EXCEPT ![c] = x][c] = x
  BY TypeOKIs
<1> QED BY <1>1, <1>2 DEF IdleWorker

LEMMA ResolveFollows ==
  ASSUME TypeOK, Objects, NEW c \in CRs, Owned(c), ResolveReferences(c)
  PROVE  Follows(c)
<1>1. cr' = cr /\ nextId' = nextId /\ Live' = Live
  BY DEF ResolveReferences, Go, Live
<1>2. Has(c)' => Has(c)
  BY <1>1, NoneMade DEF Reconcile
<1> QED BY <1>1, <1>2, ResolveFrom, FollowOwned DEF Follow

\* A pass that is under way goes on with the object it has.
LEMMA SameIdFollows ==
  ASSUME TypeOK, Objects, NEW c \in CRs, Owned(c), Reconcile(c),
         cr' = cr, nextId' = nextId, ~At(c, "idle"),
         w'[c].id = w[c].id, w'[c].pc \notin {"create", "release"}
  PROVE  Follows(c)
<1>1. Has(c)' => Has(c) /\ Live' \subseteq Live
  BY NoneMade
<1>2. w[c].id = cr[c].id \/ cr[c].id \notin Live
  BY DEF Owned
<1> QED BY <1>1, <1>2, NoneMade, FollowOwned DEF Follow

\* A pass that found its object goes on with that one.
LEMMA FoundIs ==
  ASSUME TypeOK, NEW c \in CRs, NEW i \in Ids
  PROVE  /\ sdkDelete(c, i).id = i
         /\ sdkDelete(c, i).pc \in {"sync", "delete", "synced"}
         /\ customUpdateSecurityGroup(c, i).id = i
         /\ customUpdateSecurityGroup(c, i).pc \in {"sync", "delete", "synced", "unsynced"}
<1> DEFINE next == [Over(c, "delete") EXCEPT !.id = i, !.mode = "delete", !.revoke = ec2[i].rules]
           same == [w[c] EXCEPT !.pc = "synced", !.id = i]
           sent == [w[c] EXCEPT !.id = i, !.revoke = ec2[i].rules \ Named(c),
                                !.authorize = Named(c) \ ec2[i].rules]
<1>1. Over(c, "delete") \in Worker /\ ec2[i] \in Object /\ w[c] \in Worker
  BY OverType, TypeOKIs
<1>2. next \in Worker /\ next.id = i
  BY <1>1 DEF Worker, Object
<1>3. sent \in Worker /\ same.pc = "synced"
  BY <1>1, NamedType DEF Worker, Object
<1> HIDE DEF next, same, sent
<1>4. Sync(next).id = i /\ Sync(next).pc \in {"sync", "delete", "synced"}
  BY <1>2, SyncIs
<1>5. Sync(sent).pc \in {"sync", "delete", "synced"}
  BY <1>3, SyncIs
<1>6. [Over(c, "unsynced") EXCEPT !.id = i].pc = "unsynced"
  BY OverIs
<1>7. sdkDelete(c, i).id = i /\ sdkDelete(c, i).pc \in {"sync", "delete", "synced"}
  BY <1>4 DEF sdkDelete, next
<1>8. \/ customUpdateSecurityGroup(c, i) = same
      \/ customUpdateSecurityGroup(c, i) = [Over(c, "unsynced") EXCEPT !.id = i]
      \/ customUpdateSecurityGroup(c, i) = Sync(sent)
  BY DEF customUpdateSecurityGroup, same, sent
<1> QED BY <1>3, <1>5, <1>6, <1>7, <1>8, UpdateId

\* What sdkFind comes to: an error, a CR to let go, to forget or to claim, or an object.
NotThere(c) == w[c].id \notin Live /\ w'[c].id = w[c].id

LEMMA FindOutcome ==
  ASSUME TypeOK, NEW c \in CRs, sdkFind(c)
  PROVE  \/ cr' = cr /\ w'[c].pc = "failed" /\ w'[c].id = w[c].id
         \/ cr' = cr /\ w'[c].pc = "release" /\ NotThere(c)
         \/ cr' = cr /\ w'[c].pc = "idle" /\ w'[c].id = 0 /\ w[c].id \notin Live
            /\ cr[c].phase = "gone"
         \/ /\ w'[c].pc = "create" /\ NotThere(c) /\ cr[c].phase # "gone"
            /\ cr'[c].managed = TRUE /\ cr'[c].id = cr[c].id /\ cr'[c].phase = cr[c].phase
         \/ /\ cr' = cr /\ w'[c].pc \in {"sync", "delete", "synced", "unsynced"}
            /\ w'[c].id \in Live /\ (w'[c].id = w[c].id \/ w[c].id = 0)
<1> DEFINE found == IF w[c].id # 0 THEN {w[c].id} \cap Live ELSE getSecurityGroupID(c)
<1>1. /\ w \in [CRs -> Worker] /\ cr \in [CRs -> CR] /\ cr[c] \in CR /\ w[c] \in Worker
      /\ 0 \notin Live
  BY TypeOKIs, ReferencesAssumption DEF Live, Ids
<1>2. \/ w' = [w EXCEPT ![c] = Over(c, "failed")] /\ cr' = cr
      \/ found = {} /\ NotFound(c)
      \/ \E i \in found :
           /\ \/ w' = [w EXCEPT ![c] = sdkDelete(c, i)]
              \/ w' = [w EXCEPT ![c] = customUpdateSecurityGroup(c, i)]
           /\ cr' = cr
  BY DEF sdkFind, Go
<1>3. \A x : [w EXCEPT ![c] = x][c] = x
  BY <1>1
<1>4. CASE w'[c] = Over(c, "failed") /\ cr' = cr
  BY <1>4, OverIs
<1>5. CASE found = {} /\ NotFound(c)
  <2>1. w[c].id \notin Live
    BY <1>1, <1>5
  <2>2. CASE w' = [w EXCEPT ![c] = Over(c, "release")] /\ cr' = cr
    BY <1>3, <2>1, <2>2, OverIs DEF NotThere
  <2>3. CASE w' = [w EXCEPT ![c] = IdleWorker] /\ cr' = cr /\ cr[c].phase = "gone"
    BY <1>3, <2>1, <2>3 DEF IdleWorker
  <2>4. CASE /\ w' = [w EXCEPT ![c] = [@ EXCEPT !.pc = "create", !.mode = "create"]]
             /\ cr' = [cr EXCEPT ![c].managed = TRUE] /\ cr[c].phase # "gone"
    BY <1>1, <2>1, <2>4 DEF CR, Worker, NotThere
  <2> QED BY <1>5, <2>2, <2>3, <2>4 DEF NotFound, Go
<1>6. ASSUME NEW i \in found,
             w'[c] = sdkDelete(c, i) \/ w'[c] = customUpdateSecurityGroup(c, i), cr' = cr
      PROVE  /\ w'[c].pc \in {"sync", "delete", "synced", "unsynced"}
             /\ w'[c].id \in Live /\ (w'[c].id = w[c].id \/ w[c].id = 0)
  <2>1. i \in Live /\ i \in Ids /\ (i = w[c].id \/ w[c].id = 0)
    BY DEF getSecurityGroupID, Live
  <2> QED BY <1>6, <2>1, FoundIs
<1> HIDE DEF found
<1> QED BY <1>2, <1>3, <1>4, <1>5, <1>6

LEMMA FindFollows ==
  ASSUME TypeOK, Objects, NEW c \in CRs, Owned(c), sdkFind(c)
  PROVE  Follows(c)
<1>1. /\ cr \in [CRs -> CR] /\ cr[c] \in CR /\ CROf(c)
      /\ 0 \notin Live /\ At(c, "read") /\ nextId' = nextId /\ Live' = Live
  BY TypeOKIs, OwnedIds DEF sdkFind, NotFound, Go, Live
<1>2. Has(c)' => Has(c)
  BY <1>1, NoneMade DEF Reconcile
<1>3. w[c].id = cr[c].id \/ cr[c].id \notin Live
  BY <1>1 DEF Owned, At
<1>4. CASE cr' = cr /\ w'[c].pc # "create"
  <2>1. \/ w'[c].pc = "idle"
        \/ w'[c].pc # "release" /\ (w'[c].id = w[c].id \/ w[c].id = 0)
        \/ w'[c].pc = "release" /\ NotThere(c)
    BY <1>4, FindOutcome DEF NotThere
  <2>2. w'[c].pc = "release" => cr[c].id \notin Live
    BY <1>3, <2>1 DEF NotThere
  <2>3. w'[c].pc # "idle" => w'[c].id = cr[c].id \/ cr[c].id \notin Live
    BY <1>1, <1>3, <2>1 DEF NotThere
  <2> QED BY <1>1, <1>2, <1>4, <2>2, <2>3, FollowOwned DEF Follow
<1>5. CASE /\ w'[c].pc = "create" /\ NotThere(c) /\ cr[c].phase # "gone"
           /\ cr'[c].managed = TRUE /\ cr'[c].id = cr[c].id /\ cr'[c].phase = cr[c].phase
  <2>1. Owned(c)'
    BY <1>1, <1>3, <1>5 DEF Owned, At, NotThere
  <2>2. Recorded(c)' = Recorded(c)
    BY <1>1, <1>5 DEF Recorded
  <2>3. CASE cr[c].managed
    <3>1. cr'[c].managed = cr[c].managed
      BY <1>1, <1>5, <2>3 DEF CR
    <3> QED BY <2>1, <2>2, <3>1, KeptOrLost DEF Follows
  <2>4. CASE ~cr[c].managed
    BY <1>5, <2>1, <2>2, <2>4 DEF Follows, Abs!Next, Abs!Claim, Recorded
  <2> QED BY <2>3, <2>4
<1> QED BY <1>4, <1>5, FindOutcome

\* A new object is in hand, or what was there before.
LEMMA CreateIs ==
  ASSUME TypeOK, NEW c \in CRs, sdkCreate(c)
  PROVE  /\ w'[c].pc \in {"failed", "sync", "delete", "synced", "unsynced"}
         /\ events' = events /\ nextId' # nextId => w'[c].id = nextId
         /\ nextId' = nextId => w'[c] = Over(c, "failed")
<1> DEFINE created == [w[c] EXCEPT !.id = nextId]
           named   == [created EXCEPT !.authorize = Named(c)]
<1>1. /\ w \in [CRs -> Worker] /\ w[c] \in Worker /\ nextId \in Int /\ events \in Int
  BY TypeOKIs, ReferencesAssumption
<1>2. \A x : [w EXCEPT ![c] = x][c] = x
  BY <1>1
<1>3. \/ w'[c] = Over(c, "failed") /\ (events' = events => nextId' = nextId)
      \/ /\ nextId \in Ids /\ nextId' = nextId + 1
         /\ w'[c] = Sync(named) \/ w'[c] = [Over(c, "unsynced") EXCEPT !.id = nextId]
  BY <1>1, <1>2 DEF sdkCreate
<1>4. nextId \in Ids => named \in Worker /\ named.id = nextId
  BY <1>1, NamedType DEF Worker
<1> HIDE DEF named
<1>5. nextId \in Ids => Sync(named).pc \in {"sync", "delete", "synced"} /\ Sync(named).id = nextId
  BY <1>4, SyncIs
<1>6. /\ Over(c, "failed").pc = "failed"
      /\ [Over(c, "unsynced") EXCEPT !.id = nextId].pc = "unsynced"
      /\ [Over(c, "unsynced") EXCEPT !.id = nextId].id = nextId
  BY OverIs
<1>7. CASE w'[c] = Over(c, "failed") /\ (events' = events => nextId' = nextId)
  BY <1>6, <1>7
<1>8. CASE nextId \in Ids /\ nextId' = nextId + 1 /\ w'[c] = Sync(named)
  BY <1>1, <1>5, <1>8
<1>9. CASE /\ nextId \in Ids /\ nextId' = nextId + 1
           /\ w'[c] = [Over(c, "unsynced") EXCEPT !.id = nextId]
  BY <1>1, <1>6, <1>9
<1> QED BY <1>3, <1>7, <1>8, <1>9

LEMMA CreateFollows ==
  ASSUME TypeOK, Objects, NEW c \in CRs, Owned(c), sdkCreate(c)
  PROVE  Follows(c)
<1>1. /\ nextId \in Int /\ cr[c].managed /\ CROf(c)
      /\ cr[c].id \notin Live /\ cr[c].id < nextId /\ cr' = cr
  BY TypeOKIs, OwnedIds, ReferencesAssumption DEF sdkCreate, Owned
<1>2. cr[c].id \notin Live'
  <2>1. Effect(c)
    BY EffectOf DEF Effect, Reconcile
  <2>2. Live' \subseteq Live \cup {nextId}
    BY <2>1, LiveAfter
  <2> QED BY <1>1, <2>2
<1>3. Owned(c)'
  BY <1>1, <1>2, CreateIs DEF Owned, At
<1>4. Recorded(c)' = Recorded(c)
  BY <1>1, <1>2 DEF Recorded
<1> QED BY <1>1, <1>3, <1>4, KeptOrLost DEF Follows

LEMMA RulesId ==
  ASSUME TypeOK, NEW c \in CRs, deleteSecurityGroupRules(c) \/ createSecurityGroupRules(c)
  PROVE  w'[c].id = w[c].id /\ w'[c].pc \in {"failed", "sync", "delete", "synced"}
<1> DEFINE revoked == [w[c] EXCEPT !.revoke = {}]
           granted == [w[c] EXCEPT !.authorize = {}]
<1>1. w \in [CRs -> Worker] /\ w[c] \in Worker
  BY TypeOKIs
<1>2. \A x : [w EXCEPT ![c] = x][c] = x
  BY <1>1
<1>3. /\ revoked \in Worker /\ revoked.id = w[c].id
      /\ granted \in Worker /\ granted.id = w[c].id
  BY <1>1 DEF Worker
<1>4. w'[c] = Over(c, "failed") \/ w'[c] = Sync(revoked) \/ w'[c] = Sync(granted)
  BY <1>2 DEF deleteSecurityGroupRules, createSecurityGroupRules, Go, Call
<1> HIDE DEF revoked, granted
<1> QED BY <1>3, <1>4, SyncIs, OverIs

LEMMA RulesFollow ==
  ASSUME TypeOK, Objects, NEW c \in CRs, Owned(c),
         deleteSecurityGroupRules(c) \/ createSecurityGroupRules(c)
  PROVE  Follows(c)
<1>1. cr' = cr /\ nextId' = nextId /\ ~At(c, "idle")
  BY DEF deleteSecurityGroupRules, createSecurityGroupRules, Go, Call, At
<1>2. w'[c].id = w[c].id /\ w'[c].pc \in {"failed", "sync", "delete", "synced"}
  BY RulesId
<1>3. Reconcile(c)
  BY DEF Reconcile
<1> QED BY <1>1, <1>2, <1>3, SameIdFollows

LEMMA DeleteFollows ==
  ASSUME TypeOK, Objects, NEW c \in CRs, Owned(c), DeleteObject(c)
  PROVE  Follows(c)
<1>1. /\ w \in [CRs -> Worker] /\ ec2 \in [Ids -> Object] /\ cr' = cr /\ nextId' = nextId
      /\ At(c, "delete")
  BY TypeOKIs DEF DeleteObject, Go, Call
<1>2. \A x : [w EXCEPT ![c] = x][c] = x
  BY <1>1
<1>3. Reconcile(c)
  BY DEF Reconcile
<1>4. w[c].id = cr[c].id \/ cr[c].id \notin Live
  BY <1>1 DEF Owned, At
<1>5. CASE w'[c] = Over(c, "failed")
  <2>1. w'[c].id = w[c].id /\ w'[c].pc = "failed"
    BY <1>5, OverIs
  <2> QED BY <1>1, <1>3, <2>1, SameIdFollows DEF At
<1>6. CASE ec2' = [ec2 EXCEPT ![w[c].id] = Gone] /\ w'[c] = Over(c, "release")
  <2>1. w'[c].id = w[c].id /\ w'[c].pc = "release"
    BY <1>6, OverIs
  <2>2. w[c].id \notin Live'
    BY <1>1, <1>6 DEF Live, Gone
  <2>3. Has(c)' => Has(c) /\ Live' \subseteq Live
    BY <1>1, <1>3, NoneMade
  <2>4. cr[c].id \notin Live'
    BY <1>1, <1>3, <1>4, <2>2, NoneMade
  <2> QED BY <1>1, <1>3, <2>1, <2>4, NoneMade, FollowOwned DEF Follow
<1> QED BY <1>2, <1>5, <1>6 DEF DeleteObject, Go, Call

\* The finalizer goes when nothing is left, and the status records what is the CR's.
LEMMA CRFollows ==
  ASSUME TypeOK, Objects, NEW c \in CRs, Owned(c), setResourceUnmanaged(c) \/ PatchStatus(c)
  PROVE  Follows(c)
<1>1. /\ w \in [CRs -> Worker] /\ cr \in [CRs -> CR] /\ cr[c] \in CR /\ CROf(c)
      /\ Live' = Live /\ Has(c)' = Has(c)
  BY TypeOKIs DEF setResourceUnmanaged, PatchStatus, Live, Has
<1>2. w'[c].pc = "idle"
  BY <1>1 DEF setResourceUnmanaged, PatchStatus, IdleWorker
<1>3. CASE setResourceUnmanaged(c)
  <2>1. cr'[c].phase = "gone" /\ cr'[c].managed = FALSE /\ cr'[c].id = cr[c].id
    BY <1>1, <1>3 DEF setResourceUnmanaged, CR
  <2>2. cr[c].id \notin Live
    BY <1>3 DEF setResourceUnmanaged, Owned
  <2>3. Owned(c)'
    BY <1>1, <1>2, <2>1, <2>2 DEF Owned, At
  <2>4. Recorded(c) = {} /\ Recorded(c)' = {}
    BY <1>1, <2>1, <2>2 DEF Recorded
  <2> QED BY <2>1, <2>3, <2>4 DEF Follows, Abs!Next, Abs!Release, Recorded
<1>4. CASE PatchStatus(c) /\ cr[c].phase = "gone"
  <2>1. cr' = cr
    BY <1>4 DEF PatchStatus
  <2> QED BY <1>1, <1>2, <2>1, FollowOwned DEF Follow
<1>5. CASE PatchStatus(c) /\ cr[c].phase # "gone"
  <2>1. /\ cr'[c].id = w[c].id /\ cr'[c].phase = cr[c].phase /\ cr'[c].managed = cr[c].managed
        /\ ~At(c, "idle")
    BY <1>1, <1>5 DEF PatchStatus, CR, At
  <2>2. Owned(c)'
    BY <1>1, <1>2, <1>5, <2>1 DEF Owned, At
  <2>3. w[c].id = cr[c].id \/ cr[c].id \notin Live
    BY <2>1 DEF Owned
  <2>4. CASE Recorded(c)' = Recorded(c)
    BY <2>1, <2>2, <2>4, KeptOrLost DEF Follows
  <2>5. CASE Recorded(c)' # Recorded(c)
    <3>1. Recorded(c) = {}
      BY <1>1, <2>1, <2>3, <2>5 DEF Recorded
    <3>2. w[c].id \in Live /\ Recorded(c)' = {w[c].id}
      BY <1>1, <2>1, <2>5, <3>1 DEF Recorded
    <3>3. cr[c].managed
      BY <1>5, <3>2, OwnedIds
    <3>4. Abs(c)!Create
      BY <2>1, <3>1, <3>2, <3>3 DEF Abs!Create, Recorded
    <3> QED BY <2>2, <3>4 DEF Follows, Abs!Next
  <2> QED BY <2>4, <2>5
<1> QED BY <1>3, <1>4, <1>5

LEMMA ReconcileFollows ==
  ASSUME TypeOK, Objects, NEW c \in CRs, Owned(c), Reconcile(c)
  PROVE  Follows(c)
BY ResolveFollows, FindFollows, CreateFollows, RulesFollow, DeleteFollows, CRFollows DEF Reconcile

LEMMA OthersFollow ==
  ASSUME TypeOK, Objects, NEW c \in CRs, Owned(c), NEW d \in CRs \ {c}, Reconcile(d)
  PROVE  Follows(c)
<1>1. /\ cr'[c] = cr[c] /\ w'[c] = w[c] /\ (Has(c)' => Has(c))
      /\ (cr[c].id \in Live' => cr[c].id \in Live)
  BY OthersLeave
<1>2. Owned(c)'
  BY <1>1 DEF Owned, At
<1>3. Recorded(c)' = {} \/ Recorded(c)' = Recorded(c)
  BY <1>1 DEF Recorded
<1> QED BY <1>1, <1>2, <1>3, KeptOrLost DEF Follows

\* The user, a crash, or nothing at all.
LEMMA UserFollows ==
  ASSUME TypeOK, Objects, Ownership, RecreatedIsNew, NEW c \in CRs, NEW d \in CRs,
         EditSpec(d) \/ DeleteCR(d) \/ RecreateCR(d)
  PROVE  Follows(c)
<1>1. /\ w' = w /\ ec2' = ec2 /\ cr \in [CRs -> CR] /\ cr[c] \in CR /\ CROf(c) /\ Owned(c)
      /\ Live' = Live /\ Has(c)' = Has(c) /\ 0 \notin Live
      /\ (cr[c].id \in Live => Has(c))
  BY TypeOKIs, OwnedIds DEF EditSpec, DeleteCR, RecreateCR, Live, Has, Ownership
<1>2. CASE cr'[c].phase = cr[c].phase /\ cr'[c].managed = cr[c].managed /\ cr'[c].id = cr[c].id
  <2>1. Owned(c)'
    BY <1>1, <1>2 DEF Owned, At
  <2>2. Recorded(c)' = Recorded(c)
    BY <1>1, <1>2 DEF Recorded
  <2> QED BY <1>2, <2>1, <2>2, KeptOrLost DEF Follows
<1>3. CASE DeleteCR(c)
  <2>1. /\ cr'[c].phase = IF cr[c].managed THEN "deleting" ELSE "gone"
        /\ cr'[c].managed = cr[c].managed /\ cr'[c].id = cr[c].id /\ cr[c].phase = "live"
    BY <1>1, <1>3 DEF DeleteCR, CR
  <2>2. Owned(c)'
    BY <1>1, <2>1 DEF Owned, At, CR
  <2>3. Recorded(c)' = Recorded(c)
    BY <1>1, <2>1 DEF Recorded
  <2> QED BY <2>1, <2>2, <2>3, KeptOrLost DEF Follows
<1>4. CASE RecreateCR(c)
  <2>0. ~Has(c)
    BY <1>4 DEF RecreatedIsNew
  <2>1. /\ cr'[c].phase = "live" /\ cr'[c].managed = FALSE /\ cr'[c].id = 0
        /\ cr[c].phase = "gone" /\ ~cr[c].managed
    BY <1>1, <1>4 DEF RecreateCR, NewCR, CROf
  <2>2. Owned(c)'
    BY <1>1, <2>0, <2>1 DEF Owned, At
  <2>3. Recorded(c)' = {}
    BY <1>1, <2>1 DEF Recorded
  <2>4. cr'[c].managed = cr[c].managed
    BY <1>1, <2>1 DEF CR
  <2> QED BY <2>2, <2>3, <2>4, KeptOrLost DEF Follows
<1>5. CASE c # d \/ EditSpec(d)
  <2>1. cr'[c].phase = cr[c].phase /\ cr'[c].managed = cr[c].managed /\ cr'[c].id = cr[c].id
    BY <1>1, <1>5 DEF EditSpec, DeleteCR, RecreateCR, CR
  <2> QED BY <1>2, <2>1
<1> QED BY <1>3, <1>4, <1>5

LEMMA StoppedFollows ==
  ASSUME Ownership, Crash \/ UNCHANGED vars, NEW c \in CRs
  PROVE  Follows(c)
<1>1. cr' = cr /\ ec2' = ec2 /\ (w' = w \/ w'[c].pc = "idle")
  BY DEF Crash, vars, IdleWorker
<1>2. Live' = Live /\ Has(c)' = Has(c)
  BY <1>1 DEF Live, Has
<1>3. Owned(c)'
  BY <1>1, <1>2 DEF Ownership, Owned, At
<1>4. Recorded(c)' = Recorded(c)
  BY <1>1, <1>2 DEF Recorded
<1> QED BY <1>1, <1>3, <1>4, KeptOrLost DEF Follows

LEMMA NextFollows ==
  ASSUME TypeOK, Objects, Ownership, RecreatedIsNew, [Next]_vars
  PROVE  \A c \in CRs : Follows(c)
<1> SUFFICES ASSUME NEW c \in CRs PROVE Follows(c)
  OBVIOUS
<1>1. Owned(c)
  BY DEF Ownership
<1>2. CASE \E d \in CRs : Reconcile(d)
  BY <1>1, <1>2, ReconcileFollows, OthersFollow
<1>3. CASE \E d \in CRs : EditSpec(d) \/ DeleteCR(d) \/ RecreateCR(d)
  BY <1>3, UserFollows
<1>4. CASE Crash \/ UNCHANGED vars
  BY <1>4, StoppedFollows
<1> QED BY <1>2, <1>3, <1>4 DEF Next

LEMMA InitOwned == Init => Ownership /\ \A c \in CRs : Abs(c)!Init
<1> SUFFICES ASSUME Init, NEW c \in CRs PROVE Owned(c) /\ Abs(c)!Init
  BY DEF Ownership
<1>1. Live = {}
  BY DEF Init, Live, Gone
<1>2. cr[c].phase = "live" /\ cr[c].managed = FALSE /\ w[c].pc = "idle"
  BY DEF Init, NewCR, IdleWorker
<1> QED BY <1>1, <1>2 DEF Owned, Has, At, Abs!Init

\* Each CR's objects come one at a time, under its finalizer, which goes last
\* (setResourceManaged before sdkCreate, setResourceUnmanaged after sdkDelete), while other
\* CRs are created, changed and deleted around it, whatever fails: unless a CR is made anew
\* under the name of one whose group was lost.  getSecurityGroupID finds that group by
\* its name, and takes it over although the new CR has no finalizer yet.
THEOREM LifecycleCorrect ==
  Spec /\ [][RecreatedIsNew]_vars => ImplementsLifecycle
<1> DEFINE Inv  == TypeOK /\ Objects /\ Ownership
           Impl == \A c \in CRs : Abs(c)!Next \/ UNCHANGED Abs(c)!vars
<1>1. Init => Inv /\ \A c \in CRs : Abs(c)!Init
  BY InitType, InitObjects, InitOwned
<1>2. Inv /\ [Next]_vars /\ [RecreatedIsNew]_vars => Inv' /\ [Impl]_vars
  <2> SUFFICES ASSUME TypeOK, Objects, Ownership, [Next]_vars, [RecreatedIsNew]_vars
               PROVE  Inv' /\ Impl
    OBVIOUS
  <2>1. TypeOK' /\ Objects'
    BY NextType, NextObjects
  <2>2. \A c \in CRs : Follows(c)
    BY NextFollows, StoppedFollows
  <2> QED BY <2>1, <2>2 DEF Follows, Ownership
<1> HIDE DEF Inv
<1> QED BY <1>1, <1>2, PTL DEF Spec, ImplementsLifecycle

----------------------------------------------------------------------------
(* With one event at most the hypothesis holds: it takes an event to lose  *)
(* a group, and one to make a CR anew.                                     *)

\* Before any event, what lives is known to its CR or to the worker.
Known(c) ==
  /\ At(c, "idle") => w[c].id = 0
  /\ events = 0 =>
       /\ \A i \in Live : ec2[i].of = c => cr[c].phase # "gone" /\ i \in {cr[c].id, w[c].id}
       /\ At(c, "create") \/ At(c, "release") => ~Has(c)

\* Events only add up.
LEMMA EventsAdd ==
  ASSUME TypeOK, [Next]_vars, events' = 0
  PROVE  events = 0 /\ events' = events
<1>1. events \in Nat
  BY TypeOKIs, ReferencesAssumption
<1>2. events' = events \/ events' = events + 1
  BY DEF Next, Reconcile, ResolveReferences, sdkFind, NotFound, sdkCreate, deleteSecurityGroupRules,
         createSecurityGroupRules, DeleteObject, setResourceUnmanaged, PatchStatus, Go, Call,
         EditSpec, DeleteCR, RecreateCR, Crash, vars
<1> QED BY <1>1, <1>2

\* A worker without the object in hand, or with what its CR has lost, has none.
LEMMA NoneKnown ==
  ASSUME NEW c \in CRs, Owned(c), Known(c), events = 0, ~At(c, "idle"), w[c].id \notin Live
  PROVE  ~Has(c)
BY DEF Owned, Known, Has

\* A step that makes no object and leaves the record alone.
LEMMA KnownKeeps ==
  ASSUME TypeOK, Objects, NEW c \in CRs, Known(c), Reconcile(c), nextId' = nextId,
         cr'[c].id = cr[c].id, cr'[c].phase = cr[c].phase,
         w'[c].pc = "idle" => w'[c].id = 0,
         w'[c].pc \in {"create", "release"} => (events = 0 => ~Has(c)'),
         w'[c].id = w[c].id \/ w[c].id \notin Live'
  PROVE  Known(c)'
<1>1. At(c, "idle")' => w'[c].id = 0
  BY DEF At
<1>2. ASSUME events' = 0
      PROVE  /\ \A i \in Live' : ec2'[i].of = c => cr'[c].phase # "gone" /\ i \in {cr'[c].id, w'[c].id}
             /\ At(c, "create")' \/ At(c, "release")' => ~Has(c)'
  <2>1. events = 0
    BY <1>2, EventsAdd DEF Next
  <2>2. Live' \subseteq Live /\ \A i \in Live \cap Live' : ec2'[i].of = ec2[i].of
    <3>1. nextId \in Int
      BY TypeOKIs, ReferencesAssumption
    <3>2. Effect(c)
      BY EffectOf DEF Effect
    <3> QED BY <3>1, <3>2, LiveAfter
  <2>3. \A i \in Live : ec2[i].of = c => cr[c].phase # "gone" /\ i \in {cr[c].id, w[c].id}
    BY <2>1 DEF Known
  <2> QED BY <2>1, <2>2, <2>3 DEF At
<1> QED BY <1>1, <1>2 DEF Known

LEMMA ReconcileKnown ==
  ASSUME TypeOK, Objects, NEW c \in CRs, Owned(c), Known(c), Reconcile(c)
  PROVE  Known(c)'
<1>1. /\ w \in [CRs -> Worker] /\ cr \in [CRs -> CR] /\ cr[c] \in CR /\ w[c] \in Worker
      /\ ec2 \in [Ids -> Object] /\ nextId \in Int /\ 0 \notin Live
  BY TypeOKIs, OwnedIds, ReferencesAssumption
<1>2. \A x : [w EXCEPT ![c] = x][c] = x
  BY <1>1
<1>3. /\ IdleWorker.pc = "idle" /\ IdleWorker.id = 0
      /\ \A label : Over(c, label).pc = label /\ Over(c, label).id = w[c].id
  BY OverIs DEF IdleWorker
<1>4. CASE ResolveReferences(c)
  <2>1. cr' = cr /\ nextId' = nextId /\ Live' = Live /\ w[c].id = 0
    BY <1>4 DEF ResolveReferences, Go, Live, Known
  <2>2. w'[c].pc \in {"failed", "read"}
    BY <1>4, ResolveFrom
  <2> QED BY <1>1, <1>4, <2>1, <2>2, KnownKeeps DEF Reconcile
<1>5. CASE sdkFind(c)
  <2>1. nextId' = nextId /\ Live' = Live /\ Has(c)' = Has(c) /\ ~At(c, "idle")
    BY <1>5 DEF sdkFind, NotFound, Go, Live, Has, At
  <2>2. cr'[c].id = cr[c].id /\ cr'[c].phase = cr[c].phase
    BY <1>5, FindOutcome
  <2>3. w'[c].id = w[c].id \/ w[c].id \notin Live
    BY <1>1, <1>5, FindOutcome DEF NotThere
  <2>4. w'[c].pc \in {"create", "release"} => w[c].id \notin Live
    BY <1>5, FindOutcome DEF NotThere
  <2>5. w'[c].pc = "idle" => w'[c].id = 0
    BY <1>5, FindOutcome
  <2>6. w'[c].pc \in {"create", "release"} => (events = 0 => ~Has(c)')
    BY <2>1, <2>4, NoneKnown
  <2>7. Reconcile(c)
    BY <1>5 DEF Reconcile
  <2> QED BY <2>1, <2>2, <2>3, <2>5, <2>6, <2>7, KnownKeeps
<1>6. CASE sdkCreate(c)
  <2>1. cr' = cr /\ w'[c].pc \in {"failed", "sync", "delete", "synced", "unsynced"}
    BY <1>6, CreateIs DEF sdkCreate
  <2>2. CASE events' # 0
    BY <2>1, <2>2 DEF Known, At
  <2>3. CASE nextId' = nextId
    <3>1. w'[c] = Over(c, "failed")
      BY <1>6, <2>3, CreateIs
    <3> QED BY <1>3, <1>6, <2>1, <2>3, <3>1, KnownKeeps DEF Reconcile
  <2>4. CASE events' = 0 /\ nextId' # nextId
    <3>1. events = 0 /\ ~Has(c)
      <4>1. events = 0
        BY <1>6, <2>4, EventsAdd DEF Next, Reconcile
      <4> QED BY <1>6, <4>1 DEF Known, sdkCreate
    <3>2. Effect(c)
      BY <1>6, EffectOf DEF Effect, Reconcile
    <3>3. Live' = Live \cup {nextId} /\ \A i \in Live \cap Live' : ec2'[i].of = ec2[i].of
      BY <2>4, <3>2, LiveAfter
    <3>4. w'[c].id = nextId
      BY <1>6, <2>4, <3>1, CreateIs
    <3>5. \A i \in Live' : ec2'[i].of = c => i = nextId
      BY <3>1, <3>3 DEF Has
    <3>6. cr[c].phase # "gone"
      <4>1. cr[c].managed /\ CROf(c)
        BY <1>6, TypeOKIs DEF Owned, sdkCreate
      <4> QED BY <4>1 DEF CROf
    <3> QED BY <2>1, <3>4, <3>5, <3>6 DEF Known, At
  <2> QED BY <2>2, <2>3, <2>4
<1>7. CASE deleteSecurityGroupRules(c) \/ createSecurityGroupRules(c)
  <2>1. w'[c].id = w[c].id /\ w'[c].pc \in {"failed", "sync", "delete", "synced"}
    BY <1>7, RulesId
  <2>2. cr' = cr /\ nextId' = nextId
    BY <1>7 DEF deleteSecurityGroupRules, createSecurityGroupRules, Go, Call
  <2> QED BY <1>7, <2>1, <2>2, KnownKeeps DEF Reconcile
<1>8. CASE DeleteObject(c)
  <2>1. cr' = cr /\ nextId' = nextId /\ w'[c].id = w[c].id /\ w'[c].pc \in {"failed", "release"}
    BY <1>2, <1>3, <1>8 DEF DeleteObject, Go, Call
  <2>2. CASE w'[c].pc = "failed"
    BY <1>8, <2>1, <2>2, KnownKeeps DEF Reconcile
  <2>3. CASE w'[c].pc = "release"
    <3>1. ec2' = [ec2 EXCEPT ![w[c].id] = Gone] /\ At(c, "delete")
      BY <1>2, <1>3, <1>8, <2>3 DEF DeleteObject, Go, Call
    <3>2. \A i \in Live' : i \in Live /\ i # w[c].id /\ ec2'[i].of = ec2[i].of
      BY <1>1, <3>1 DEF Live, Gone
    <3>3. events = 0 => ~Has(c)'
      BY <3>1, <3>2 DEF Known, Owned, Has, At
    <3> QED BY <1>8, <2>1, <2>3, <3>3, KnownKeeps DEF Reconcile
  <2> QED BY <2>1, <2>2, <2>3
<1>9. CASE setResourceUnmanaged(c) \/ PatchStatus(c)
  <2>1. w'[c].pc = "idle" /\ w'[c].id = 0 /\ Live' = Live /\ ec2' = ec2 /\ events' = events
    BY <1>2, <1>3, <1>9 DEF setResourceUnmanaged, PatchStatus, Live
  <2>2. CASE events # 0
    BY <2>1, <2>2 DEF Known, At
  <2>3. CASE events = 0 /\ setResourceUnmanaged(c)
    <3>1. ~Has(c)
      BY <2>3 DEF Known, setResourceUnmanaged
    <3> QED BY <2>1, <3>1 DEF Known, At, Has
  <2>4. CASE events = 0 /\ PatchStatus(c) /\ cr[c].phase = "gone"
    <3>1. cr' = cr /\ ~Has(c)
      BY <2>4 DEF PatchStatus, Known, Has
    <3> QED BY <2>1, <3>1 DEF Known, At, Has
  <2>5. CASE events = 0 /\ PatchStatus(c) /\ cr[c].phase # "gone"
    <3>1. cr'[c].id = w[c].id /\ cr'[c].phase # "gone" /\ ~At(c, "idle")
      BY <1>1, <2>5 DEF PatchStatus, CR, At
    <3>2. \A i \in Live : ec2[i].of = c => i = w[c].id
      BY <2>5, <3>1 DEF Known, Owned
    <3> QED BY <2>1, <3>1, <3>2 DEF Known, At
  <2> QED BY <1>9, <2>2, <2>3, <2>4, <2>5
<1> QED BY <1>4, <1>5, <1>6, <1>7, <1>8, <1>9 DEF Reconcile

LEMMA OthersKnown ==
  ASSUME TypeOK, Objects, NEW c \in CRs, Known(c), NEW d \in CRs \ {c}, Reconcile(d)
  PROVE  Known(c)'
<1>1. cr'[c] = cr[c] /\ w'[c] = w[c] /\ (Has(c)' => Has(c))
  BY OthersLeave
<1>2. events' = 0 => events = 0
  BY EventsAdd DEF Next
<1>3. \A i \in Live' : ec2'[i].of = c => i \in Live /\ ec2[i].of = c
  <2>1. Effect(d)
    BY EffectOf DEF Effect
  <2> QED BY <2>1, LiveAfter
<1> QED BY <1>1, <1>2, <1>3 DEF Known, At

LEMMA NextKnown ==
  ASSUME TypeOK, Objects, Ownership, NEW c \in CRs, Known(c), [Next]_vars
  PROVE  Known(c)'
<1>1. Owned(c) /\ cr \in [CRs -> CR] /\ cr[c] \in CR
  BY TypeOKIs DEF Ownership
<1>2. CASE \E d \in CRs : Reconcile(d)
  BY <1>1, <1>2, ReconcileKnown, OthersKnown
<1>3. CASE Crash \/ \E d \in CRs : EditSpec(d) \/ RecreateCR(d)
  <2>1. events' = events + 1 /\ events \in Nat
    BY <1>3, TypeOKIs, ReferencesAssumption DEF Crash, EditSpec, RecreateCR
  <2>2. w' = w \/ w'[c] = IdleWorker
    BY <1>3 DEF Crash, EditSpec, RecreateCR
  <2> QED BY <2>1, <2>2 DEF Known, At, IdleWorker
<1>4. CASE UNCHANGED vars
  BY <1>4 DEF vars, Known, At, Live, Has
<1>5. ASSUME NEW d \in CRs, DeleteCR(d) PROVE Known(c)'
  <2>1. UNCHANGED <<w, ec2, events>> /\ Live' = Live /\ Has(c)' = Has(c) /\ cr'[c].id = cr[c].id
    BY <1>1, <1>5 DEF DeleteCR, Live, Has, CR
  <2>2. cr'[c].phase = "gone" => cr[c].phase = "gone" \/ ~Has(c)
    BY <1>1, <1>5 DEF DeleteCR, Owned, CR
  <2> QED BY <2>1, <2>2 DEF Known, At, Has
<1> QED BY <1>2, <1>3, <1>4, <1>5 DEF Next

\* At most one event: a CR made anew has lost nothing.
LEMMA OneEventIsNew ==
  ASSUME TypeOK, MaxEvents <= 1, \A c \in CRs : Known(c)
  PROVE  RecreatedIsNew
<1> SUFFICES ASSUME NEW c \in CRs, RecreateCR(c) PROVE ~Has(c)
  BY DEF RecreatedIsNew
<1>1. events = 0 /\ cr[c].phase = "gone"
  BY TypeOKIs, ReferencesAssumption DEF RecreateCR
<1> QED BY <1>1 DEF Known, Has

\* The same, without the hypothesis, for all that can happen with one failed call, lost reply, crash, edit or new
\* CR, whatever the CRs and their specs are: a group is not lost and found again.
THEOREM LifecycleOfOneEvent ==
  MaxEvents <= 1 /\ Spec => ImplementsLifecycle
<1> SUFFICES ASSUME MaxEvents <= 1 PROVE Spec => ImplementsLifecycle
  OBVIOUS
<1> DEFINE Inv == TypeOK /\ Objects /\ Ownership /\ \A c \in CRs : Known(c)
<1>1. Init => Inv
  <2> SUFFICES ASSUME Init, NEW c \in CRs PROVE Known(c)
    BY InitType, InitObjects, InitOwned
  <2>1. Live = {} /\ w[c].id = 0 /\ w[c].pc = "idle"
    BY DEF Init, Live, Gone, IdleWorker
  <2> QED BY <2>1 DEF Known, At
<1>2. Inv /\ [Next]_vars => Inv' /\ [RecreatedIsNew]_vars
  <2> SUFFICES ASSUME TypeOK, Objects, Ownership, \A c \in CRs : Known(c), [Next]_vars
               PROVE  Inv' /\ RecreatedIsNew
    OBVIOUS
  <2>1. TypeOK' /\ Objects' /\ \A c \in CRs : Known(c)'
    BY NextType, NextObjects, NextKnown
  <2>2. RecreatedIsNew
    BY OneEventIsNew
  <2>3. Ownership'
    BY <2>2, NextFollows DEF Follows, Ownership
  <2> QED BY <2>1, <2>2, <2>3
<1> HIDE DEF Inv
<1>3. Spec => [][RecreatedIsNew]_vars
  BY <1>1, <1>2, PTL DEF Spec
<1> QED BY <1>3, LifecycleCorrect, PTL

=============================================================================
