----------------------------- MODULE References -----------------------------
(***************************************************************************)
(* Several CRs that refer to one another, each with a worker of its own.   *)
(* A pass reads the CRs its CR refers to and goes on with the ids it found *)
(* while they change; EC2 refuses to delete what another object needs.     *)
(* Source: pkg/resource/*/references.go and security_group/{hooks,sdk}.go. *)
(*                                                                         *)
(* A spec has two sets of references: `awaited`, to CRs that have to be    *)
(* synced, which are part of the object for good (a VPC, a subnet), and    *)
(* `groups`, the GroupRefs of a security group's rules, for which the CR   *)
(* has only to exist.  What a pass does inside one object is left to the   *)
(* modules of the kinds: a rule is the group it names.                     *)
(***************************************************************************)
EXTENDS Integers, FiniteSets

CONSTANTS
  CRs,
  KindOf,     \* the kind of a CR
  Specs,      \* the specs a user may write of a CR
  MaxObjects, \* bound: EC2 objects ever created
  MaxEvents   \* bound: failed calls, lost replies, crashes, edits and
              \* re-creations of CRs, together

----------------------------------------------------------------------------
(* The kinds a kind's awaited references lead to, and which kinds wait for *)
(* which.                                                                  *)

DHCPOptionsReferences               == {"vpc"}
EgressOnlyInternetGatewayReferences == {"vpc"}
InstanceReferences                  == {"launch_template", "subnet"}
InternetGatewayReferences           == {"route_table", "vpc"}
NATGatewayReferences                == {"elastic_ip_address", "subnet", "vpc"}
NetworkACLReferences                == {"subnet", "vpc"}
RouteTableReferences ==
  {"internet_gateway", "nat_gateway", "transit_gateway", "vpc_endpoint",
   "vpc_peering_connection", "vpc"}
\* mutant of SecurityGroupReferences: a GroupRef is awaited like any other.
SecurityGroupReferences_groups      == {"security_group", "vpc"}
SecurityGroupReferences             == {"vpc"}
SubnetReferences                    == {"route_table", "vpc"}
TransitGatewayVPCAttachmentReferences == {"subnet", "transit_gateway", "vpc"}
VPCEndpointReferences ==
  {"route_table", "security_group", "vpc_endpoint_service_configuration", "subnet", "vpc"}
VPCPeeringConnectionReferences      == {"vpc"}

AwaitedKinds ==
  [dhcp_options                   |-> DHCPOptionsReferences,
   egress_only_internet_gateway   |-> EgressOnlyInternetGatewayReferences,
   instance                       |-> InstanceReferences,
   internet_gateway               |-> InternetGatewayReferences,
   nat_gateway                    |-> NATGatewayReferences,
   network_acl                    |-> NetworkACLReferences,
   route_table                    |-> RouteTableReferences,
   security_group                 |-> SecurityGroupReferences,
   subnet                         |-> SubnetReferences,
   transit_gateway_vpc_attachment |-> TransitGatewayVPCAttachmentReferences,
   vpc_endpoint                   |-> VPCEndpointReferences,
   vpc_peering_connection         |-> VPCPeeringConnectionReferences]

\* The kinds that can wait for one another in a circle: a set of which each
\* member refers to a member.
Circular(kinds) == kinds # {} /\ \A k \in kinds : AwaitedKinds[k] \cap kinds # {}

MayAwait(k) == IF k \in DOMAIN AwaitedKinds THEN AwaitedKinds[k] ELSE {}

----------------------------------------------------------------------------
ASSUME ReferencesAssumption ==
  /\ CRs # {}
  /\ \A c \in CRs : \A spec \in Specs[c] :
       /\ spec.awaited \subseteq {r \in CRs : KindOf[r] \in MayAwait(KindOf[c])}
       /\ spec.groups \subseteq {r \in CRs : KindOf[r] = "security_group"}
       /\ spec.groups # {} => KindOf[c] = "security_group"
  /\ MaxObjects \in Nat /\ MaxEvents \in Nat

VARIABLES
  cr,      \* the custom resources, as the API server has them
  ec2,     \* the EC2 objects, by id
  nextId,  \* the id EC2 gives to the next object
  w,       \* the worker of each CR
  events

vars == <<cr, ec2, nextId, w, events>>

Ids  == 1 .. MaxObjects
Gone == [live |-> FALSE, of |-> CHOOSE c \in CRs : TRUE, uses |-> {}, rules |-> {}]
Live == {i \in Ids : ec2[i].live}

NewCR(spec) == [phase |-> "live", managed |-> FALSE, id |-> 0, synced |-> FALSE, spec |-> spec]

\* Fields of w[c]: `spec` is the desired object the pass started from, `ids` what
\* its references resolved to (0: not at all), `revoke` and `authorize` the rules
\* still to be sent.
NoSpec == [awaited |-> {}, groups |-> {}]

IdleWorker ==
  [pc |-> "idle", mode |-> "update", id |-> 0, spec |-> NoSpec,
   ids |-> [c \in CRs |-> 0], revoke |-> {}, authorize |-> {}]

At(c, label) == w[c].pc = label

Go(c, next) == w' = [w EXCEPT ![c] = next] /\ UNCHANGED <<cr, ec2, nextId, events>>

\* A pass that no longer needs its references.
Over(c, label) == [IdleWorker EXCEPT !.pc = label, !.id = w[c].id]

\* An AWS call on the object in hand that EC2 accepts: it takes effect, or is
\* throttled, or takes effect and the reply is lost.
Call(c, obj, next) ==
  /\ \/ ec2' = [ec2 EXCEPT ![w[c].id] = obj] /\ w' = [w EXCEPT ![c] = next] /\ UNCHANGED events
     \/ /\ events < MaxEvents /\ events' = events + 1
        /\ ec2' \in {ec2, [ec2 EXCEPT ![w[c].id] = obj]}
        /\ w' = [w EXCEPT ![c] = Over(c, "failed")]
  /\ UNCHANGED <<cr, nextId>>

----------------------------------------------------------------------------
(* Resolving.                                                              *)

\* The CR exists, is synced and has its id.
getReferencedResourceState(r) == cr[r].phase # "gone" /\ cr[r].synced /\ cr[r].id # 0

\* mutant of getReferencedResourceState_SecurityGroup: the state is validated here too.
getReferencedResourceState_SecurityGroup_validated(r) ==
  cr[r].phase # "gone" /\ cr[r].synced /\ cr[r].id # 0

\* skip_resource_state_validations: of a GroupRef the CR exists, perhaps without id.
getReferencedResourceState_SecurityGroup(r) == cr[r].phase # "gone"

Unresolvable(c) ==
  [awaited |-> {r \in cr[c].spec.awaited : ~getReferencedResourceState(r)},
   groups  |-> {g \in cr[c].spec.groups : ~getReferencedResourceState_SecurityGroup(g)}]

\* The reconciler takes the CR from the queue and reads the CRs it refers to, the
\* GroupRefs first, up to one that does not resolve.  That ends the pass, unless
\* the CR is being deleted: then the runtime goes on with what it has.  (The groups
\* found before one that is missing are dropped here: a deletion needs none.)
ResolveReferences(c) ==
  /\ At(c, "idle") /\ cr[c].phase # "gone"
  /\ LET failing  == Unresolvable(c).groups \cup Unresolvable(c).awaited
         resolved == IF Unresolvable(c).groups # {} THEN {}
                     ELSE cr[c].spec.groups
                            \cup (IF failing = {} THEN cr[c].spec.awaited ELSE {})
         pass     == [IdleWorker EXCEPT !.id = cr[c].id]
     IN  Go(c, CASE cr[c].phase = "live" /\ failing # {} -> [pass EXCEPT !.pc = "failed"]
                 [] OTHER -> [pass EXCEPT
                      !.pc = "read", !.spec = cr[c].spec,
                      !.ids = [r \in CRs |-> IF r \in resolved THEN cr[r].id ELSE 0],
                      !.mode = IF cr[c].phase = "live" THEN "update" ELSE "delete"])

\* mutant of referencesResolved: the references are taken for resolved.
referencesResolved_always(c) == TRUE

referencesResolved(c) == \A g \in w[c].spec.groups : w[c].ids[g] # 0

\* The groups the rules name.  An unresolved GroupRef reads as a reference of the
\* group to itself.
Named(c)        == {w[c].ids[g] : g \in w[c].spec.groups} \ {0}
Canonical(c, i) == {IF w[c].ids[g] = 0 THEN i ELSE w[c].ids[g] : g \in w[c].spec.groups}

----------------------------------------------------------------------------
(* Reading and creating.                                                   *)

IsGroup(c) == KindOf[c] = "security_group"

\* The object made for c by a call whose reply was lost.  A security group is
\* looked up by its name and VPC, if the reference to the VPC was resolved.
getSecurityGroupID(c) ==
  {i \in Live : IsGroup(c) /\ ec2[i].of = c
                /\ ec2[i].uses = {w[c].ids[r] : r \in w[c].spec.awaited}}

\* mutant of NotFound: the finalizer is put on a CR that has gone meanwhile.
NotFound_onGone(c) ==
  IF w[c].mode = "delete" THEN Go(c, Over(c, "release"))
  ELSE /\ w' = [w EXCEPT ![c] = [@ EXCEPT !.pc = "create", !.mode = "create"]]
       /\ cr' = [cr EXCEPT ![c].managed = TRUE]
       /\ UNCHANGED <<ec2, nextId, events>>

\* mutant of NotFound: created without a finalizer.
NotFound_noFinalizer(c) ==
  IF w[c].mode = "delete" THEN Go(c, Over(c, "release"))
  ELSE Go(c, IF cr[c].phase = "gone" THEN IdleWorker
             ELSE [w[c] EXCEPT !.pc = "create", !.mode = "create"])

\* Nothing was found: create it, under the finalizer, or let the CR go.
NotFound(c) ==
  IF w[c].mode = "delete" THEN Go(c, Over(c, "release"))
  ELSE /\ w' = [w EXCEPT ![c] = IF cr[c].phase = "gone" THEN IdleWorker
                                ELSE [@ EXCEPT !.pc = "create", !.mode = "create"]]
       /\ cr' = IF cr[c].phase = "gone" THEN cr ELSE [cr EXCEPT ![c].managed = TRUE]
       /\ UNCHANGED <<ec2, nextId, events>>

\* The rules are sent, or the pass is over.
Sync(next) ==
  [next EXCEPT !.pc = IF next.revoke # {} \/ next.authorize # {} THEN "sync"
                      ELSE IF next.mode = "delete" THEN "delete" ELSE "synced"]

\* A difference that cannot be sent yet leaves the CR unsynced.
customUpdateSecurityGroup(c, i) ==
  IF Canonical(c, i) = ec2[i].rules THEN [w[c] EXCEPT !.pc = "synced", !.id = i]
  ELSE IF ~referencesResolved(c) THEN [Over(c, "unsynced") EXCEPT !.id = i]
  ELSE Sync([w[c] EXCEPT !.id = i, !.revoke = ec2[i].rules \ Named(c),
                         !.authorize = Named(c) \ ec2[i].rules])

\* mutant of sdkDelete: the group is deleted with its rules.
sdkDelete_withRules(c, i) == [Over(c, "delete") EXCEPT !.id = i]

\* A group's own rules go first, so that groups that name one another can go.
sdkDelete(c, i) ==
  Sync([Over(c, "delete") EXCEPT !.id = i, !.mode = "delete", !.revoke = ec2[i].rules])

\* That the recorded group does not exist is an error.
sdkFind(c) ==
  /\ At(c, "read")
  /\ LET found == IF w[c].id # 0 THEN {w[c].id} \cap Live ELSE getSecurityGroupID(c)
     IN  IF found = {}
         THEN IF IsGroup(c) /\ w[c].id # 0 THEN Go(c, Over(c, "failed")) ELSE NotFound(c)
         ELSE \E i \in found :
                Go(c, IF w[c].mode = "delete" THEN sdkDelete(c, i)
                                              ELSE customUpdateSecurityGroup(c, i))

\* EC2 makes an object of what exists, and no two groups of one name.  The rules
\* follow, unless a GroupRef has no id yet: they are left to a later pass.
sdkCreate(c) ==
  LET uses    == {w[c].ids[r] : r \in w[c].spec.awaited}
      obj     == [live |-> TRUE, of |-> c, uses |-> uses, rules |-> {}]
      created == [w[c] EXCEPT !.id = nextId]
  IN  /\ At(c, "create")
      /\ IF nextId \in Ids /\ uses \subseteq Live /\ getSecurityGroupID(c) = {}
         THEN /\ ec2' \in {ec2, [ec2 EXCEPT ![nextId] = obj]}
              /\ nextId' = IF ec2' = ec2 THEN nextId ELSE nextId + 1
              /\ \/ /\ ec2' # ec2 /\ UNCHANGED events
                    /\ w' = [w EXCEPT ![c] =
                               IF referencesResolved(c)
                               THEN Sync([created EXCEPT !.authorize = Named(c)])
                               ELSE [Over(c, "unsynced") EXCEPT !.id = nextId]]
                 \/ /\ events < MaxEvents /\ events' = events + 1
                    /\ w' = [w EXCEPT ![c] = Over(c, "failed")]
         ELSE w' = [w EXCEPT ![c] = Over(c, "failed")] /\ UNCHANGED <<ec2, nextId, events>>
      /\ UNCHANGED cr

----------------------------------------------------------------------------
(* Updating and deleting.                                                  *)

deleteSecurityGroupRules(c) ==
  /\ At(c, "sync") /\ w[c].revoke # {}
  /\ LET obj == ec2[w[c].id]
     IN  IF obj.live /\ w[c].revoke \subseteq obj.rules
         THEN Call(c, [obj EXCEPT !.rules = @ \ w[c].revoke],
                   Sync([w[c] EXCEPT !.revoke = {}]))
         ELSE Go(c, Over(c, "failed"))

\* EC2 accepts a rule that names a group that exists.
createSecurityGroupRules(c) ==
  /\ At(c, "sync") /\ w[c].revoke = {} /\ w[c].authorize # {}
  /\ LET obj == ec2[w[c].id]
     IN  IF obj.live /\ w[c].authorize \subseteq Live \ obj.rules
         THEN Call(c, [obj EXCEPT !.rules = @ \cup w[c].authorize],
                   Sync([w[c] EXCEPT !.authorize = {}]))
         ELSE Go(c, Over(c, "failed"))

\* EC2 refuses to delete what another object uses or names in a rule.
InUse(i) == \E j \in Live \ {i} : i \in ec2[j].uses \cup ec2[j].rules

DeleteObject(c) ==
  /\ At(c, "delete")
  /\ IF w[c].id \in Live /\ ~InUse(w[c].id)
     THEN Call(c, Gone, Over(c, "release"))
     ELSE Go(c, Over(c, "failed"))

setResourceUnmanaged(c) ==
  /\ At(c, "release")
  /\ cr' = [cr EXCEPT ![c].phase = "gone", ![c].managed = FALSE]
  /\ w' = [w EXCEPT ![c] = IdleWorker]
  /\ UNCHANGED <<ec2, nextId, events>>

PatchStatus(c) ==
  /\ w[c].pc \in {"synced", "unsynced", "failed"}
  /\ cr' = IF cr[c].phase = "gone" THEN cr
           ELSE [cr EXCEPT ![c].id = w[c].id, ![c].synced = At(c, "synced")]
  /\ w' = [w EXCEPT ![c] = IdleWorker]
  /\ UNCHANGED <<ec2, nextId, events>>

Reconcile(c) ==
  \/ ResolveReferences(c) \/ sdkFind(c) \/ sdkCreate(c)
  \/ deleteSecurityGroupRules(c)
  \/ createSecurityGroupRules(c) \/ DeleteObject(c)
  \/ setResourceUnmanaged(c) \/ PatchStatus(c)

----------------------------------------------------------------------------
(* The user, and failures.                                                 *)

EditSpec(c) ==
  /\ cr[c].phase = "live"
  /\ events < MaxEvents /\ events' = events + 1
  /\ \E spec \in Specs[c] \ {cr[c].spec} : cr' = [cr EXCEPT ![c].spec = spec]
  /\ UNCHANGED <<ec2, nextId, w>>

\* Without a finalizer the API server drops the object at once.
DeleteCR(c) ==
  /\ cr[c].phase = "live"
  /\ cr' = [cr EXCEPT ![c].phase = IF cr[c].managed THEN "deleting" ELSE "gone"]
  /\ UNCHANGED <<ec2, nextId, w, events>>

RecreateCR(c) ==
  /\ cr[c].phase = "gone"
  /\ events < MaxEvents /\ events' = events + 1
  /\ \E spec \in Specs[c] : cr' = [cr EXCEPT ![c] = NewCR(spec)]
  /\ UNCHANGED <<ec2, nextId, w>>

\* The controller stops, and every pass with it.
Crash ==
  /\ \E c \in CRs : ~At(c, "idle")
  /\ events < MaxEvents /\ events' = events + 1
  /\ w' = [c \in CRs |-> IdleWorker]
  /\ UNCHANGED <<cr, ec2, nextId>>

Init ==
  /\ \E spec \in [CRs -> UNION {Specs[c] : c \in CRs}] :
       /\ \A c \in CRs : spec[c] \in Specs[c]
       /\ cr = [c \in CRs |-> NewCR(spec[c])]
  /\ ec2 = [i \in Ids |-> Gone]
  /\ nextId = 1
  /\ w = [c \in CRs |-> IdleWorker]
  /\ events = 0

Next ==
  \/ \E c \in CRs : Reconcile(c) \/ EditSpec(c) \/ DeleteCR(c) \/ RecreateCR(c)
  \/ Crash

Spec     == Init /\ [][Next]_vars

\* Every CR is requeued, after an error and on the resync period.
FairSpec == Spec /\ \A c \in CRs : WF_vars(Reconcile(c))

----------------------------------------------------------------------------
AllSpecs == UNION {Specs[c] : c \in CRs}

\* Every variable keeps its type, a CR one of its own specs, and it has the finalizer
\* while it waits for its deletion and not when it is gone.
TypeOK ==
  /\ cr \in [CRs -> [phase: {"live", "deleting", "gone"}, managed: BOOLEAN,
                     id: Ids \cup {0}, synced: BOOLEAN, spec: AllSpecs]]
  /\ \A c \in CRs : /\ cr[c].spec \in Specs[c]
                    /\ cr[c].phase = "deleting" => cr[c].managed
                    /\ cr[c].phase = "gone" => ~cr[c].managed
  /\ ec2 \in [Ids -> [live: BOOLEAN, of: CRs, uses: SUBSET Ids, rules: SUBSET Ids]]
  /\ nextId \in 1 .. MaxObjects + 1
  /\ w \in [CRs -> [pc: {"idle", "read", "create", "sync", "delete", "release",
                         "synced", "unsynced", "failed"},
                    mode: {"update", "create", "delete"}, id: Ids \cup {0},
                    spec: AllSpecs \cup {NoSpec}, ids: [CRs -> Ids \cup {0}],
                    revoke: SUBSET Ids, authorize: SUBSET Ids]]
  /\ events \in 0 .. MaxEvents

\* What keeps a pass over c from going on.
Waiting(c) == IF cr[c].phase = "live" THEN Unresolvable(c).awaited \cup Unresolvable(c).groups ELSE {}

\* A route table alone refers back, through its routes, to kinds that lead to it.
CirclesHaveRoutes ==
  \A kinds \in SUBSET (DOMAIN AwaitedKinds) : Circular(kinds) => "route_table" \in kinds

\* CRs never wait for one another in a circle, at any time of their creation and
\* deletion, although security groups may name one another; and none but those of
\* route tables and what their routes lead to ever can.
NoCircularWait ==
  /\ CirclesHaveRoutes
  /\ \A S \in (SUBSET CRs) \ {{}} : \E c \in S : Waiting(c) \cap S = {}

\* A pass that reports success leaves the rules to exactly the groups declared,
\* each of them with an id: although the groups come to their ids at any time,
\* and a rule to one that has none looks like one to the group itself.
SyncedIsExact ==
  \A c \in CRs : At(c, "synced") /\ w[c].id \in Live =>
    /\ ec2[w[c].id].rules = {w[c].ids[g] : g \in w[c].spec.groups}
    /\ ec2[w[c].id].uses \subseteq Live

Referred(c) == cr[c].spec.awaited \cup cr[c].spec.groups

\* No CR refers to one that is gone or going.
Sound == \A c \in CRs : cr[c].phase = "live" => \A r \in Referred(c) : cr[r].phase = "live"

\* An object that neither its CR nor its worker knows.
Lost == {i \in Live : cr[ec2[i].of].id # i /\ w[ec2[i].of].id # i}

\* After the last failure and edit every CR is synced with its own object, made of
\* the objects of the CRs it refers to: groups that name one another in a circle
\* do not wait for one another for ever.
IsExact(c) ==
  /\ cr[c].synced /\ cr[c].id \in Live
  /\ ec2[cr[c].id].uses = {cr[r].id : r \in cr[c].spec.awaited}
  /\ ec2[cr[c].id].rules = {cr[g].id : g \in cr[c].spec.groups}

Converges ==
  <>[](Sound => \A c \in CRs : cr[c].phase = "live" => IsExact(c))

\* In the end no deleted CR is left, in whatever order the CRs around it are deleted
\* and though its references no longer resolve, if no CR that stays refers to one
\* that goes: unless its object went first (sdkFind takes that for an error), or an
\* object needs it that no CR knows.
DeletionProceeds ==
  <>[](Sound /\ Lost = {} =>
         \A c \in CRs : cr[c].phase = "deleting" => cr[c].id # 0 /\ cr[c].id \notin Live)

\* Of each CR the objects come and go as the abstract specification allows.
Abs(c) == INSTANCE Lifecycle WITH claimed <- cr[c].managed, objects <- {cr[c].id} \cap Live
ImplementsLifecycle ==
  /\ \A c \in CRs : Abs(c)!Init
  /\ [][\A c \in CRs : Abs(c)!Next \/ UNCHANGED Abs(c)!vars]_vars
=============================================================================
