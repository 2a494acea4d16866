-------------------------------- MODULE VPC --------------------------------
(***************************************************************************)
(* The VPC controller: one custom resource (CR), the VPCs created for it,  *)
(* and the reconciler.  Source: pkg/resource/vpc/{hooks,sdk,manager}.go.   *)
(*                                                                         *)
(* EC2 works on CIDR associations in the background: an association is     *)
(* "associating", "associated", "disassociating", and in the end "dead"    *)
(* (state "disassociated"), an entry DescribeVpcs still lists for a while. *)
(* The default security group of a VPC starts with an ingress and an       *)
(* egress rule, which the CR may ask to be removed.                        *)
(***************************************************************************)
EXTENDS Integers, FiniteSets

CONSTANTS
  CIDRs,
  Primary,         \* the first CIDR of every spec; it stays for good
  BadCIDRs,        \* CIDRs that EC2 refuses to associate
  Attrs,           \* the VPC's attributes, on or off (DNS support, ...)
  Tags,
  SpecCIDRs,       \* the CIDR sets a user may declare
  SpecAttrs,       \* the sets of attributes a user may switch on
  SpecTags,
  SpecDisallow,    \* values of Spec.DisallowSecurityGroupDefaultRules
  OthersMayDelete, \* may another AWS client delete a VPC?
  MaxVPCs,         \* bound: VPCs ever created
  MaxFaults,       \* bound: failed calls, lost replies and crashes
  MaxEdits,        \* bound: edits and re-creations of the CR
  MaxDrifts        \* bound: changes made by other AWS clients

ASSUME VPCAssumption ==
  /\ Primary \in CIDRs /\ BadCIDRs \subseteq CIDRs \ {Primary}
  /\ \A s \in SpecCIDRs : s \subseteq CIDRs /\ Primary \in s
  /\ SpecAttrs \subseteq SUBSET Attrs /\ SpecTags \subseteq SUBSET Tags
  /\ SpecDisallow \subseteq BOOLEAN /\ OthersMayDelete \in BOOLEAN
  /\ MaxVPCs \in Nat /\ MaxFaults \in Nat /\ MaxEdits \in Nat /\ MaxDrifts \in Nat

VARIABLES
  cr,        \* the custom resource, as the API server has it
  vpcs,      \* the VPCs in EC2, by id; NoVPC where there is none
  nextId,    \* the id EC2 gives to the next VPC
  recorded,  \* the ids a CR's status has ever held
  w,         \* the reconcile worker
  faults, edits, drifts

env  == <<nextId, recorded, edits, drifts>>
vars == <<cr, vpcs, w, faults, env>>

Ids == 1 .. MaxVPCs

States       == {"none", "associating", "associated", "disassociating"}
Transitional == {"associating", "disassociating"}

\* `state` is that of the one association of a CIDR that is not dead; `dead`
\* the CIDRs with a dead entry; `rules` the default rules of the default group.
NoVPC ==
  [live |-> FALSE, state |-> [c \in CIDRs |-> "none"], dead |-> {},
   rules |-> {}, attrs |-> {}, tags |-> {}]

Live == {i \in Ids : vpcs[i].live}

NewCR(spec) ==
  [phase |-> "live", managed |-> FALSE, id |-> 0, synced |-> FALSE, spec |-> spec]

SpecType == [cidrs: SpecCIDRs, attrs: SpecAttrs, tags: SpecTags, disallow: SpecDisallow]

\* Fields of w: `spec` is the desired object the pass started from, `id` the
\* VPC in hand, `seen` what sdkFind read of it, `rulesExist` what
\* hasSecurityGroupDefaultRules answered.  toDelete (association entries),
\* toAdd (CIDRs) and toSet (attributes) are what remains to be done.
\* `readFailed`: the rules could not be read, and nobody noticed; `interfered`:
\* another client changed the VPC after the pass began.
IdleWorker ==
  [pc |-> "idle", mode |-> "update", id |-> 0, seen |-> NoVPC, rulesExist |-> FALSE,
   spec |-> [cidrs |-> {}, attrs |-> {}, tags |-> {}, disallow |-> FALSE],
   toDelete |-> {}, toAdd |-> {}, toSet |-> {}, readFailed |-> FALSE,
   interfered |-> FALSE]

At(label) == w.pc = label
V == vpcs[w.id]

----------------------------------------------------------------------------
(* Helpers.                                                                *)

\* setSpecCIDRs: Spec.CIDRBlocks of the object read is every CIDR listed, dead
\* entries included.
setSpecCIDRs(v) == {c \in CIDRs : v.state[c] # "none"} \cup v.dead

\* mutant of toDeleteOf: every association is replaced.
toDeleteOf_all(desired, v) == {c \in CIDRs : v.state[c] # "none"} \X {"live"}

\* computeStringPDifference, and the associations syncCIDRBlocks finds for a
\* CIDR that is to go.
toAddOf(desired, v) == desired \ setSpecCIDRs(v)
toDeleteOf(desired, v) ==
  LET extra == setSpecCIDRs(v) \ desired
  IN  ({c \in extra : v.state[c] # "none"} \X {"live"})
        \cup ((extra \cap v.dead) \X {"dead"})

areCIDRBlocksSyncing(v) == \E c \in CIDRs : v.state[c] \in Transitional

\* What manager.go's onError is given: sdkCreate returns nil with its errors,
\* so the object in hand is the CR as it was, without the id of a new VPC.
onError == [w EXCEPT !.pc = "failed", !.id = IF w.mode = "create" THEN cr.id ELSE @]

\* An AWS call on the VPC in hand that EC2 accepts: it takes effect, or is
\* throttled, or takes effect and the reply is lost.
Call(v, next, onFailure) ==
  \/ vpcs' = [vpcs EXCEPT ![w.id] = v] /\ w' = next /\ UNCHANGED faults
  \/ /\ faults < MaxFaults /\ faults' = faults + 1
     /\ vpcs' \in {vpcs, [vpcs EXCEPT ![w.id] = v]}
     /\ w' = onFailure

Refused  == w' = onError /\ UNCHANGED <<vpcs, faults>>
Go(next) == w' = next /\ UNCHANGED <<vpcs, faults>>

----------------------------------------------------------------------------
(* Reading.                                                                *)

NotFound == [w EXCEPT !.pc = IF w.mode = "delete" THEN "release" ELSE "manage"]

\* The reconciler takes the CR from the queue.
Begin ==
  /\ At("idle")
  /\ cr.phase # "gone"
  /\ Go([IdleWorker EXCEPT
           !.pc = "describe", !.id = cr.id, !.spec = cr.spec,
           !.mode = IF cr.phase = "deleting" THEN "delete" ELSE "update"])
  /\ UNCHANGED <<cr, env>>

\* mutant of sdkFind: "UNKNOWN" is the only code taken for NotFound.
sdkFind_unknownOnly ==
  /\ At("describe")
  /\ IF w.id = 0 THEN Go(NotFound)
     ELSE IF V.live THEN Go([w EXCEPT !.pc = "readRules", !.seen = V])
     ELSE Refused
  /\ UNCHANGED <<cr, env>>

\* mutant of sdkFind: without an id DescribeVpcs lists every VPC, and the first,
\* somebody else's, is taken.
sdkFind_anyVPC ==
  /\ At("describe")
  /\ IF w.id = 0 THEN Go([w EXCEPT !.pc = "readRules", !.id = MaxVPCs + 1])
     ELSE IF V.live THEN Go([w EXCEPT !.pc = "readRules", !.seen = V])
     ELSE Go(NotFound)
  /\ UNCHANGED <<cr, env>>

\* sdkFind: a CR without an id has no VPC yet, and InvalidVpcID.NotFound says
\* that it has one no more.
sdkFind ==
  /\ At("describe")
  /\ IF w.id = 0 THEN Go(NotFound)
     ELSE IF V.live THEN Go([w EXCEPT !.pc = "readRules", !.seen = V])
     ELSE Go(NotFound)
  /\ UNCHANGED <<cr, env>>

\* A read that fails.  LateInitialize reports it on the object it was given.
ReadFails ==
  /\ \/ (At("describe") \/ At("readRules") \/ At("checkRules")) /\ w' = onError
     \/ (At("lateInit") \/ At("lateRules")) /\ w' = [w EXCEPT !.pc = "failed"]
  /\ faults < MaxFaults /\ faults' = faults + 1
  /\ UNCHANGED <<cr, vpcs, env>>

\* DescribeSecurityGroupRules, which may fail.
DescribeSecurityGroupRules(answered) ==
  /\ V.live
  /\ \/ answered /\ UNCHANGED faults
     \/ ~answered /\ faults < MaxFaults /\ faults' = faults + 1
  /\ UNCHANGED vpcs

\* The error of that call is a variable of the loop: it is lost, and the answer
\* is no.  (A failed DescribeSecurityGroups is ReadFails; that of a VPC that is
\* gone fails too.)
hasSecurityGroupDefaultRules(answered) == answered /\ V.rules # {}

\* The end of sdkFind: while a CIDR is in transition the pass is over.
readRules ==
  /\ At("readRules")
  /\ \/ ~V.live /\ Refused
     \/ \E answered \in BOOLEAN :
          /\ DescribeSecurityGroupRules(answered)
          /\ w' = [w EXCEPT !.rulesExist = hasSecurityGroupDefaultRules(answered),
               !.readFailed = ~answered,
               !.pc = IF areCIDRBlocksSyncing(w.seen) THEN "requeue" ELSE "found"]
  /\ UNCHANGED <<cr, env>>

----------------------------------------------------------------------------
(* Creating: CreateVpc, the other CIDRs, the attributes, the rules.        *)

\* mutant of setResourceManaged: Create is called without the finalizer.
setResourceManaged_noFinalizer ==
  /\ At("manage")
  /\ w' = IF cr.phase = "gone" THEN IdleWorker
          ELSE [w EXCEPT !.pc = "create", !.mode = "create"]
  /\ UNCHANGED <<cr, vpcs, faults, env>>

\* The runtime puts the finalizer on the CR before it calls Create.
setResourceManaged ==
  /\ At("manage")
  /\ IF cr.phase = "gone"
     THEN w' = IdleWorker /\ UNCHANGED cr
     ELSE /\ w' = [w EXCEPT !.pc = "create", !.mode = "create"]
          /\ cr' = [cr EXCEPT !.managed = TRUE]
  /\ UNCHANGED <<vpcs, faults, env>>

\* CreateVpc carries the primary CIDR and the tags.
sdkCreate ==
  /\ At("create")
  /\ IF nextId \in Ids
     THEN LET new == [NoVPC EXCEPT !.live = TRUE, !.state[Primary] = "associated",
                        !.rules = {"egress", "ingress"}, !.tags = w.spec.tags]
          IN  \/ /\ vpcs' = [vpcs EXCEPT ![nextId] = new]
                 /\ nextId' = nextId + 1
                 /\ w' = [w EXCEPT !.pc = "cidrs", !.id = nextId,
                            !.toAdd = w.spec.cidrs \ {Primary}, !.toSet = Attrs]
                 /\ UNCHANGED faults
              \/ /\ faults < MaxFaults /\ faults' = faults + 1
                 /\ w' = onError
                 /\ \/ vpcs' = [vpcs EXCEPT ![nextId] = new] /\ nextId' = nextId + 1
                    \/ UNCHANGED <<vpcs, nextId>>
     ELSE Refused /\ UNCHANGED nextId         \* VpcLimitExceeded
  /\ UNCHANGED <<cr, recorded, edits, drifts>>

----------------------------------------------------------------------------
(* Updating: the CIDRs, the default rules, the attributes, the tags.       *)

\* mutant of customUpdateVPC: the CIDRs are left as they are.
customUpdateVPC_noCIDRs ==
  /\ At("found") /\ w.mode = "update"
  /\ Go([w EXCEPT !.pc = "cidrs",
            !.toSet = (w.spec.attrs \ w.seen.attrs) \cup (w.seen.attrs \ w.spec.attrs)])
  /\ UNCHANGED <<cr, env>>

\* The delta the runtime computed, as far as customUpdateVPC acts on it.
customUpdateVPC ==
  /\ At("found") /\ w.mode = "update"
  /\ Go([w EXCEPT !.pc = "cidrs",
            !.toDelete = toDeleteOf(w.spec.cidrs, w.seen),
            !.toAdd = toAddOf(w.spec.cidrs, w.seen),
            !.toSet = (w.spec.attrs \ w.seen.attrs) \cup (w.seen.attrs \ w.spec.attrs)])
  /\ UNCHANGED <<cr, env>>

\* sdkCreate drops the error of syncCIDRBlocks, customUpdateVPC returns it.
cidrsFailed ==
  IF w.mode = "create" THEN [w EXCEPT !.pc = "attrs", !.toAdd = {}] ELSE onError

\* An entry that is dead may be taken or refused; the primary CIDR and one that
\* is not associated are refused.
DisassociateVpcCidrBlock ==
  /\ At("cidrs")
  /\ \E e \in w.toDelete :
       LET c    == e[1]
           next == [w EXCEPT !.toDelete = @ \ {e}]
       IN  \/ /\ e[2] = "live" /\ V.state[c] = "associated" /\ c # Primary
              /\ Call([V EXCEPT !.state[c] = "disassociating"], next, cidrsFailed)
           \/ e[2] = "dead" /\ V.live /\ Go(next)
           \/ /\ ~(e[2] = "live" /\ V.state[c] = "associated" /\ c # Primary)
              /\ Go(cidrsFailed)
  /\ UNCHANGED <<cr, env>>

AssociateVpcCidrBlock ==
  /\ At("cidrs") /\ w.toDelete = {}
  /\ \E c \in w.toAdd :
       IF V.live /\ V.state[c] = "none" /\ c \notin BadCIDRs
       THEN Call([V EXCEPT !.state[c] = "associating"], [w EXCEPT !.toAdd = @ \ {c}],
                 cidrsFailed)
       ELSE Go(cidrsFailed)
  /\ UNCHANGED <<cr, env>>

\* The CIDRs are done.
syncCIDRBlocks ==
  /\ At("cidrs") /\ w.toDelete = {} /\ w.toAdd = {}
  /\ Go([w EXCEPT !.pc = IF w.mode = "update" /\ w.spec.disallow /\ w.rulesExist
                         THEN "egress" ELSE "attrs"])
  /\ UNCHANGED <<cr, env>>

\* deleteSecurityGroupDefaultRules: the egress rule, then the ingress rule.  A
\* rule that is gone already is InvalidPermission.NotFound, and every error
\* ends the pass.
RevokeSecurityGroup(rule, next) ==
  IF rule \in V.rules
  THEN Call([V EXCEPT !.rules = @ \ {rule}], next, onError)
  ELSE Refused

deleteSecurityGroupDefaultRules ==
  /\ \/ At("egress")  /\ RevokeSecurityGroup("egress", [w EXCEPT !.pc = "ingress"])
     \/ At("ingress") /\ RevokeSecurityGroup("ingress", [w EXCEPT !.pc = "attrs"])
  /\ UNCHANGED <<cr, env>>

\* ModifyVpcAttribute, once for each attribute.
syncAttributes ==
  /\ At("attrs")
  /\ \/ \E a \in w.toSet :
          IF V.live
          THEN Call([V EXCEPT !.attrs = IF a \in w.spec.attrs THEN @ \cup {a} ELSE @ \ {a}],
                    [w EXCEPT !.toSet = @ \ {a}], onError)
          ELSE Refused
     \/ /\ w.toSet = {}
        /\ Go([w EXCEPT !.pc = IF w.mode = "create" THEN "checkRules" ELSE "tags"])
  /\ UNCHANGED <<cr, env>>

\* The end of sdkCreate: the default rules, if unwanted, are left to an update.
checkRules ==
  /\ At("checkRules")
  /\ \/ ~V.live /\ Refused
     \/ \E answered \in BOOLEAN :
          /\ DescribeSecurityGroupRules(answered)
          /\ w' = [w EXCEPT !.rulesExist = hasSecurityGroupDefaultRules(answered),
               !.readFailed = ~answered,
               !.pc = IF hasSecurityGroupDefaultRules(answered) /\ w.spec.disallow
                      THEN "requeue" ELSE "lateInit"]
  /\ UNCHANGED <<cr, env>>

\* tags.Sync: DeleteTags, then CreateTags; it may stop between the two.
syncTags ==
  /\ At("tags")
  /\ LET removed == V.tags \ (w.seen.tags \ w.spec.tags)
         next    == [w EXCEPT !.pc = "lateInit"]
     IN  CASE w.spec.tags = w.seen.tags -> Go(next)
           [] ~V.live /\ w.spec.tags # w.seen.tags -> Refused
           [] OTHER ->
                \/ Call([V EXCEPT !.tags = removed \cup (w.spec.tags \ w.seen.tags)],
                        next, onError)
                \/ /\ faults < MaxFaults /\ faults' = faults + 1
                   /\ vpcs' = [vpcs EXCEPT ![w.id].tags = removed] /\ w' = onError
  /\ UNCHANGED <<cr, env>>

----------------------------------------------------------------------------
(* LateInitialize, after every create and update that went well: sdkFind   *)
(* once more.  What it reads of the fields in this module is not kept, but *)
(* its error, a requeue included, leaves the object in hand unsynced.      *)

\* mutant of LateInitialize: the requeue of sdkFind is no error.
LateInitialize_ignoresRequeue ==
  /\ \/ At("lateInit")  /\ Go([w EXCEPT !.pc = IF V.live THEN "lateRules" ELSE "failed"])
     \/ At("lateRules") /\ Go([w EXCEPT !.pc = IF V.live THEN "synced" ELSE "failed"])
  /\ UNCHANGED <<cr, env>>

\* DescribeVpcs, and the reads that follow it, whose answers no longer matter
\* once a CIDR is in transition.
LateInitialize ==
  /\ \/ At("lateInit") /\ Go([w EXCEPT !.pc =
           IF ~V.live THEN "failed" ELSE IF areCIDRBlocksSyncing(V) THEN "requeue" ELSE "lateRules"])
     \/ At("lateRules") /\ Go([w EXCEPT !.pc = IF V.live THEN "synced" ELSE "failed"])
  /\ UNCHANGED <<cr, env>>

----------------------------------------------------------------------------
(* Deleting, and the end of a pass.                                        *)

sdkDelete ==
  /\ At("found") /\ w.mode = "delete"
  /\ IF V.live THEN Call(NoVPC, [w EXCEPT !.pc = "release"], onError) ELSE Refused
  /\ UNCHANGED <<cr, env>>

setResourceUnmanaged ==
  /\ At("release")
  /\ cr' = [cr EXCEPT !.phase = "gone", !.managed = FALSE]
  /\ w' = IdleWorker
  /\ UNCHANGED <<vpcs, faults, env>>

\* The status of the object in hand is patched in; a requeue error leaves the
\* CR unsynced.
PatchStatus ==
  /\ w.pc \in {"synced", "requeue", "failed"}
  /\ cr' = IF cr.phase = "gone" THEN cr
           ELSE [cr EXCEPT !.id = w.id, !.synced = At("synced")]
  /\ recorded' = (recorded \cup {cr'.id}) \ {0}
  /\ w' = IdleWorker
  /\ UNCHANGED <<vpcs, faults, nextId, edits, drifts>>

\* The controller stops, or its status patch is lost; it starts over.
Crash ==
  /\ ~At("idle")
  /\ faults < MaxFaults /\ faults' = faults + 1
  /\ w' = IdleWorker
  /\ UNCHANGED <<cr, vpcs, env>>

Reconcile ==
  \/ Begin \/ sdkFind \/ readRules \/ setResourceManaged \/ sdkCreate
  \/ customUpdateVPC \/ DisassociateVpcCidrBlock \/ AssociateVpcCidrBlock
  \/ syncCIDRBlocks \/ deleteSecurityGroupDefaultRules \/ syncAttributes
  \/ checkRules \/ syncTags \/ LateInitialize \/ sdkDelete \/ setResourceUnmanaged
  \/ PatchStatus

----------------------------------------------------------------------------
(* EC2's background work, the user, and the rest of the world.             *)

Settle ==
  /\ \E i \in Live, c \in CIDRs :
       \/ /\ vpcs[i].state[c] = "associating"
          /\ vpcs' = [vpcs EXCEPT ![i].state[c] = "associated"]
       \/ /\ vpcs[i].state[c] = "disassociating"
          /\ vpcs' = [vpcs EXCEPT ![i].state[c] = "none", ![i].dead = @ \cup {c}]
       \/ c \in vpcs[i].dead /\ vpcs' = [vpcs EXCEPT ![i].dead = @ \ {c}]
  /\ UNCHANGED <<cr, w, faults, env>>

EditSpec ==
  /\ cr.phase = "live"
  /\ edits < MaxEdits /\ edits' = edits + 1
  /\ \E spec \in SpecType : cr' = [cr EXCEPT !.spec = spec]
  /\ UNCHANGED <<vpcs, w, faults, nextId, recorded, drifts>>

\* Without a finalizer the API server drops the object at once.
DeleteCR ==
  /\ cr.phase = "live"
  /\ cr' = [cr EXCEPT !.phase = IF cr.managed THEN "deleting" ELSE "gone"]
  /\ UNCHANGED <<vpcs, w, faults, env>>

RecreateCR ==
  /\ cr.phase = "gone"
  /\ edits < MaxEdits /\ edits' = edits + 1
  /\ \E spec \in SpecType : cr' = NewCR(spec)
  /\ UNCHANGED <<vpcs, w, faults, nextId, recorded, drifts>>

Drift ==
  /\ drifts < MaxDrifts /\ drifts' = drifts + 1
  /\ \E i \in Live :
       \/ \E c \in CIDRs \ BadCIDRs :
            /\ vpcs[i].state[c] = "none"
            /\ vpcs' = [vpcs EXCEPT ![i].state[c] = "associating"]
       \/ \E c \in CIDRs \ {Primary} :
            /\ vpcs[i].state[c] = "associated"
            /\ vpcs' = [vpcs EXCEPT ![i].state[c] = "disassociating"]
       \/ \E r \in vpcs[i].rules : vpcs' = [vpcs EXCEPT ![i].rules = @ \ {r}]
       \/ OthersMayDelete /\ vpcs' = [vpcs EXCEPT ![i] = NoVPC]
  /\ w' = IF At("idle") THEN w ELSE [w EXCEPT !.interfered = TRUE]
  /\ UNCHANGED <<cr, faults, nextId, recorded, edits>>

----------------------------------------------------------------------------
Init ==
  /\ \E spec \in SpecType : cr = NewCR(spec)
  /\ vpcs = [i \in Ids |-> NoVPC]
  /\ nextId = 1
  /\ recorded = {}
  /\ w = IdleWorker
  /\ faults = 0 /\ edits = 0 /\ drifts = 0

Next ==
  \/ Reconcile \/ ReadFails \/ Crash
  \/ Settle \/ EditSpec \/ DeleteCR \/ RecreateCR \/ Drift

Spec == Init /\ [][Next]_vars

\* Every CR is requeued, after an error and on the resync period, and EC2
\* finishes what it began.
FairSpec == Spec /\ WF_vars(Reconcile) /\ WF_vars(Settle)

----------------------------------------------------------------------------
(* Properties.                                                             *)

Labels ==
  {"idle", "describe", "readRules", "found", "manage", "create", "cidrs", "egress",
   "ingress", "attrs", "checkRules", "tags", "lateInit", "lateRules", "release", "synced",
   "requeue", "failed"}

VPCType ==
  [live: BOOLEAN, state: [CIDRs -> States], dead: SUBSET CIDRs,
   rules: SUBSET {"egress", "ingress"}, attrs: SUBSET Attrs, tags: SUBSET Tags]

\* Every variable keeps its type.
TypeOK ==
  /\ cr \in [phase: {"live", "deleting", "gone"}, managed: BOOLEAN,
             id: Ids \cup {0}, synced: BOOLEAN, spec: SpecType]
  /\ vpcs \in [Ids -> VPCType]
  /\ nextId \in 1 .. MaxVPCs + 1 /\ recorded \subseteq Ids
  /\ w \in [pc: Labels, mode: {"update", "create", "delete"}, id: Ids \cup {0},
            seen: VPCType, rulesExist: BOOLEAN,
            spec: [cidrs: SUBSET CIDRs, attrs: SUBSET Attrs, tags: SUBSET Tags,
                   disallow: BOOLEAN],
            toDelete: SUBSET (CIDRs \X {"live", "dead"}), toAdd: SUBSET CIDRs,
            toSet: SUBSET Attrs, readFailed: BOOLEAN, interfered: BOOLEAN]
  /\ faults \in Nat /\ edits \in Nat /\ drifts \in Nat

\* What the CR is told to be synced has no CIDR in transition and none that was
\* not declared, and the declared attributes and tags, after a create as after an
\* update, unless another client interfered.  An update has every declared CIDR
\* associated, too, unless it read a dead entry as an association; sdkCreate drops
\* the errors of the associations.  Unwanted rules are gone if they could be read.
SyncedIsExact ==
  At("synced") /\ ~w.interfered =>
    /\ V.live /\ V.attrs = w.spec.attrs /\ V.tags = w.spec.tags
    /\ \A c \in CIDRs :
         /\ V.state[c] \in IF c \in w.spec.cidrs THEN {"associated", "none"} ELSE {"none"}
         /\ w.mode = "update" /\ w.seen.dead = {} /\ c \in w.spec.cidrs =>
              V.state[c] = "associated"
    /\ w.spec.disallow /\ ~w.readFailed => V.rules = {}

\* A CIDR that the CR declares is never disassociated by the controller.
DeclaredCIDRStays ==
  [][ drifts' = drifts /\ w.mode = "update" /\ w.id # 0 =>
        \A c \in w.spec.cidrs :
          V.state[c] = "associated" => vpcs'[w.id].state[c] = "associated" ]_vars

\* The VPCs whose id was recorded come and go as the abstract specification
\* allows: at most one at a time, under the finalizer, which goes last.
Abs == INSTANCE Lifecycle WITH claimed <- cr.managed, objects <- recorded \cap Live
ImplementsLifecycle == Abs!Spec

\* After the last edit, drift and fault the CIDRs of a live CR are exactly those
\* declared, associated, and the CR says so; unless it also asks for the default
\* rules to go, which can fail for ever (see DisallowTakesEffect) and comes first.
CIDRsConverge ==
  <>[](cr.phase = "live" /\ ~cr.spec.disallow =>
         /\ cr.synced /\ cr.id # 0 /\ vpcs[cr.id].live
         /\ \A c \in CIDRs : vpcs[cr.id].state[c] =
              IF c \in cr.spec.cidrs THEN "associated" ELSE "none")

\* A deleted CR goes away, even if the reply to DeleteVpc is lost: sdkFind maps
\* InvalidVpcID.NotFound to NotFound.
DeletionCompletes == cr.phase = "deleting" ~> cr.phase = "gone"

\* A test of the repository patches disallowSecurityGroupDefaultRules to true
\* and then expects the default rules to be gone.
DisallowTakesEffect ==
  <>[](cr.phase = "live" /\ cr.spec.disallow =>
         cr.id # 0 /\ vpcs[cr.id].rules = {})
=============================================================================
