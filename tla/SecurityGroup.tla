--------------------------- MODULE SecurityGroup ---------------------------
(***************************************************************************)
(* The SecurityGroup controller: one custom resource (CR), the one EC2     *)
(* security group it stands for, and the reconciler that drives the second *)
(* to the first.  Source: pkg/resource/security_group/{hooks,sdk}.go.      *)
(*                                                                         *)
(* One action is one AWS call, or one write to the Kubernetes API, with    *)
(* the local code that leads to the next call.  Between two actions the    *)
(* user, other AWS clients and a crash of the controller may intervene.    *)
(*                                                                         *)
(* A permission is a pair <<key, grant>>: key stands for (direction,       *)
(* protocol, port range), grant for a CIDR, prefix list or group pair.     *)
(* EC2 stores a set of them.  A rule, an IPPermission of the spec, is one  *)
(* key with a set of grants in some spelling: "aws" is the form EC2 reads  *)
(* back, "user" any other form of the same rule ("6" for "tcp", host bits  *)
(* in a CIDR, another order of the grants).                                *)
(***************************************************************************)
EXTENDS Integers, FiniteSets

CONSTANTS
  Keys,             \* (direction, protocol, from, to) keys
  EgressKeys,       \* the keys whose direction is egress
  BadKeys,          \* keys with a port that does not fit in an int32
  Grants,
  SelfGrant,        \* the grant to the group itself
  RefGrant,         \* a grant to another group, written as a GroupRef
  DefaultPerm,      \* the allow-all egress permission of a fresh group
  Tags,
  SpecRules,        \* the rule lists a user may declare
  SpecTags,         \* the tag lists a user may declare
  BatchSize,        \* rules per call (1000 in the code)
  MissingIsError,   \* DescribeSecurityGroups of a dead id: an error code
                    \* other than "UNKNOWN" (TRUE) or an empty list (FALSE)
  OthersMayDelete,  \* may another AWS client delete the group?
  MaxFaults,        \* bound: failed calls, lost replies and crashes
  MaxEdits,         \* bound: edits and re-creations of the CR
  MaxDrifts         \* bound: changes made by other AWS clients

Perm    == Keys \X Grants
RawRule == [key: Keys, sp: {"aws", "user"}, grants: (SUBSET Grants) \ {{}}]

\* What a rule list means to EC2.
PermsOf(rules) == UNION {{<<r.key, g>> : g \in r.grants} : r \in rules}

\* A list in which a permission occurs twice is refused by EC2 whole; such
\* lists are left out.
WellFormed(rules) ==
  \A r1, r2 \in rules : r1.key = r2.key /\ r1.grants \cap r2.grants # {} => r1 = r2

ASSUME ConstantsAssumption ==
  /\ EgressKeys \subseteq Keys /\ BadKeys \subseteq Keys
  /\ SelfGrant \in Grants
  /\ DefaultPerm \in EgressKeys \X Grants
  /\ \A s \in SpecRules : s \subseteq RawRule /\ WellFormed(s)
  /\ SpecTags \subseteq SUBSET Tags
  /\ BatchSize \in Nat \ {0}
  /\ MissingIsError \in BOOLEAN /\ OthersMayDelete \in BOOLEAN
  /\ MaxFaults \in Nat /\ MaxEdits \in Nat /\ MaxDrifts \in Nat

VARIABLES
  cr,        \* the custom resource, as the API server has it
  sg,        \* the group in EC2; sg.id = 0 when there is none
  nextId,    \* the id EC2 gives to the next group
  inUse,     \* a network interface or another group refers to the group
  refReady,  \* the group RefGrant names has an id in its own CR's status
  w,         \* the reconcile worker (one per CR)
  faults, edits, drifts

env  == <<nextId, inUse, refReady, edits, drifts>>
vars == <<cr, sg, w, faults, env>>

NoGroup == [id |-> 0, perms |-> {}, tags |-> {}]

NewCR(rules, tags) ==
  [phase |-> "live", managed |-> FALSE, id |-> 0, owner |-> FALSE,
   rules |-> rules, tags |-> tags, synced |-> FALSE]

\* Fields of w: `rules`, `tags`, `resolved` and `owner` are the desired object
\* the pass started from; `id` is Status.ID of the object in hand; seenPerms
\* and seenTags are what sdkFind read (`latest`); `revoke` and `authorize` are
\* the rules still to be sent; `interfered` records that another client changed
\* the group after the pass began.
IdleWorker ==
  [pc |-> "idle", mode |-> "update", rules |-> {}, tags |-> {},
   resolved |-> TRUE, owner |-> FALSE, id |-> 0, seenPerms |-> {},
   seenTags |-> {}, revoke |-> {}, authorize |-> {}, interfered |-> FALSE]

At(label) == w.pc = label

----------------------------------------------------------------------------
(* Pure helpers of hooks.go.                                               *)

\* mutant of addRulesToSpec: a rule for every key, with grants or not.
addRulesToSpec_emptyRules(perms) ==
  {[key |-> k, sp |-> "aws", grants |-> {g \in Grants : <<k, g>> \in perms}] : k \in Keys}

\* The IpPermissions DescribeSecurityGroups returns and addRulesToSpec copies:
\* one rule per key.
addRulesToSpec(perms) ==
  {[key |-> k, sp |-> "aws", grants |-> {g \in Grants : <<k, g>> \in perms}]
     : k \in {p[1] : p \in perms}}

referencesResolved(rules, resolved) ==
  resolved \/ \A r \in rules : RefGrant \notin r.grants

\* canonicalizeGroupPair drops GroupRef, so an unresolved pair reads as a pair
\* without a group, which is the spelling of a self-reference.
canonicalGrant(g, resolved) ==
  IF g = RefGrant /\ ~resolved THEN SelfGrant ELSE g

canonicalPerms(rules, resolved) ==
  {<<p[1], canonicalGrant(p[2], resolved)>> : p \in PermsOf(rules)}

\* The canonical lists are compared element by element: two grants that
\* canonicalize alike stay two elements.
canonicalEqual(rules, resolved, perms) ==
  /\ canonicalPerms(rules, resolved) = perms
  /\ Cardinality(PermsOf(rules)) = Cardinality(perms)

\* mutant of RulesDiffer: the raw lists are compared.
RulesDiffer_raw == w.owner /\ w.id # 0 /\ w.rules # addRulesToSpec(w.seenPerms)

\* customPostCompare: no verdict on the rules before the identity is known.
RulesDiffer ==
  w.owner /\ w.id # 0 /\ ~canonicalEqual(w.rules, w.resolved, w.seenPerms)

\* mutants of toDelete and toAdd: containsRule compares the keys alone.
toDelete_byKey(desired, latest) ==
  {r \in latest : \A d \in desired : d.key # r.key}
toAdd_byKey(desired, latest) ==
  {r \in desired : \A l \in latest : l.key # r.key}

\* containsRule compares raw rules, all fields.
toDelete(desired, latest) == {r \in latest : r \notin desired}
toAdd(desired, latest)    == {r \in desired : r \notin latest}

\* Ingress is sent before egress.
NextDirection(rules) ==
  LET ingress == {r \in rules : r.key \notin EgressKeys}
  IN  IF ingress # {} THEN ingress ELSE rules

\* The next request: BatchSize rules, in the order of the list.
Batches(rules) ==
  LET now == NextDirection(rules)
  IN  {b \in SUBSET now :
         Cardinality(b) = IF Cardinality(now) < BatchSize
                          THEN Cardinality(now) ELSE BatchSize}

Failed == [w EXCEPT !.pc = "failed"]

\* An AWS call that EC2 accepts: it takes effect and the code goes on, or it is
\* throttled, or it takes effect and the reply is lost.
Call(newSg, next) ==
  \/ sg' = newSg /\ w' = next /\ UNCHANGED faults
  \/ /\ faults < MaxFaults
     /\ faults' = faults + 1
     /\ sg' \in {sg, newSg}
     /\ w' = Failed

\* An AWS call that EC2 refuses.
Refused == w' = Failed /\ UNCHANGED <<sg, faults>>

\* A step of the code that makes no call.
Go(next) == w' = next /\ UNCHANGED <<sg, faults>>

----------------------------------------------------------------------------
(* Reading: ReadOne and sdkFind.                                           *)

\* The reconciler takes the CR from the queue and resolves its references.
Begin ==
  /\ At("idle")
  /\ cr.phase # "gone"
  /\ Go([IdleWorker EXCEPT
           !.pc = IF cr.id = 0 THEN "lookup" ELSE "describe",
           !.mode = IF cr.phase = "deleting" THEN "delete" ELSE "update",
           !.rules = cr.rules, !.tags = cr.tags, !.resolved = refReady,
           !.owner = cr.owner, !.id = cr.id])
  /\ UNCHANGED <<cr, env>>

\* sdkFind answers NotFound: ReadOne's caller creates the group, or, when the
\* CR is being deleted, releases the CR.
NotFound == [w EXCEPT !.pc = IF w.mode = "delete" THEN "release" ELSE "manage"]

\* mutant of getSecurityGroupID: an object without Status.ID was never created.
getSecurityGroupID_noLookup ==
  At("lookup") /\ Go(NotFound) /\ UNCHANGED <<cr, env>>

\* Status.ID is not set: look the group up by name and VPC, which are unique.
getSecurityGroupID ==
  /\ At("lookup")
  /\ Go(IF sg.id = 0 THEN NotFound
        ELSE [w EXCEPT !.pc = "describe", !.id = sg.id])
  /\ UNCHANGED <<cr, env>>

\* DescribeSecurityGroups by id.
sdkFind ==
  /\ At("describe")
  /\ IF sg.id = w.id
     THEN Go([w EXCEPT !.pc = "found", !.seenPerms = sg.perms, !.seenTags = sg.tags])
     ELSE IF MissingIsError THEN Refused ELSE Go(NotFound)
  /\ UNCHANGED <<cr, env>>

ReadFails ==
  /\ At("lookup") \/ At("describe")
  /\ faults < MaxFaults
  /\ faults' = faults + 1
  /\ w' = Failed
  /\ UNCHANGED <<cr, sg, env>>

----------------------------------------------------------------------------
(* Creating.                                                               *)

\* mutant of setResourceManaged: Create is called without the finalizer.
setResourceManaged_noFinalizer ==
  /\ At("manage")
  /\ IF cr.phase = "gone" THEN w' = IdleWorker ELSE w' = [w EXCEPT !.pc = "create"]
  /\ UNCHANGED <<cr, sg, faults, env>>

\* The runtime puts the finalizer on the CR before it calls Create; a CR
\* deleted in the meantime cannot be patched.
setResourceManaged ==
  /\ At("manage")
  /\ IF cr.phase = "gone"
     THEN w' = IdleWorker /\ UNCHANGED cr
     ELSE w' = [w EXCEPT !.pc = "create"] /\ cr' = [cr EXCEPT !.managed = TRUE]
  /\ UNCHANGED <<sg, faults, env>>

\* sdkCreate, the CreateSecurityGroup call.  On an error it returns nil, so
\* the id stays unknown even if EC2 has made the group.
sdkCreate ==
  /\ At("create")
  /\ IF sg.id = 0
     THEN /\ Call([id |-> nextId, perms |-> {DefaultPerm}, tags |-> w.tags],
                  [w EXCEPT !.pc = "revokeDefault", !.mode = "create", !.id = nextId])
          /\ nextId' = IF sg'.id = nextId THEN nextId + 1 ELSE nextId
     ELSE Refused /\ UNCHANGED nextId        \* InvalidGroup.Duplicate
  /\ UNCHANGED <<cr, inUse, refReady, edits, drifts>>

\* What EC2 does with a request to revoke permissions `p`: a missing one is
\* InvalidPermission.NotFound, except in a default VPC where it is skipped.
Revoke(p, next) ==
  \/ sg.id = w.id /\ Call([sg EXCEPT !.perms = @ \ p], next)
  \/ ~(sg.id = w.id /\ p \subseteq sg.perms) /\ Refused

\* The rules are submitted in a fresh group at once unless a GroupRef has no
\* id yet: then the CR is left unsynced for a later pass.
deleteDefaultSecurityGroupRule ==
  /\ At("revokeDefault")
  /\ Revoke({DefaultPerm},
       IF referencesResolved(w.rules, w.resolved)
       THEN [w EXCEPT !.pc = "sync", !.authorize = w.rules]
       ELSE [w EXCEPT !.pc = "unsynced"])
  /\ UNCHANGED <<cr, env>>

----------------------------------------------------------------------------
(* Updating: the delta gate, then syncSGRules, then the tags.              *)

TagsDiffer == w.tags # w.seenTags

\* The runtime computes the delta; customUpdateSecurityGroup acts on it.
customUpdateSecurityGroup ==
  /\ At("found") /\ w.mode = "update"
  /\ Go(IF RulesDiffer
        THEN IF referencesResolved(w.rules, w.resolved)
             THEN [w EXCEPT !.pc = "sync",
                     !.revoke = toDelete(w.rules, addRulesToSpec(w.seenPerms)),
                     !.authorize = toAdd(w.rules, addRulesToSpec(w.seenPerms))]
             ELSE [w EXCEPT !.pc = "unsynced"]
        ELSE [w EXCEPT !.pc = IF TagsDiffer THEN "untag" ELSE "synced"])
  /\ UNCHANGED <<cr, env>>

\* syncSGRules, first half: revoke the rules that are not desired.
deleteSecurityGroupRules ==
  /\ At("sync") /\ w.revoke # {}
  /\ \E b \in Batches(w.revoke) :
        Revoke(PermsOf(b), [w EXCEPT !.revoke = @ \ b])
  /\ UNCHANGED <<cr, env>>

\* syncSGRules, second half.  All rules of a direction are converted before
\* the first of them is sent, and a port outside int32 stops there.
createSecurityGroupRules ==
  /\ At("sync") /\ w.revoke = {} /\ w.authorize # {}
  /\ IF \E r \in NextDirection(w.authorize) : r.key \in BadKeys
     THEN Refused
     ELSE \E b \in Batches(w.authorize) :
            IF sg.id = w.id /\ PermsOf(b) \cap sg.perms = {}
            THEN Call([sg EXCEPT !.perms = @ \cup PermsOf(b)],
                      [w EXCEPT !.authorize = @ \ b])
            ELSE Refused                    \* InvalidPermission.Duplicate
  /\ UNCHANGED <<cr, env>>

\* syncSGRules returned without an error.  A failure of getRules, which comes
\* next, never reaches the caller.
syncSGRules ==
  /\ At("sync") /\ w.revoke = {} /\ w.authorize = {}
  /\ Go([w EXCEPT !.pc = CASE w.mode = "delete" -> "delete"
                           [] w.mode = "create" -> "synced"
                           [] OTHER -> IF TagsDiffer THEN "untag" ELSE "synced"])
  /\ UNCHANGED <<cr, env>>

\* tags.Sync: DeleteTags, then CreateTags.  An empty call is not made.
DeleteTags ==
  /\ At("untag")
  /\ LET next == [w EXCEPT !.pc = "tag"]
     IN  CASE w.seenTags \subseteq w.tags -> Go(next)
           [] sg.id = w.id -> Call([sg EXCEPT !.tags = @ \ (w.seenTags \ w.tags)], next)
           [] OTHER -> Refused
  /\ UNCHANGED <<cr, env>>

CreateTags ==
  /\ At("tag")
  /\ LET next == [w EXCEPT !.pc = "synced"]
     IN  CASE w.tags \subseteq w.seenTags -> Go(next)
           [] sg.id = w.id -> Call([sg EXCEPT !.tags = @ \cup (w.tags \ w.seenTags)], next)
           [] OTHER -> Refused
  /\ UNCHANGED <<cr, env>>

\* mutant of sdkDelete: the rules declared are revoked, not those that were read.
sdkDelete_declared ==
  /\ At("found") /\ w.mode = "delete"
  /\ Go([w EXCEPT !.pc = "sync", !.revoke = toDelete({}, w.rules)])
  /\ UNCHANGED <<cr, env>>

----------------------------------------------------------------------------
(* Deleting: revoke every rule, so that groups that name one another can   *)
(* go, delete the group, take the finalizer off.                           *)

sdkDelete ==
  /\ At("found") /\ w.mode = "delete"
  /\ Go([w EXCEPT !.pc = "sync", !.revoke = toDelete({}, addRulesToSpec(w.seenPerms))])
  /\ UNCHANGED <<cr, env>>

DeleteSecurityGroup ==
  /\ At("delete")
  /\ IF sg.id = w.id /\ ~inUse
     THEN Call(NoGroup, [w EXCEPT !.pc = "release"])
     ELSE Refused                            \* DependencyViolation
  /\ UNCHANGED <<cr, env>>

setResourceUnmanaged ==
  /\ At("release")
  /\ cr' = [cr EXCEPT !.phase = "gone", !.managed = FALSE]
  /\ w' = IdleWorker
  /\ UNCHANGED <<sg, faults, env>>

----------------------------------------------------------------------------
(* The end of a pass: the status of the object in hand is patched in, on   *)
(* success and on failure alike.  updateConditions fills in the owner.     *)

\* mutant of PatchStatus: the owner account is never recorded.
PatchStatus_noOwner ==
  /\ w.pc \in {"synced", "unsynced", "failed"}
  /\ cr' = IF cr.phase = "gone" THEN cr
           ELSE [cr EXCEPT !.id = w.id, !.synced = At("synced")]
  /\ w' = IdleWorker
  /\ UNCHANGED <<sg, faults, env>>

PatchStatus ==
  /\ w.pc \in {"synced", "unsynced", "failed"}
  /\ cr' = IF cr.phase = "gone" THEN cr
           ELSE [cr EXCEPT !.id = w.id, !.owner = TRUE, !.synced = At("synced")]
  /\ w' = IdleWorker
  /\ UNCHANGED <<sg, faults, env>>

\* The controller stops, or its status patch is lost; it starts over.
Crash ==
  /\ ~At("idle")
  /\ faults < MaxFaults
  /\ faults' = faults + 1
  /\ w' = IdleWorker
  /\ UNCHANGED <<cr, sg, env>>

Reconcile ==
  \/ Begin \/ getSecurityGroupID \/ sdkFind
  \/ setResourceManaged \/ sdkCreate \/ deleteDefaultSecurityGroupRule
  \/ customUpdateSecurityGroup \/ deleteSecurityGroupRules
  \/ createSecurityGroupRules \/ syncSGRules \/ DeleteTags \/ CreateTags
  \/ sdkDelete \/ DeleteSecurityGroup \/ setResourceUnmanaged \/ PatchStatus

----------------------------------------------------------------------------
(* The user and the rest of the world.                                     *)

EditSpec ==
  /\ cr.phase = "live"
  /\ edits < MaxEdits /\ edits' = edits + 1
  /\ \E rules \in SpecRules, tags \in SpecTags :
       cr' = [cr EXCEPT !.rules = rules, !.tags = tags]
  /\ UNCHANGED <<sg, w, faults, nextId, inUse, refReady, drifts>>

\* Without a finalizer the API server drops the object at once.
DeleteCR ==
  /\ cr.phase = "live"
  /\ cr' = [cr EXCEPT !.phase = IF cr.managed THEN "deleting" ELSE "gone"]
  /\ UNCHANGED <<sg, w, faults, env>>

RecreateCR ==
  /\ cr.phase = "gone"
  /\ edits < MaxEdits /\ edits' = edits + 1
  /\ \E rules \in SpecRules, tags \in SpecTags : cr' = NewCR(rules, tags)
  /\ UNCHANGED <<sg, w, faults, nextId, inUse, refReady, drifts>>

Interfere == w' = IF At("idle") THEN w ELSE [w EXCEPT !.interfered = TRUE]

Drift ==
  /\ sg.id # 0
  /\ drifts < MaxDrifts /\ drifts' = drifts + 1
  /\ \/ \E p \in Perm : p \notin sg.perms /\ sg' = [sg EXCEPT !.perms = @ \cup {p}]
     \/ \E p \in sg.perms : sg' = [sg EXCEPT !.perms = @ \ {p}]
     \/ OthersMayDelete /\ ~inUse /\ sg' = NoGroup
  /\ Interfere
  /\ UNCHANGED <<cr, faults, nextId, inUse, refReady, edits>>

Attach ==
  /\ sg.id # 0 /\ ~inUse
  /\ drifts < MaxDrifts /\ drifts' = drifts + 1
  /\ inUse' = TRUE
  /\ UNCHANGED <<cr, sg, w, faults, nextId, refReady, edits>>

Detach ==
  /\ inUse /\ inUse' = FALSE
  /\ UNCHANGED <<cr, sg, w, faults, nextId, refReady, edits, drifts>>

RefBecomesReady ==
  /\ ~refReady /\ refReady' = TRUE
  /\ UNCHANGED <<cr, sg, w, faults, nextId, inUse, edits, drifts>>

----------------------------------------------------------------------------
Init ==
  /\ \E rules \in SpecRules, tags \in SpecTags : cr = NewCR(rules, tags)
  /\ sg = NoGroup
  /\ nextId = 1
  /\ inUse = FALSE
  /\ refReady \in BOOLEAN
  /\ w = IdleWorker
  /\ faults = 0 /\ edits = 0 /\ drifts = 0

Environment ==
  \/ EditSpec \/ DeleteCR \/ RecreateCR
  \/ Drift \/ Attach \/ Detach \/ RefBecomesReady

Next == Reconcile \/ ReadFails \/ Crash \/ Environment

Spec == Init /\ [][Next]_vars

\* Every CR is requeued (after an error, and on the resync period) and one
\* worker serves it; what refers to the group goes away, and the group a
\* GroupRef names gets its id.
Fairness == WF_vars(Reconcile) /\ WF_vars(Detach) /\ WF_vars(RefBecomesReady)

FairSpec == Spec /\ Fairness

----------------------------------------------------------------------------
(* Properties.                                                             *)

Modes  == {"update", "create", "delete"}
Labels == {"idle", "lookup", "describe", "found", "manage", "create",
           "revokeDefault", "sync", "untag", "tag", "delete", "release",
           "synced", "unsynced", "failed"}

WorkerType ==
  [pc: Labels, mode: Modes, rules: SUBSET RawRule, tags: SUBSET Tags,
   resolved: BOOLEAN, owner: BOOLEAN, id: Nat, seenPerms: SUBSET Perm,
   seenTags: SUBSET Tags, revoke: SUBSET RawRule, authorize: SUBSET RawRule,
   interfered: BOOLEAN]

\* Every variable keeps its type.
TypeOK ==
  /\ cr \in [phase: {"live", "deleting", "gone"}, managed: BOOLEAN, id: Nat,
             owner: BOOLEAN, rules: SpecRules, tags: SpecTags, synced: BOOLEAN]
  /\ sg \in [id: Nat, perms: SUBSET Perm, tags: SUBSET Tags]
  /\ w \in WorkerType
  /\ nextId \in Nat \ {0}
  /\ inUse \in BOOLEAN /\ refReady \in BOOLEAN
  /\ faults \in Nat /\ edits \in Nat /\ drifts \in Nat

\* The CR is released only once its group is gone: whatever crashes, whatever
\* reply is lost between CreateSecurityGroup and the status patch that records
\* the id, no group is left behind without a CR (sdkFind's lookup by name, the
\* finalizer set before sdkCreate, sdkDelete before setResourceUnmanaged).
NoOrphan == cr.phase = "gone" => sg.id = 0

\* The rules are those the user declared, whatever spelling they have.
ExactFor(rules, tags) == sg.perms = PermsOf(rules) /\ sg.tags = tags

\* The group comes and goes as the abstract specification allows: it is made
\* only under the finalizer, never a second one, and the finalizer goes last.
Objects == IF sg.id = 0 THEN {} ELSE {sg.id}
Abs == INSTANCE Lifecycle WITH claimed <- cr.managed, objects <- Objects
ImplementsLifecycle == Abs!Spec

\* A pass that ends in "synced" leaves exactly the declared permissions and
\* tags in EC2, unless another client interfered: the raw plan of syncSGRules
\* reaches the state the canonical delta of customPostCompare asks for.
SyncedIsExact ==
  At("synced") /\ ~w.interfered /\ w.resolved /\ (w.owner \/ w.mode = "create")
     => sg.id = w.id /\ ExactFor(w.rules, w.tags)

\* "Delete before create" (syncSGRules): once the revocations are done, nothing
\* that is still to be authorized is present, so EC2 never refuses a batch as
\* a duplicate unless another client added a permission.
NeverDuplicate ==
  At("sync") /\ w.revoke = {} /\ ~w.interfered
     => PermsOf(w.authorize) \cap sg.perms = {}

\* Server-side normalisation never makes the controller touch the rules: an
\* update pass changes the permissions only if those it read differ, as
\* permissions, from those declared (customPostCompare gates syncSGRules).
NoSpuriousChange ==
  [][ sg.id # 0 /\ sg'.perms # sg.perms /\ drifts' = drifts /\ w.mode = "update"
        => w.seenPerms # PermsOf(w.rules) ]_vars

\* The world settles on what the user declared: after the last edit, drift and
\* fault, a live CR has its group, exactly its rules and tags, and says so.
Converges ==
  <>[](/\ cr.phase = "live" /\ (cr.id # 0 => cr.id = sg.id)
       /\ \A rule \in cr.rules : rule.key \notin BadKeys
       => sg.id # 0 /\ cr.id = sg.id /\ cr.synced /\ ExactFor(cr.rules, cr.tags))

\* sdkDelete retries until EC2 lets the group go: a deleted CR whose group is
\* there when the last fault has happened goes away, group first.
DeletionProceeds ==
  cr.phase = "deleting" /\ sg.id # 0 /\ faults = MaxFaults /\ drifts = MaxDrifts
    ~> cr.phase = "gone"

\* A deleted CR goes away, whatever call fails on the way (sdkDelete).
DeletionCompletes == cr.phase = "deleting" ~> cr.phase = "gone"

\* canonicalizeGroupPair's comment, taken at its word ("GroupID is assumed
\* resolved (referencesResolved defers sync until it is)"): no pass compares
\* an unresolved GroupRef and finds it in place.
UnresolvedIsDeferred ==
  At("synced") /\ ~w.interfered /\ w.owner => ExactFor(w.rules, w.tags)
=============================================================================
