----------------------------- MODULE Controller -----------------------------
(***************************************************************************)
(* What the resource managers of this repository have in common: one       *)
(* custom resource (CR), the EC2 objects created for it, and the worker    *)
(* that reconciles them, one AWS call a step.  The modules that extend     *)
(* this one add a kind each: its objects, its sdkFind, sdkCreate,          *)
(* sdkUpdate and sdkDelete.  The runtime that calls them is external, and  *)
(* manager.go, generated alike for every kind, stands between the two.     *)
(***************************************************************************)
EXTENDS Integers, Sequences, FiniteSets

CONSTANTS
  Specs,      \* the specs a user may write, records with a field `kind`
  MaxObjects, \* bound: EC2 objects ever created
  MaxFaults,  \* bound: failed calls, lost replies and crashes
  MaxEdits,   \* bound: edits and re-creations of the CR
  MaxDrifts   \* bound: changes made by other AWS clients

ASSUME ControllerAssumption ==
  /\ Specs # {} /\ \A s \in Specs : "kind" \in DOMAIN s
  /\ MaxObjects \in Nat /\ MaxFaults \in Nat /\ MaxEdits \in Nat /\ MaxDrifts \in Nat

VARIABLES
  cr,        \* the custom resource, as the API server has it
  ec2,       \* the EC2 objects, by id; Gone where there is none
  nextId,    \* the id EC2 gives to the next object
  recorded,  \* the ids a CR's status has ever held
  w,         \* the reconcile worker
  faults, edits, drifts

env  == <<nextId, recorded, edits, drifts>>
vars == <<cr, ec2, w, faults, env>>

Ids  == 1 .. MaxObjects
Gone == [live |-> FALSE]
Live == {i \in Ids : ec2[i].live}

\* `version` is the one number of the status that a later pass relies on.
NewCR(spec) ==
  [phase |-> "live", managed |-> FALSE, id |-> 0, version |-> 0, synced |-> FALSE,
   spec |-> spec]

\* Fields of w: `spec` is the desired object the pass started from, `id` the
\* object in hand, `seen` what sdkFind read of it (the latest object), `plan`
\* the calls still to be made, each an operation and its argument, `end` how the
\* pass ends if they all succeed.  Two records of what the code does not notice:
\* `blind`, that an error or a condition was dropped or something out of date read
\* in this pass, and `interfered`, that another client changed the object after
\* it began.
IdleWorker ==
  [pc |-> "idle", mode |-> "update", id |-> 0, version |-> 0, spec |-> CHOOSE s \in Specs : TRUE,
   seen |-> Gone, plan |-> <<>>, end |-> "synced", blind |-> FALSE, interfered |-> FALSE]

At(label)  == w.pc = label
Kind(kind) == w.spec.kind = kind
Obj        == ec2[w.id]
Updating   == At("found") /\ w.mode = "update"
Deleting   == At("found") /\ w.mode = "delete"

\* The comparison of the desired object with the latest one, field by field.
DifferentAt(fields) == {f \in fields : w.spec[f] # w.seen[f]}

----------------------------------------------------------------------------
(* The outcomes of a step of the worker.                                   *)

Go(next) == w' = next /\ UNCHANGED <<cr, ec2, faults, env>>

\* An AWS call on the object in hand that EC2 accepts: it takes effect, or is
\* throttled, or takes effect and the reply is lost.
Call(obj, next, failed) ==
  /\ \/ ec2' = [ec2 EXCEPT ![w.id] = obj] /\ w' = next /\ UNCHANGED faults
     \/ /\ faults < MaxFaults /\ faults' = faults + 1
        /\ ec2' \in {ec2, [ec2 EXCEPT ![w.id] = obj]}
        /\ w' = failed
  /\ UNCHANGED <<cr, env>>

\* A pass that is over forgets what it has read.
Over(label) == [w EXCEPT !.pc = label, !.seen = Gone, !.plan = <<>>, !.end = "synced"]

\* The call that makes an object; there is a limit to their number.  Its error,
\* like every error of a create, is reported on the CR as it was.
CreateFailed == [Over("failed") EXCEPT !.id = cr.id, !.version = cr.version]

CreateObject(obj, next) ==
  /\ IF nextId \in Ids
     THEN \/ /\ ec2' = [ec2 EXCEPT ![nextId] = obj] /\ nextId' = nextId + 1
             /\ w' = [next EXCEPT !.id = nextId] /\ UNCHANGED faults
          \/ /\ faults < MaxFaults /\ faults' = faults + 1
             /\ w' = CreateFailed
             /\ \/ ec2' = [ec2 EXCEPT ![nextId] = obj] /\ nextId' = nextId + 1
                \/ UNCHANGED <<ec2, nextId>>
     ELSE w' = CreateFailed /\ UNCHANGED <<ec2, nextId, faults>>
  /\ UNCHANGED <<cr, recorded, edits, drifts>>

\* manager.go's onError: an error is reported on the object returned with it,
\* or else on the one the manager was given.
onError == IF w.mode = "create" THEN CreateFailed ELSE Over("failed")

\* A read that fails.
Unread(failed) ==
  /\ faults < MaxFaults /\ faults' = faults + 1
  /\ w' = failed
  /\ UNCHANGED <<cr, ec2, env>>

\* The first call of the plan, and the worker once it has succeeded.
Doing(op) == At("plan") /\ w.plan # <<>> /\ Head(w.plan)[1] = op
Arg       == Head(w.plan)[2]
Done      == [w EXCEPT !.plan = Tail(@)]

\* Plans: a call that is made under a condition, and one call for each member of
\* a set, in any order.
When(condition, op, arg) == IF condition THEN <<<<op, arg>>>> ELSE <<>>

ForEach(op, S) ==
  {[i \in 1 .. Cardinality(S) |-> <<op, order[i]>>] :
     order \in {f \in [1 .. Cardinality(S) -> S] : \A x \in S : \E i \in DOMAIN f : f[i] = x}}

Plan(calls) == [w EXCEPT !.pc = "plan", !.plan = calls]

----------------------------------------------------------------------------
(* The life of a pass.                                                     *)

\* The reconciler takes the CR from the queue.
Begin ==
  /\ At("idle")
  /\ cr.phase # "gone"
  /\ Go([IdleWorker EXCEPT
           !.pc = "describe", !.id = cr.id, !.version = cr.version, !.spec = cr.spec,
           !.mode = IF cr.phase = "deleting" THEN "delete" ELSE "update"])

NotFound == [w EXCEPT !.pc = IF w.mode = "delete" THEN "release" ELSE "manage"]
Found    == [w EXCEPT !.pc = "found", !.seen = Obj]

\* The Describe call of a sdkFind.  A CR without an id has no object yet.
Describe(found, missing) ==
  /\ At("describe")
  /\ \/ Go(IF w.id = 0 THEN NotFound ELSE IF Obj # Gone THEN found ELSE missing)
     \/ w.id # 0 /\ Unread(onError)

\* mutant of setResourceManaged: Create is called without the finalizer.
setResourceManaged_noFinalizer ==
  /\ At("manage")
  /\ w' = IF cr.phase = "gone" THEN IdleWorker
          ELSE [w EXCEPT !.pc = "create", !.mode = "create"]
  /\ UNCHANGED <<cr, ec2, faults, env>>

\* The runtime puts the finalizer on the CR before it calls Create.
setResourceManaged ==
  /\ At("manage")
  /\ IF cr.phase = "gone"
     THEN w' = IdleWorker /\ UNCHANGED cr
     ELSE /\ w' = [w EXCEPT !.pc = "create", !.mode = "create"]
          /\ cr' = [cr EXCEPT !.managed = TRUE]
  /\ UNCHANGED <<ec2, faults, env>>

\* tags.Sync: DeleteTags, then CreateTags; it may stop between the two.
syncTags ==
  /\ Doing("tags")
  /\ LET removed == Obj.tags \ (w.seen.tags \ w.spec.tags)
         added   == w.spec.tags \ w.seen.tags
     IN  IF Obj.live
         THEN \/ Call([Obj EXCEPT !.tags = removed \cup added], Done, onError)
              \/ /\ faults < MaxFaults /\ faults' = faults + 1 /\ w' = onError
                 /\ ec2' = [ec2 EXCEPT ![w.id].tags = removed]
                 /\ UNCHANGED <<cr, env>>
         ELSE Go(onError)

\* The Delete call, once `allowed`; the runtime then takes the finalizer off.
Delete(allowed) ==
  IF Obj.live /\ allowed
  THEN Call(Gone, [w EXCEPT !.pc = "release"], onError)
  ELSE Go(onError)

\* What some updates return is the desired object, status and all, not the latest.
returnDesired == Doing("desired") /\ Go([Done EXCEPT !.version = cr.version])

\* The plan is carried out.
finish == At("plan") /\ w.plan = <<>> /\ Go(Over(w.end))

setResourceUnmanaged ==
  /\ At("release")
  /\ cr' = [cr EXCEPT !.phase = "gone", !.managed = FALSE]
  /\ w' = IdleWorker
  /\ UNCHANGED <<ec2, faults, env>>

\* mutant of PatchStatus: an object without an id is recorded.
PatchStatus_recordsNone ==
  /\ w.pc \in {"synced", "requeue", "failed"}
  /\ cr' = IF cr.phase = "gone" THEN cr
           ELSE [cr EXCEPT !.id = w.id, !.version = w.version, !.synced = At("synced")]
  /\ recorded' = recorded \cup {cr'.id}
  /\ w' = IdleWorker
  /\ UNCHANGED <<ec2, faults, nextId, edits, drifts>>

\* mutant of PatchStatus: an id is recorded with a success only.
PatchStatus_syncedOnly ==
  /\ w.pc \in {"synced", "requeue", "failed"}
  /\ cr' = IF cr.phase = "gone" \/ ~At("synced") THEN cr
           ELSE [cr EXCEPT !.id = w.id, !.version = w.version, !.synced = TRUE]
  /\ recorded' = (recorded \cup {cr'.id}) \ {0}
  /\ w' = IdleWorker
  /\ UNCHANGED <<ec2, faults, nextId, edits, drifts>>

\* The status of the object in hand is patched in; an error or a requeue leaves
\* the CR unsynced.
PatchStatus ==
  /\ w.pc \in {"synced", "requeue", "failed"}
  /\ cr' = IF cr.phase = "gone" THEN cr
           ELSE [cr EXCEPT !.id = w.id, !.version = w.version, !.synced = At("synced")]
  /\ recorded' = (recorded \cup {cr'.id}) \ {0}
  /\ w' = IdleWorker
  /\ UNCHANGED <<ec2, faults, nextId, edits, drifts>>

\* The controller stops, or its status patch is lost; it starts over.
Crash == ~At("idle") /\ Unread(IdleWorker)

RuntimeStep ==
  \/ Begin \/ setResourceManaged \/ syncTags \/ returnDesired \/ finish
  \/ setResourceUnmanaged \/ PatchStatus

----------------------------------------------------------------------------
(* The user, and the rest of the world.                                    *)

EditSpec ==
  /\ cr.phase = "live"
  /\ edits < MaxEdits /\ edits' = edits + 1
  /\ \E spec \in Specs : spec.kind = cr.spec.kind /\ cr' = [cr EXCEPT !.spec = spec]
  /\ UNCHANGED <<ec2, w, faults, nextId, recorded, drifts>>

\* Without a finalizer the API server drops the object at once.
DeleteCR ==
  /\ cr.phase = "live"
  /\ cr' = [cr EXCEPT !.phase = IF cr.managed THEN "deleting" ELSE "gone"]
  /\ UNCHANGED <<ec2, w, faults, env>>

RecreateCR ==
  /\ cr.phase = "gone"
  /\ edits < MaxEdits /\ edits' = edits + 1
  /\ \E spec \in Specs : spec.kind = cr.spec.kind /\ cr' = NewCR(spec)
  /\ UNCHANGED <<ec2, w, faults, nextId, recorded, drifts>>

\* Another AWS client makes `obj` of the object i.
OtherClient(i, obj) ==
  /\ drifts < MaxDrifts /\ drifts' = drifts + 1
  /\ ec2' = [ec2 EXCEPT ![i] = obj]
  /\ w' = IF At("idle") THEN w ELSE [w EXCEPT !.interfered = TRUE]
  /\ UNCHANGED <<cr, faults, nextId, recorded, edits>>

\* EC2 makes `obj` of the object i, in its own time.
Background(i, obj) ==
  /\ ec2' = [ec2 EXCEPT ![i] = obj]
  /\ UNCHANGED <<cr, w, faults, env>>

WorldStep == Crash \/ EditSpec \/ DeleteCR \/ RecreateCR

Init ==
  /\ \E spec \in Specs : cr = NewCR(spec)
  /\ ec2 = [i \in Ids |-> Gone]
  /\ nextId = 1
  /\ recorded = {}
  /\ w = IdleWorker
  /\ faults = 0 /\ edits = 0 /\ drifts = 0

----------------------------------------------------------------------------
(* Properties that make sense for every kind.                              *)

\* Every variable keeps its type.
TypeOK ==
  /\ cr \in [phase: {"live", "deleting", "gone"}, managed: BOOLEAN, id: Ids \cup {0},
             version: Nat, synced: BOOLEAN, spec: Specs]
  /\ DOMAIN ec2 = Ids /\ \A i \in Ids : ec2[i].live \in BOOLEAN
  /\ nextId \in 1 .. MaxObjects + 1 /\ recorded \subseteq Ids
  /\ w.mode \in {"update", "create", "delete"} /\ w.id \in Ids \cup {0}
  /\ w.spec \in Specs /\ w.end \in {"synced", "requeue", "failed"}
  /\ w.blind \in BOOLEAN /\ w.interfered \in BOOLEAN
  /\ faults \in 0 .. MaxFaults /\ edits \in 0 .. MaxEdits /\ drifts \in 0 .. MaxDrifts

\* Every object that is neither recorded nor in hand has cost a fault: a pass
\* that meets no failed call, lost reply or crash leaves no orphan behind.
OrphanNeedsFault ==
  Cardinality(Live \ (recorded \cup {w.id})) <= faults

\* The objects whose id was recorded come and go as the abstract specification
\* allows: at most one at a time, under the finalizer, which goes last.
Abs == INSTANCE Lifecycle WITH claimed <- cr.managed, objects <- recorded \cap Live
ImplementsLifecycle == Abs!Spec

\* A deleted CR goes away, however many calls fail on the way, unless its object
\* went first: that the object is not there is an error to most sdkFinds.
DeletionProceeds ==
  cr.phase = "deleting" ~> cr.phase = "gone" \/ (cr.id # 0 /\ ~ec2[cr.id].live)
=============================================================================
