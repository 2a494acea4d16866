-------------------------- MODULE Controller_proofs --------------------------
(***************************************************************************)
(* What every kind that extends Controller needs to prove that it          *)
(* implements Lifecycle and that an orphan costs a fault: an invariant of  *)
(* the frame, the classes of steps that keep it, and the outcomes of a     *)
(* step of the worker (Go, Call, CreateObject, ...) put into their class.  *)
(* A kind has only to say what each of its actions does to the object in   *)
(* hand.  Nothing is assumed of the objects and specs but what the frame   *)
(* itself looks at: `live`, `state` and `kind`.                            *)
(***************************************************************************)
EXTENDS Controller, FiniteSetTheorems, SequenceTheorems, TLAPS

----------------------------------------------------------------------------
(* The invariant.                                                          *)

CRFields     == {"phase", "managed", "id", "version", "synced", "spec"}
WorkerFields == {"pc", "mode", "id", "version", "spec", "seen", "plan", "end", "blind",
                 "interfered"}

\* How a pass may end.
Ends == {"synced", "requeue", "failed"}

\* An object in one of these states is not live, and for some kinds not found.
Ending     == {"shutting-down", "terminated", "deleting", "deleted"}
StateKinds == {"instance", "nat_gateway", "transit_gateway"}

WellFormed(obj, kind) ==
  /\ "live" \in DOMAIN obj /\ obj.live \in BOOLEAN
  /\ obj.live /\ kind \in StateKinds => "state" \in DOMAIN obj
  /\ obj.live /\ "state" \in DOMAIN obj => obj.state \notin Ending

CRWellFormed ==
  /\ DOMAIN cr = CRFields /\ "kind" \in DOMAIN cr.spec
  /\ cr.phase \in {"live", "deleting", "gone"} /\ cr.managed \in BOOLEAN
  /\ cr.id \in Ids \cup {0}

WorkerWellFormed ==
  /\ DOMAIN w = WorkerFields
  /\ w.mode \in {"update", "create", "delete"} /\ w.id \in Ids \cup {0} /\ w.end \in Ends
  /\ IF At("idle") THEN w.id = 0 ELSE w.spec.kind = cr.spec.kind

EC2WellFormed ==
  /\ DOMAIN ec2 = Ids /\ \A i \in Ids : WellFormed(ec2[i], cr.spec.kind)
  /\ nextId \in 1 .. MaxObjects + 1 /\ recorded \subseteq Ids /\ faults \in Nat

\* The live objects that a CR's status has held: what Lifecycle calls objects.
Owning == recorded \cap Live

PhaseOK ==
  /\ cr.phase = "gone" => ~cr.managed
  /\ cr.phase = "deleting" \/ (cr.phase = "live" /\ cr.id # 0) => cr.managed

IdsOK ==
  /\ \A i \in recorded \cup Live : i < nextId
  /\ cr.id \in recorded \cup {0}

OwningOK == Owning \subseteq {cr.id} /\ (~cr.managed => Owning = {})

\* Where a pass has an object in hand.
Working ==
  {"found", "associations", "version", "entries", "principals", "plan", "patchSpec"}

\* A pass holds the id it was started with, or that of the object it has just
\* created and nobody has recorded yet.
PassOK ==
  ~At("idle") =>
    /\ cr.phase = "gone" => cr.id = 0
    /\ w.mode # "create" => w.id = cr.id
    /\ w.mode = "create" =>
         /\ cr.managed /\ Owning = {} /\ w.id < nextId
         /\ w.id = cr.id \/ w.id \notin recorded
    /\ w.mode = "delete" => cr.phase = "deleting"
    /\ w.pc \in {"manage", "release"} => Owning = {} /\ w.id \notin Live
    /\ w.pc \in {"describe", "manage"} => w.mode # "create"
    /\ w.pc = "create" => w.mode = "create" /\ w.id = cr.id
    /\ w.pc \in Working => w.id # 0

WellFormedAll == CRWellFormed /\ WorkerWellFormed /\ EC2WellFormed
Ownership     == PhaseOK /\ IdsOK /\ OwningOK /\ PassOK
Frame         == WellFormedAll /\ Ownership

----------------------------------------------------------------------------
(* The classes of steps.                                                   *)

\* The CR keeps all but, perhaps, something of a launch template's spec; ids are
\* neither given out nor recorded.
CRKeeps ==
  /\ DOMAIN cr' = CRFields /\ "kind" \in DOMAIN cr'.spec
  /\ cr'.phase = cr.phase /\ cr'.managed = cr.managed /\ cr'.id = cr.id
  /\ cr'.spec.kind = cr.spec.kind
  /\ cr'.spec = cr.spec \/ cr.spec.kind = "launch_template"
  /\ nextId' = nextId /\ recorded' = recorded

\* No object comes to life.
EC2Keeps ==
  /\ DOMAIN ec2' = Ids
  /\ \A i \in Ids : WellFormed(ec2'[i], cr.spec.kind) /\ (ec2'[i].live => ec2[i].live)
  /\ faults' \in {faults, faults + 1}

\* The worker that has the same object in hand, or, if an error ends a creation,
\* the one the CR had.
Kept(r) ==
  /\ DOMAIN r = WorkerFields /\ r.mode = w.mode /\ r.spec = w.spec /\ r.end \in Ends
  /\ r.id = w.id \/ (w.mode = "create" /\ r.id = cr.id)
  /\ r.pc \notin {"idle", "describe", "create", "manage", "release"}
  /\ r.pc \in Working => r.id # 0

\* The worker that takes the object in hand for gone.
Missed(r) ==
  /\ DOMAIN r = WorkerFields /\ r.mode = w.mode /\ r.spec = w.spec /\ r.id = w.id
  /\ r.end \in Ends
  /\ r.pc = "release" \/ (r.pc = "manage" /\ w.mode # "create")

\* A step of a pass, from the end of its first read to its last call.
Keeping ==
  /\ ~At("idle") /\ CRKeeps /\ EC2Keeps
  /\ Kept(w') \/ (Missed(w') /\ w.id \notin Live')

\* The worker stops in the middle of a pass.
Stopping == CRKeeps /\ EC2Keeps /\ w' = IdleWorker

\* Something happens to the objects behind the worker's back.
Elsewhere ==
  /\ CRKeeps /\ EC2Keeps
  /\ DOMAIN w' = WorkerFields /\ w'.pc = w.pc /\ w'.mode = w.mode /\ w'.id = w.id
  /\ w'.spec = w.spec /\ w'.plan = w.plan /\ w'.end = w.end

\* An object is made; its id is in hand, or the reply was lost with it.
Creating ==
  /\ At("create") /\ nextId \in Ids
  /\ UNCHANGED <<cr, recorded>> /\ nextId' = nextId + 1
  /\ \E obj : ec2' = [ec2 EXCEPT ![nextId] = obj] /\ WellFormed(obj, cr.spec.kind)
  /\ DOMAIN w' = WorkerFields /\ w'.mode = "create" /\ w'.spec = w.spec /\ w'.end \in Ends
  /\ w'.pc \notin {"idle", "describe", "create", "manage", "release"}
  /\ \/ w'.id = nextId /\ faults' = faults
     \/ w'.id = cr.id /\ faults' = faults + 1 /\ w'.pc = "failed"

\* What the classes do to the objects of Lifecycle.
LifecycleEffect ==
  \/ cr'.managed = cr.managed /\ (Owning' = Owning \/ Owning' = {})
  \/ ~cr.managed /\ cr'.managed /\ Owning' = Owning
  \/ ~cr'.managed /\ Owning = {} /\ Owning' = {}
  \/ /\ cr.managed /\ cr'.managed /\ Owning = {}
     /\ \E i \in Owning' : Owning' = {i}

\* The objects that nobody has recorded nor has in hand, and what the classes do
\* to them: one comes at most, and then with a fault.
Orphans == Live \ (recorded \cup {w.id})

OrphanEffect ==
  \/ Orphans' \subseteq Orphans /\ faults' \in {faults, faults + 1}
  \/ faults' = faults + 1 /\ \E x : Orphans' \subseteq Orphans \cup {x}

\* A pass drops what it has created, and has not recorded, at the price of a fault,
\* or when it is no more.
FairDrop ==
  w'.id = w.id \/ w.mode # "create" \/ faults' = faults + 1 \/ w.id \notin Live'

----------------------------------------------------------------------------
(* Each class keeps the frame.                                             *)

LEMMA IdsArePositive == 0 \notin Ids /\ Ids \subseteq Nat /\ MaxObjects \in Nat
BY ControllerAssumption DEF Ids

\* A smaller set of live objects disturbs nothing.
LEMMA FewerLive ==
  ASSUME Frame, CRKeeps, EC2Keeps
  PROVE  /\ CRWellFormed' /\ EC2WellFormed' /\ PhaseOK' /\ IdsOK' /\ OwningOK'
         /\ Live' \subseteq Live /\ Owning' \subseteq Owning
         /\ Owning' = Owning \/ Owning' = {}
         /\ cr'.managed = cr.managed
<1>1. Live' \subseteq Live
  BY DEF EC2Keeps, Live
<1>2. Owning' \subseteq Owning
  BY <1>1 DEF Owning, CRKeeps
<1>3. Owning' = Owning \/ Owning' = {}
  BY <1>2 DEF Frame, Ownership, OwningOK
<1>4. CRWellFormed'
  BY DEF CRKeeps, CRWellFormed, Frame, WellFormedAll
<1>5. EC2WellFormed'
  BY DEF CRKeeps, EC2Keeps, EC2WellFormed, Frame, WellFormedAll
<1>6. PhaseOK'
  BY DEF CRKeeps, PhaseOK, Frame, Ownership
<1>7. IdsOK'
  BY <1>1 DEF CRKeeps, IdsOK, Frame, Ownership
<1>8. OwningOK'
  BY <1>2 DEF CRKeeps, OwningOK, Frame, Ownership
<1> QED BY <1>1, <1>2, <1>3, <1>4, <1>5, <1>6, <1>7, <1>8 DEF CRKeeps

LEMMA CRIdIsBelow == Frame => cr.id < nextId /\ cr.id \in Nat
<1> SUFFICES ASSUME Frame PROVE cr.id < nextId /\ cr.id \in Nat
  OBVIOUS
<1>1. nextId \in Nat /\ 0 < nextId /\ recorded \subseteq Nat
  BY IdsArePositive DEF Frame, WellFormedAll, EC2WellFormed
<1>2. cr.id \in recorded \/ cr.id = 0
  BY DEF Frame, Ownership, IdsOK
<1>3. \A i \in recorded : i < nextId
  BY DEF Frame, Ownership, IdsOK
<1>4. CASE cr.id \in recorded
  BY <1>1, <1>3, <1>4, Zenon
<1>5. CASE cr.id = 0
  BY <1>1, <1>5
<1> QED BY <1>2, <1>4, <1>5

LEMMA KeepingFrame ==
  ASSUME Frame, Keeping
  PROVE  Frame' /\ LifecycleEffect /\ (FairDrop => OrphanEffect)
<1>1. /\ CRWellFormed' /\ EC2WellFormed' /\ PhaseOK' /\ IdsOK' /\ OwningOK'
      /\ Live' \subseteq Live /\ Owning' \subseteq Owning
      /\ Owning' = Owning \/ Owning' = {}
      /\ cr'.managed = cr.managed
  BY FewerLive DEF Keeping
<1>2. /\ cr'.id = cr.id /\ cr'.phase = cr.phase /\ recorded' = recorded /\ nextId' = nextId
      /\ cr'.spec.kind = cr.spec.kind /\ ~At("idle") /\ faults' \in {faults, faults + 1}
  BY DEF Keeping, CRKeeps, EC2Keeps
<1>3. /\ w.mode \in {"update", "create", "delete"} /\ w.id \in Ids \cup {0}
      /\ cr.id \in Ids \cup {0} /\ w.spec.kind = cr.spec.kind
  BY <1>2 DEF Frame, WellFormedAll, WorkerWellFormed, CRWellFormed
<1>4. /\ DOMAIN w' = WorkerFields /\ w'.mode = w.mode /\ w'.spec = w.spec /\ w'.end \in Ends
      /\ w'.id = w.id \/ (w.mode = "create" /\ w'.id = cr.id)
      /\ w'.pc \notin {"idle", "describe", "create"}
      /\ w'.pc \in Working => w'.id # 0
      /\ w'.pc \in {"manage", "release"} => w'.id = w.id /\ w.id \notin Live'
      /\ w'.pc = "manage" => w.mode # "create"
  BY DEF Keeping, Kept, Missed, Working
<1>5. WorkerWellFormed'
  BY <1>2, <1>3, <1>4 DEF WorkerWellFormed, At
<1>6. PassOK'
  <2>1. cr.id < nextId
    BY CRIdIsBelow
  <2>2. ASSUME w'.pc \in {"manage", "release"} PROVE Owning' = {} /\ w'.id \notin Live'
    <3>1. w'.id = w.id /\ w.id \notin Live'
      BY <1>4, <2>2
    <3>2. CASE w.mode = "create"
      BY <1>1, <1>2, <3>1, <3>2 DEF Frame, Ownership, PassOK
    <3>3. CASE w.mode # "create"
      <4>1. w.id = cr.id /\ Owning \subseteq {cr.id}
        BY <1>2, <3>3 DEF Frame, Ownership, PassOK, OwningOK
      <4> QED BY <1>1, <3>1, <4>1 DEF Owning
    <3> QED BY <3>1, <3>2, <3>3
  <2>3. w.mode = "create" => Owning = {}
    BY <1>2 DEF Frame, Ownership, PassOK
  <2> QED BY <1>1, <1>2, <1>4, <2>1, <2>2, <2>3 DEF Frame, Ownership, PassOK, At
<1>7. LifecycleEffect
  BY <1>1 DEF LifecycleEffect
<1>8. ASSUME FairDrop PROVE OrphanEffect
  <2>1. CASE w'.id = w.id
    BY <1>1, <1>2, <2>1 DEF OrphanEffect, Orphans
  <2>2. CASE w.id \notin Live'
    BY <1>1, <1>2, <2>2 DEF OrphanEffect, Orphans
  <2>3. CASE faults' = faults + 1
    <3>1. Orphans' \subseteq Orphans \cup {w.id}
      BY <1>1, <1>2 DEF Orphans
    <3> QED BY <2>3, <3>1 DEF OrphanEffect
  <2> QED BY <1>4, <1>8, <2>1, <2>2, <2>3 DEF FairDrop
<1> QED BY <1>1, <1>5, <1>6, <1>7, <1>8 DEF Frame, WellFormedAll, Ownership

LEMMA IdleIs ==
  /\ DOMAIN IdleWorker = WorkerFields /\ IdleWorker.pc = "idle" /\ IdleWorker.id = 0
  /\ IdleWorker.mode = "update" /\ IdleWorker.end \in Ends
BY DEF IdleWorker, WorkerFields, Ends

LEMMA StoppingFrame ==
  ASSUME Frame, Stopping
  PROVE  Frame' /\ LifecycleEffect /\ (FairDrop => OrphanEffect)
<1>1. /\ CRWellFormed' /\ EC2WellFormed' /\ PhaseOK' /\ IdsOK' /\ OwningOK'
      /\ Live' \subseteq Live /\ Owning' \subseteq Owning
      /\ Owning' = Owning \/ Owning' = {}
      /\ cr'.managed = cr.managed
  BY FewerLive DEF Stopping
<1>2. recorded' = recorded /\ w'.id = 0 /\ w'.pc = "idle" /\ faults' \in {faults, faults + 1}
  BY IdleIs DEF Stopping, CRKeeps, EC2Keeps
<1>3. WorkerWellFormed' /\ PassOK'
  BY <1>2, IdleIs DEF Stopping, WorkerWellFormed, PassOK, At
<1>4. LifecycleEffect
  BY <1>1 DEF LifecycleEffect
<1>5. ASSUME FairDrop PROVE OrphanEffect
  <2>1. CASE w.id = 0 \/ w.id \in recorded
    BY <1>1, <1>2, <2>1, IdsArePositive DEF OrphanEffect, Orphans, Live
  <2>2. CASE faults' = faults + 1
    <3>1. Orphans' \subseteq Orphans \cup {w.id}
      BY <1>1, <1>2 DEF Orphans
    <3> QED BY <2>2, <3>1 DEF OrphanEffect
  <2>3. w.mode # "create" => w.id = 0 \/ w.id \in recorded
    BY DEF Frame, WellFormedAll, WorkerWellFormed, Ownership, PassOK, IdsOK
  <2>4. CASE w.id \notin Live'
    BY <1>1, <1>2, <2>4 DEF OrphanEffect, Orphans
  <2> QED BY <1>2, <1>5, <2>1, <2>2, <2>3, <2>4 DEF FairDrop
<1> QED BY <1>1, <1>3, <1>4, <1>5 DEF Frame, WellFormedAll, Ownership

LEMMA ElsewhereFrame ==
  ASSUME Frame, Elsewhere
  PROVE  Frame' /\ LifecycleEffect /\ OrphanEffect
<1>1. /\ CRWellFormed' /\ EC2WellFormed' /\ PhaseOK' /\ IdsOK' /\ OwningOK'
      /\ Live' \subseteq Live /\ Owning' \subseteq Owning
      /\ Owning' = Owning \/ Owning' = {}
      /\ cr'.managed = cr.managed
  BY FewerLive DEF Elsewhere
<1>2. /\ cr'.id = cr.id /\ cr'.phase = cr.phase /\ recorded' = recorded /\ nextId' = nextId
      /\ cr'.spec.kind = cr.spec.kind /\ faults' \in {faults, faults + 1}
  BY DEF Elsewhere, CRKeeps, EC2Keeps
<1>3. WorkerWellFormed'
  BY <1>2 DEF Elsewhere, WorkerWellFormed, Frame, WellFormedAll, At
<1>4. PassOK'
  BY <1>1, <1>2 DEF Elsewhere, PassOK, Frame, Ownership, At
<1>5. LifecycleEffect /\ OrphanEffect
  BY <1>1, <1>2 DEF Elsewhere, LifecycleEffect, OrphanEffect, Orphans
<1> QED BY <1>1, <1>3, <1>4, <1>5 DEF Frame, WellFormedAll, Ownership

LEMMA CreatingFrame ==
  ASSUME Frame, Creating
  PROVE  Frame' /\ LifecycleEffect /\ OrphanEffect
<1>1. /\ w.pc = "create" /\ w.mode = "create" /\ w.id = cr.id /\ cr.managed /\ Owning = {}
      /\ w.spec.kind = cr.spec.kind
  BY DEF Creating, At, Frame, WellFormedAll, WorkerWellFormed, Ownership, PassOK
<1>2. /\ UNCHANGED <<cr, recorded>> /\ nextId' = nextId + 1 /\ nextId \in Ids
      /\ nextId \in Nat /\ 0 \notin Ids /\ recorded \subseteq Ids /\ Ids \subseteq Nat
  BY IdsArePositive DEF Creating, Frame, WellFormedAll, EC2WellFormed
<1>3. /\ cr.id < nextId /\ nextId \notin recorded /\ nextId \notin Live
      /\ cr.id \in recorded \cup {0}
  BY <1>2, CRIdIsBelow DEF Frame, Ownership, IdsOK
<1>4. PICK obj : ec2' = [ec2 EXCEPT ![nextId] = obj] /\ WellFormed(obj, cr.spec.kind)
  BY DEF Creating
<1>5. /\ DOMAIN ec2' = Ids /\ ec2'[nextId] = obj
      /\ \A i \in Ids : i # nextId => ec2'[i] = ec2[i]
  BY <1>2, <1>4 DEF Frame, WellFormedAll, EC2WellFormed
<1>6. Live' \subseteq Live \cup {nextId} /\ Live \subseteq Live'
  BY <1>3, <1>5 DEF Live
<1>7. Owning' = {}
  BY <1>1, <1>2, <1>3, <1>6 DEF Owning
<1>8. CRWellFormed' /\ EC2WellFormed'
  <2>1. faults' \in Nat
    BY DEF Creating, Frame, WellFormedAll, EC2WellFormed
  <2>2. nextId' \in 1 .. MaxObjects + 1
    BY <1>2, IdsArePositive DEF Ids
  <2>3. \A i \in Ids : WellFormed(ec2'[i], cr.spec.kind)
    BY <1>4, <1>5 DEF Frame, WellFormedAll, EC2WellFormed
  <2> QED BY <1>2, <1>5, <2>1, <2>2, <2>3
          DEF Frame, WellFormedAll, CRWellFormed, EC2WellFormed
<1>9. WorkerWellFormed'
  <2>1. w'.id \in Ids \cup {0}
    BY <1>2 DEF Creating, Frame, WellFormedAll, CRWellFormed
  <2> QED BY <1>1, <1>2, <2>1 DEF Creating, WorkerWellFormed, At
<1>10. PhaseOK' /\ OwningOK'
  BY <1>2, <1>7 DEF Frame, Ownership, PhaseOK, OwningOK
<1>11. IdsOK'
  <2>1. \A i \in recorded \cup Live : i < nextId /\ i \in Nat
    BY <1>2 DEF Frame, Ownership, IdsOK, Live
  <2>2. \A i \in recorded' \cup Live' : i < nextId'
    BY <1>2, <1>6, <2>1
  <2> QED BY <1>2, <1>3, <2>2 DEF IdsOK
<1>12. PassOK'
  <2>1. w'.id < nextId' /\ (w'.id = cr.id \/ w'.id \notin recorded)
    <3>1. cr.id \in Nat
      BY CRIdIsBelow
    <3> QED BY <1>2, <1>3, <3>1 DEF Creating
  <2>2. w'.pc \in Working => w'.id # 0
    BY <1>2 DEF Creating, Working
  <2>3. cr.phase = "gone" => cr.id = 0
    BY <1>1 DEF Frame, Ownership, PassOK, At
  <2> QED BY <1>1, <1>2, <1>7, <2>1, <2>2, <2>3 DEF Creating, PassOK, At
<1>13. LifecycleEffect
  BY <1>1, <1>2, <1>7 DEF LifecycleEffect
<1>14. OrphanEffect
  <2>1. CASE w'.id = nextId /\ faults' = faults
    <3>1. Orphans' \subseteq Orphans
      BY <1>1, <1>2, <1>3, <1>6, <2>1 DEF Orphans, Live
    <3> QED BY <2>1, <3>1 DEF OrphanEffect
  <2>2. CASE w'.id = cr.id /\ faults' = faults + 1
    <3>1. Orphans' \subseteq Orphans \cup {nextId}
      BY <1>1, <1>2, <1>6, <2>2 DEF Orphans
    <3> QED BY <2>2, <3>1 DEF OrphanEffect
  <2> QED BY <2>1, <2>2 DEF Creating
<1> QED BY <1>8, <1>9, <1>10, <1>11, <1>12, <1>13, <1>14 DEF Frame, WellFormedAll, Ownership

----------------------------------------------------------------------------
(* Plans.                                                                  *)

Ops(calls) == {calls[i][1] : i \in DOMAIN calls}

\* A plan, and the operations it consists of.
IsPlan(calls, ops) ==
  calls \in Seq({calls[i] : i \in DOMAIN calls}) /\ Ops(calls) \subseteq ops

\* Some sequence of calls, whatever their arguments.
LEMMA PlansAreSequences ==
  ASSUME NEW calls, NEW ops, IsPlan(calls, ops)
  PROVE  /\ Len(calls) \in Nat /\ DOMAIN calls = 1 .. Len(calls)
         /\ \A i \in 1 .. Len(calls) : calls[i][1] \in ops
BY DEF IsPlan, Ops

LEMMA SequencesArePlans ==
  ASSUME NEW S, NEW calls \in Seq(S), NEW ops, \A i \in 1 .. Len(calls) : calls[i][1] \in ops
  PROVE  IsPlan(calls, ops)
<1> DEFINE R == {calls[i] : i \in DOMAIN calls}
<1>1. Len(calls) \in Nat /\ DOMAIN calls = 1 .. Len(calls)
  OBVIOUS
<1>2. \A i \in 1 .. Len(calls) : calls[i] \in R
  BY <1>1
<1> HIDE DEF R
<1>3. calls = [i \in 1 .. Len(calls) |-> calls[i]]
  BY <1>1
<1>4. calls \in Seq(R)
  BY <1>1, <1>2, <1>3
<1> QED BY <1>1, <1>4 DEF IsPlan, Ops, R

LEMMA ConcatIsPlan ==
  ASSUME NEW ops, NEW s, NEW t, IsPlan(s, ops), IsPlan(t, ops)
  PROVE  IsPlan(s \o t, ops)
<1> DEFINE R == {s[i] : i \in DOMAIN s} \cup {t[i] : i \in DOMAIN t}
<1>1. s \in Seq(R) /\ t \in Seq(R)
  BY SeqMonotonic DEF IsPlan
<1>2. /\ \A i \in 1 .. Len(s) : s[i][1] \in ops
      /\ \A i \in 1 .. Len(t) : t[i][1] \in ops
  BY PlansAreSequences
<1> HIDE DEF R
<1>3. /\ s \o t \in Seq(R) /\ Len(s \o t) = Len(s) + Len(t)
      /\ \A i \in 1 .. Len(s) + Len(t) :
           (s \o t)[i] = IF i <= Len(s) THEN s[i] ELSE t[i - Len(s)]
  BY <1>1, ConcatProperties
<1>4. \A i \in 1 .. Len(s \o t) : (s \o t)[i][1] \in ops
  BY <1>1, <1>2, <1>3
<1> QED BY <1>3, <1>4, SequencesArePlans

LEMMA NoCalls == \A ops : IsPlan(<<>>, ops) /\ Len(<<>>) = 0
<1> TAKE ops
<1> DEFINE none == <<>>
<1>1. none \in Seq({}) /\ Len(none) = 0
  OBVIOUS
<1> HIDE DEF none
<1>2. \A i \in 1 .. Len(none) : none[i][1] \in ops
  BY <1>1
<1>3. IsPlan(none, ops)
  BY <1>1, <1>2, SequencesArePlans
<1> QED BY <1>1, <1>3 DEF none

LEMMA OneCall ==
  ASSUME NEW op, NEW x
  PROVE  IsPlan(<<<<op, x>>>>, {op}) /\ Len(<<<<op, x>>>>) = 1
<1> DEFINE call == <<op, x>>
<1>0. call[1] = op
  OBVIOUS
<1> HIDE DEF call
<1> DEFINE calls == <<call>>
<1>1. calls \in Seq({call}) /\ Len(calls) = 1 /\ calls[1] = call
  OBVIOUS
<1> HIDE DEF calls
<1>2. \A i \in 1 .. Len(calls) : calls[i][1] \in {op}
  BY <1>0, <1>1
<1>3. IsPlan(calls, {op}) /\ Len(calls) = 1
  BY <1>1, <1>2, SequencesArePlans
<1> QED BY <1>3 DEF call, calls

\* What is left of a plan after the first n calls.
LEMMA RestIsPlan ==
  ASSUME NEW ops, NEW calls, IsPlan(calls, ops), NEW n \in 1 .. Len(calls)
  PROVE  LET rest == SubSeq(calls, n + 1, Len(calls))
         IN  /\ IsPlan(rest, ops) /\ DOMAIN rest = 1 .. Len(calls) - n
             /\ \A i \in 1 .. Len(calls) - n : rest[i] = calls[i + n]
<1> DEFINE R == {calls[i] : i \in DOMAIN calls}
           rest == SubSeq(calls, n + 1, Len(calls))
<1>1. calls \in Seq(R) /\ Len(calls) \in Nat /\ \A i \in 1 .. Len(calls) : calls[i][1] \in ops
  BY PlansAreSequences DEF IsPlan
<1> HIDE DEF R
<1>2. /\ rest \in Seq(R) /\ Len(rest) = Len(calls) - n
      /\ \A i \in 1 .. Len(calls) - n : rest[i] = calls[i + n]
  BY <1>1, SubSeqProperties
<1>3. \A i \in 1 .. Len(rest) : rest[i][1] \in ops
  BY <1>1, <1>2
<1>4. DOMAIN rest = 1 .. Len(rest)
  BY <1>2
<1> QED BY <1>2, <1>3, <1>4, SequencesArePlans

LEMMA TailIsRest ==
  ASSUME NEW ops, NEW calls, IsPlan(calls, ops), calls # <<>>
  PROVE  /\ 1 \in 1 .. Len(calls) /\ Tail(calls) = SubSeq(calls, 2, Len(calls))
         /\ Head(calls) = calls[1]
<1> DEFINE R == {calls[i] : i \in DOMAIN calls}
<1>1. calls \in Seq(R)
  BY DEF IsPlan
<1> HIDE DEF R
<1>2. Len(calls) \in Nat \ {0} /\ Tail(calls) = SubSeq(calls, 2, Len(calls))
  BY <1>1, TailIsSubSeq, EmptySeq
<1> QED BY <1>1, <1>2, HeadTailProperties

LEMMA SubPlan ==
  \A calls, ops, more : IsPlan(calls, ops) /\ ops \subseteq more => IsPlan(calls, more)
BY DEF IsPlan

LEMMA TailIsPlan ==
  ASSUME NEW calls, NEW ops, IsPlan(calls, ops), calls # <<>>
  PROVE  IsPlan(Tail(calls), ops)
<1> DEFINE rest == SubSeq(calls, 1 + 1, Len(calls))
<1>1. 1 \in 1 .. Len(calls) /\ Tail(calls) = rest
  BY TailIsRest
<1>2. IsPlan(rest, ops)
  BY <1>1, RestIsPlan
<1> HIDE DEF rest
<1> QED BY <1>1, <1>2

\* Plans put together.
LEMMA WhenIsPlan ==
  ASSUME NEW condition, NEW op, NEW x
  PROVE  /\ IsPlan(When(condition, op, x), {op})
         /\ ~condition => \A ops : IsPlan(When(condition, op, x), ops)
<1>1. CASE condition
  <2>1. When(condition, op, x) = <<<<op, x>>>>
    BY <1>1 DEF When
  <2> QED BY <1>1, <2>1, OneCall
<1>2. CASE ~condition
  <2>1. When(condition, op, x) = <<>>
    BY <1>2 DEF When
  <2> QED BY <2>1, NoCalls
<1> QED BY <1>1, <1>2

LEMMA ConcatIs ==
  ASSUME NEW opsS, NEW opsT, NEW s, NEW t, IsPlan(s, opsS), IsPlan(t, opsT)
  PROVE  /\ Len(s) \in Nat /\ Len(t) \in Nat
         /\ DOMAIN s = 1 .. Len(s) /\ DOMAIN t = 1 .. Len(t)
         /\ DOMAIN (s \o t) = 1 .. Len(s) + Len(t)
         /\ \A i \in 1 .. Len(s) + Len(t) :
              (s \o t)[i] = IF i <= Len(s) THEN s[i] ELSE t[i - Len(s)]
<1> DEFINE R == {s[i] : i \in DOMAIN s} \cup {t[i] : i \in DOMAIN t}
<1>1. s \in Seq(R) /\ t \in Seq(R)
  BY SeqMonotonic DEF IsPlan
<1> HIDE DEF R
<1>2. /\ Len(s) \in Nat /\ Len(t) \in Nat
      /\ DOMAIN s = 1 .. Len(s) /\ DOMAIN t = 1 .. Len(t)
  BY <1>1
<1>3. /\ s \o t \in Seq(R) /\ Len(s \o t) = Len(s) + Len(t)
      /\ \A i \in 1 .. Len(s) + Len(t) :
           (s \o t)[i] = IF i <= Len(s) THEN s[i] ELSE t[i - Len(s)]
  BY <1>1, ConcatProperties
<1>4. DOMAIN (s \o t) = 1 .. Len(s) + Len(t)
  BY <1>3
<1> QED BY <1>2, <1>3, <1>4

\* The operations of plans put together, and of what is left of one.
LEMMA OpsOfWhen ==
  ASSUME NEW condition \in BOOLEAN, NEW op, NEW x
  PROVE  Ops(When(condition, op, x)) = IF condition THEN {op} ELSE {}
<1>1. CASE condition
  <2> DEFINE call == <<op, x>>
             calls == <<call>>
  <2>1. call[1] = op
    OBVIOUS
  <2> HIDE DEF call
  <2>2. DOMAIN calls = {1} /\ calls[1] = call
    OBVIOUS
  <2>3. When(condition, op, x) = calls
    BY <1>1 DEF When, call
  <2> HIDE DEF calls
  <2>4. Ops(calls) = {calls[1][1]}
    BY <2>2 DEF Ops
  <2> QED BY <1>1, <2>1, <2>2, <2>3, <2>4
<1>2. CASE ~condition
  BY <1>2 DEF When, Ops
<1> QED BY <1>1, <1>2

LEMMA OpsOfConcat ==
  ASSUME NEW s, NEW t, NEW opsS, NEW opsT, IsPlan(s, opsS), IsPlan(t, opsT)
  PROVE  Ops(s \o t) = Ops(s) \cup Ops(t) /\ IsPlan(s \o t, opsS \cup opsT)
<1>1. /\ Len(s) \in Nat /\ Len(t) \in Nat
      /\ DOMAIN s = 1 .. Len(s) /\ DOMAIN t = 1 .. Len(t)
      /\ DOMAIN (s \o t) = 1 .. Len(s) + Len(t)
      /\ \A i \in 1 .. Len(s) + Len(t) :
           (s \o t)[i] = IF i <= Len(s) THEN s[i] ELSE t[i - Len(s)]
  BY ConcatIs
<1>2. IsPlan(s \o t, opsS \cup opsT)
  <2>1. IsPlan(s, opsS \cup opsT) /\ IsPlan(t, opsS \cup opsT)
    BY SubPlan
  <2> QED BY <2>1, ConcatIsPlan
<1> DEFINE r == s \o t
<1> HIDE DEF r
<1>3. /\ DOMAIN r = 1 .. Len(s) + Len(t)
      /\ \A i \in 1 .. Len(s) : i \in DOMAIN r /\ r[i] = s[i]
      /\ \A i \in 1 .. Len(t) : i + Len(s) \in DOMAIN r /\ r[i + Len(s)] = t[i]
      /\ \A i \in DOMAIN r : \/ i \in 1 .. Len(s) /\ r[i] = s[i]
                             \/ i - Len(s) \in 1 .. Len(t) /\ r[i] = t[i - Len(s)]
  BY <1>1 DEF r
<1>4. Ops(r) \subseteq Ops(s) \cup Ops(t)
  BY <1>1, <1>3 DEF Ops
<1>5. Ops(s) \subseteq Ops(r)
  BY <1>1, <1>3 DEF Ops
<1>6. Ops(t) \subseteq Ops(r)
  BY <1>1, <1>3 DEF Ops
<1> QED BY <1>2, <1>4, <1>5, <1>6 DEF r

LEMMA OpsOfTail ==
  ASSUME NEW calls, NEW ops, IsPlan(calls, ops), calls # <<>>
  PROVE  Ops(calls) \subseteq {Head(calls)[1]} \cup Ops(Tail(calls))
<1> DEFINE rest == SubSeq(calls, 1 + 1, Len(calls))
<1>1. 1 \in 1 .. Len(calls) /\ Tail(calls) = rest /\ Head(calls) = calls[1]
  BY TailIsRest
<1>2. Len(calls) \in Nat /\ DOMAIN calls = 1 .. Len(calls)
  BY PlansAreSequences
<1>3. /\ DOMAIN rest = 1 .. Len(calls) - 1
      /\ \A i \in 1 .. Len(calls) - 1 : rest[i] = calls[i + 1]
  BY <1>1, RestIsPlan
<1> HIDE DEF rest
<1>4. ASSUME NEW i \in DOMAIN calls, i # 1
      PROVE  i - 1 \in DOMAIN rest /\ rest[i - 1] = calls[i]
  BY <1>2, <1>3, <1>4
<1> QED BY <1>1, <1>4 DEF Ops

----------------------------------------------------------------------------
(* The outcomes of a step of the worker.                                   *)

\* What a call may make of an object: it lives no longer than it did.
Tame(obj, from) == WellFormed(obj, cr.spec.kind) /\ (obj.live => from.live)

LEMMA WorkerIs ==
  ASSUME Frame, ~At("idle")
  PROVE  /\ DOMAIN w = WorkerFields /\ w.mode \in {"update", "create", "delete"}
         /\ w.end \in Ends
         /\ w.id \in Ids \cup {0} /\ w.spec.kind = cr.spec.kind
         /\ w.mode # "create" => w.id = cr.id
         /\ w.pc \in Working => w.id # 0 /\ w.id \in Ids /\ WellFormed(Obj, cr.spec.kind)
         /\ w.pc \in {"describe", "manage"} => w.mode # "create"
         /\ w.pc = "create" => w.mode = "create" /\ w.id = cr.id
BY DEF Frame, WellFormedAll, WorkerWellFormed, EC2WellFormed, Ownership, PassOK, Obj

LEMMA UnchangedKeeps ==
  Frame => /\ UNCHANGED <<cr, env>> => CRKeeps
           /\ UNCHANGED ec2 /\ faults' \in {faults, faults + 1} => EC2Keeps
BY DEF Frame, WellFormedAll, CRWellFormed, EC2WellFormed, CRKeeps, EC2Keeps, env

LEMMA ObjectKeeps ==
  ASSUME Frame, NEW i \in Ids, NEW obj, Tame(obj, ec2[i]),
         ec2' \in {ec2, [ec2 EXCEPT ![i] = obj]}, faults' \in {faults, faults + 1}
  PROVE  EC2Keeps
<1>1. DOMAIN ec2 = Ids /\ \A j \in Ids : WellFormed(ec2[j], cr.spec.kind)
  BY DEF Frame, WellFormedAll, EC2WellFormed
<1>2. CASE ec2' = ec2
  BY <1>1, <1>2 DEF EC2Keeps
<1>3. CASE ec2' = [ec2 EXCEPT ![i] = obj]
  <2>1. DOMAIN ec2' = Ids /\ ec2'[i] = obj /\ \A j \in Ids : j # i => ec2'[j] = ec2[j]
    BY <1>1, <1>3
  <2> QED BY <1>1, <2>1 DEF EC2Keeps, Tame
<1> QED BY <1>2, <1>3

LEMMA GoKeeps ==
  ASSUME Frame, ~At("idle"), NEW next, Go(next), Kept(next)
  PROVE  Keeping /\ (next.id = w.id => FairDrop)
<1>1. CRKeeps /\ EC2Keeps
  BY UnchangedKeeps DEF Go
<1> QED BY <1>1 DEF Go, Keeping, FairDrop

LEMMA UnreadKeeps ==
  ASSUME Frame, ~At("idle"), NEW failed, Unread(failed), Kept(failed)
  PROVE  Keeping /\ FairDrop
<1>1. CRKeeps /\ EC2Keeps
  BY UnchangedKeeps DEF Unread
<1> QED BY <1>1 DEF Unread, Keeping, FairDrop

\* A call on the object in hand; the pass may go on to release it.
LEMMA CallKeeps ==
  ASSUME Frame, ~At("idle"), w.id \in Ids, NEW obj, NEW next, NEW failed,
         Call(obj, next, failed), Tame(obj, Obj), Kept(failed),
         Kept(next) \/ (Missed(next) /\ ~obj.live)
  PROVE  Keeping /\ (next.id = w.id => FairDrop)
<1>1. CRKeeps
  BY UnchangedKeeps DEF Call
<1>2. ec2' \in {ec2, [ec2 EXCEPT ![w.id] = obj]} /\ faults' \in {faults, faults + 1}
  BY DEF Call
<1>3. EC2Keeps
  BY <1>2, ObjectKeeps DEF Obj
<1>4. CASE w' = failed /\ faults' = faults + 1
  BY <1>1, <1>3, <1>4 DEF Keeping, FairDrop
<1>5. CASE w' = next /\ ec2' = [ec2 EXCEPT ![w.id] = obj]
  <2>1. ec2'[w.id] = obj
    BY <1>5 DEF Frame, WellFormedAll, EC2WellFormed
  <2>2. Kept(w') \/ (Missed(w') /\ w.id \notin Live')
    BY <1>5, <2>1 DEF Live
  <2> QED BY <1>1, <1>3, <1>5, <2>2 DEF Keeping, FairDrop
<1> QED BY <1>4, <1>5 DEF Call

\* The single fields that calls change, and the states they lead to.
LEMMA ChangesAreTame ==
  ASSUME NEW from, WellFormed(from, cr.spec.kind), NEW x
  PROVE  /\ Tame(from, from) /\ Tame(Gone, from)
         /\ Tame([from EXCEPT !.tags = x], from)
         /\ Tame([from EXCEPT !.tables = x], from)
         /\ Tame([from EXCEPT !.attrs = x], from)
         /\ Tame([from EXCEPT !.vpc = x], from)
         /\ Tame([from EXCEPT !.vpcs = x], from)
         /\ Tame([from EXCEPT !.entries = x], from)
         /\ Tame([from EXCEPT !.subnets = x], from)
         /\ Tame([from EXCEPT !.info = x], from)
         /\ Tame([from EXCEPT !.count = x], from)
         /\ Tame([from EXCEPT !.data = x], from)
         /\ Tame([from EXCEPT !.default = x], from)
         /\ Tame([from EXCEPT !.options = x], from)
         /\ Tame([from EXCEPT !.principals = x], from)
         /\ Tame([from EXCEPT !.acceptance = x], from)
         /\ Tame([from EXCEPT !.live = FALSE], from)
         /\ Tame([from EXCEPT !.live = FALSE, !.state = x], from)
         /\ x \notin Ending => Tame([from EXCEPT !.state = x], from)
         /\ ~from.live => Tame([from EXCEPT !.state = x], from)
BY DEF Tame, WellFormed, Gone

LEMMA GoneIsDead == ~Gone.live
BY DEF Gone

\* The workers that a step leaves behind.
LEMMA WorkersKept ==
  ASSUME Frame, ~At("idle")
  PROVE  /\ \A l \in {"synced", "requeue", "failed"} :
              Kept(Over(l)) /\ Over(l).id = w.id /\ Kept([w EXCEPT !.pc = l])
         /\ Kept(onError) /\ (w.mode # "create" => onError.id = w.id)
         /\ w.mode = "create" => Kept(CreateFailed) /\ CreateFailed.id = cr.id
                                 /\ CreateFailed.pc = "failed"
         /\ w.pc = "plan" => Kept(Done) /\ Done.id = w.id
         /\ w.pc = "describe" => Missed(NotFound)
         /\ w.id # 0 => /\ Kept(Found) /\ Found.id = w.id
                        /\ \A calls : Kept(Plan(calls)) /\ Plan(calls).id = w.id
         /\ w.pc \in Working => Missed([w EXCEPT !.pc = "release"])
<1>1. /\ DOMAIN w = WorkerFields /\ w.end \in Ends /\ "synced" \in Ends
      /\ w.pc \in Working => w.id # 0
      /\ w.pc \in {"describe", "manage"} => w.mode # "create"
      /\ w.mode # "create" => w.id = cr.id
  BY WorkerIs DEF Ends
<1>2. ASSUME NEW l \in {"synced", "requeue", "failed"}
      PROVE  Kept(Over(l)) /\ Over(l).id = w.id /\ Kept([w EXCEPT !.pc = l])
             /\ Over(l).pc = l
  BY <1>1 DEF Over, Kept, Working, WorkerFields
<1>3. w.mode = "create" => Kept(CreateFailed) /\ CreateFailed.id = cr.id
                           /\ CreateFailed.pc = "failed"
  <2> DEFINE o == Over("failed")
  <2>1. DOMAIN o = WorkerFields /\ o.mode = w.mode /\ o.spec = w.spec /\ o.pc = "failed"
        /\ o.end \in Ends
    BY <1>1 DEF Over, WorkerFields
  <2>2. {"pc", "mode", "id", "version", "spec", "end"} \subseteq DOMAIN o
    BY <2>1 DEF WorkerFields
  <2>3. CreateFailed = [o EXCEPT !.id = cr.id, !.version = cr.version]
    BY DEF CreateFailed
  <2> HIDE DEF o
  <2> QED BY <2>1, <2>2, <2>3 DEF Kept, Working
<1>4. Kept(onError) /\ (w.mode # "create" => onError.id = w.id)
  BY <1>2, <1>3 DEF onError
<1>5. w.pc = "plan" => Kept(Done) /\ Done.id = w.id
  BY <1>1 DEF Done, Kept, Working, WorkerFields
<1>6. w.pc = "describe" => Missed(NotFound)
  BY <1>1 DEF NotFound, Missed, WorkerFields
<1>7. w.id # 0 => /\ Kept(Found) /\ Found.id = w.id
                  /\ \A calls : Kept(Plan(calls)) /\ Plan(calls).id = w.id
  BY <1>1 DEF Found, Plan, Kept, WorkerFields
<1>8. w.pc \in Working => Missed([w EXCEPT !.pc = "release"])
  BY <1>1 DEF Missed, WorkerFields
<1> QED BY <1>2, <1>3, <1>4, <1>5, <1>6, <1>7, <1>8

\* CreateObject makes the object or, with or without it, fails.
LEMMA CreateObjectCreates ==
  ASSUME Frame, At("create"), NEW obj, NEW next, CreateObject(obj, next),
         WellFormed(obj, cr.spec.kind),
         DOMAIN next = WorkerFields, next.mode = w.mode, next.spec = w.spec,
         next.end \in Ends,
         next.pc \notin {"idle", "describe", "create", "manage", "release"}
  PROVE  Creating \/ (Keeping /\ FairDrop)
<1>1. w.mode = "create" /\ w.id = cr.id /\ ~At("idle") /\ DOMAIN w = WorkerFields
  BY WorkerIs DEF At
<1>2. /\ Kept(CreateFailed) /\ CreateFailed.id = w.id /\ CreateFailed.pc = "failed"
      /\ DOMAIN CreateFailed = WorkerFields /\ CreateFailed.mode = "create"
      /\ CreateFailed.end \in Ends
      /\ CreateFailed.spec = w.spec
  BY <1>1, WorkersKept DEF Kept
<1>3. CASE w' = CreateFailed /\ UNCHANGED <<ec2, nextId>> /\ faults' \in {faults, faults + 1}
  <2>1. UNCHANGED <<cr, env>>
    BY <1>3 DEF CreateObject, env
  <2> QED BY <1>1, <1>2, <1>3, <2>1, UnchangedKeeps DEF Keeping, FairDrop
<1>4. CASE /\ nextId \in Ids /\ ec2' = [ec2 EXCEPT ![nextId] = obj] /\ nextId' = nextId + 1
           /\ w' = CreateFailed /\ faults' = faults + 1
  <2>1. UNCHANGED <<cr, recorded>>
    BY DEF CreateObject
  <2> QED BY <1>1, <1>2, <1>4, <2>1 DEF Creating
<1>5. CASE /\ nextId \in Ids /\ ec2' = [ec2 EXCEPT ![nextId] = obj] /\ nextId' = nextId + 1
           /\ w' = [next EXCEPT !.id = nextId] /\ faults' = faults
  <2>1. UNCHANGED <<cr, recorded>>
    BY DEF CreateObject
  <2>2. /\ DOMAIN w' = WorkerFields /\ w'.mode = "create" /\ w'.spec = w.spec
        /\ w'.id = nextId /\ w'.pc = next.pc /\ w'.end \in Ends
    BY <1>1, <1>5 DEF WorkerFields
  <2> QED BY <1>1, <1>5, <2>1, <2>2 DEF Creating
<1> QED BY <1>3, <1>4, <1>5 DEF CreateObject

\* The Describe call: what is taken for missing is dead.
LEMMA DescribeKeeps ==
  ASSUME Frame, NEW found, NEW missing, Describe(found, missing),
         w.id # 0 => \/ Kept(found)
                     \/ found = NotFound /\ ~Obj.live,
         missing \in {onError, NotFound}
  PROVE  Keeping /\ FairDrop
<1>1. ~At("idle") /\ w.pc = "describe" /\ w.mode # "create"
  BY WorkerIs DEF Describe, At
<1>2. Kept(onError) /\ Missed(NotFound)
  BY <1>1, WorkersKept
<1>3. FairDrop
  BY <1>1 DEF FairDrop
<1>4. CASE Unread(onError)
  BY <1>1, <1>2, <1>4, UnreadKeeps
<1>5. CASE Go(IF w.id = 0 THEN NotFound ELSE IF Obj # Gone THEN found ELSE missing)
  <2>1. CRKeeps /\ EC2Keeps /\ ec2' = ec2
    BY <1>5, UnchangedKeeps DEF Go
  <2>2. Live' = Live /\ 0 \notin Live
    BY <2>1, IdsArePositive DEF Live
  <2>3. CASE w.id = 0
    BY <1>1, <1>2, <1>3, <1>5, <2>1, <2>2, <2>3 DEF Go, Keeping
  <2>4. CASE w.id # 0 /\ Obj # Gone
    <3>1. w' = found
      BY <1>5, <2>4 DEF Go
    <3>2. ~Obj.live => w.id \notin Live'
      BY <2>2 DEF Live, Obj
    <3> QED BY <1>1, <1>2, <1>3, <2>1, <2>4, <3>1, <3>2 DEF Keeping
  <2>5. CASE w.id # 0 /\ Obj = Gone
    <3>1. w' = missing
      BY <1>5, <2>5 DEF Go
    <3>2. w.id \notin Live'
      BY <2>2, <2>5, GoneIsDead DEF Live, Obj
    <3> QED BY <1>1, <1>2, <1>3, <2>1, <3>1, <3>2 DEF Keeping
  <2> QED BY <2>3, <2>4, <2>5
<1> QED BY <1>4, <1>5 DEF Describe

LEMMA DeleteKeeps ==
  ASSUME Frame, w.pc \in Working, NEW allowed, Delete(allowed)
  PROVE  Keeping /\ (w.mode # "create" => FairDrop)
<1>1. ~At("idle") /\ w.id \in Ids /\ WellFormed(Obj, cr.spec.kind)
  BY WorkerIs DEF At, Working
<1>2. Kept(onError) /\ Missed([w EXCEPT !.pc = "release"]) /\ Tame(Gone, Obj) /\ ~Gone.live
  BY <1>1, WorkersKept, ChangesAreTame, GoneIsDead
<1>3. CASE Go(onError)
  BY <1>1, <1>2, <1>3, GoKeeps DEF FairDrop
<1>4. CASE Call(Gone, [w EXCEPT !.pc = "release"], onError)
  BY <1>1, <1>2, <1>4, CallKeeps DEF FairDrop
<1> QED BY <1>3, <1>4 DEF Delete

\* A step of a plan whose call may be refused.
LEMMA DoingIs ==
  ASSUME Frame, At("plan")
  PROVE  /\ ~At("idle") /\ w.pc \in Working /\ w.id \in Ids /\ w.id # 0
         /\ WellFormed(Obj, cr.spec.kind) /\ Kept(Done) /\ Done.id = w.id /\ Kept(onError)
         /\ DOMAIN w = WorkerFields /\ w.end \in Ends
BY WorkerIs, WorkersKept DEF At, Working

LEMMA syncTagsKeeps ==
  ASSUME Frame, syncTags
  PROVE  Keeping
<1> DEFINE removed == Obj.tags \ (w.seen.tags \ w.spec.tags)
           synced  == removed \cup (w.spec.tags \ w.seen.tags)
<1>1. /\ ~At("idle") /\ w.id \in Ids /\ WellFormed(Obj, cr.spec.kind)
      /\ Kept(Done) /\ Kept(onError)
  BY DoingIs DEF syncTags, Doing
<1>2. CASE Call([Obj EXCEPT !.tags = synced], Done, onError)
  <2>1. Tame([Obj EXCEPT !.tags = synced], Obj)
    BY <1>1, ChangesAreTame
  <2> QED BY <1>1, <1>2, <2>1, CallKeeps
<1>3. CASE /\ faults' = faults + 1 /\ w' = onError
           /\ ec2' = [ec2 EXCEPT ![w.id].tags = removed] /\ UNCHANGED <<cr, env>>
  <2>1. ec2' = [ec2 EXCEPT ![w.id] = [Obj EXCEPT !.tags = removed]]
    BY <1>3 DEF Obj
  <2>2. Tame([Obj EXCEPT !.tags = removed], Obj)
    BY <1>1, ChangesAreTame
  <2>3. EC2Keeps /\ CRKeeps
    BY <1>1, <1>3, <2>1, <2>2, ObjectKeeps, UnchangedKeeps DEF Obj
  <2> QED BY <1>1, <1>3, <2>3 DEF Keeping
<1>4. CASE Go(onError)
  BY <1>1, <1>4, GoKeeps
<1> QED BY <1>2, <1>3, <1>4 DEF syncTags

LEMMA PlanStepsKeep ==
  ASSUME Frame, returnDesired \/ finish
  PROVE  Keeping /\ FairDrop
<1>1. ~At("idle") /\ w.id # 0 /\ DOMAIN w = WorkerFields /\ At("plan") /\ w.end \in Ends
  BY DoingIs DEF returnDesired, finish, Doing
<1>2. CASE returnDesired
  <2>1. Kept([Done EXCEPT !.version = cr.version]) /\ [Done EXCEPT !.version = cr.version].id = w.id
    BY <1>1 DEF Done, Kept, WorkerFields, At
  <2> QED BY <1>1, <1>2, <2>1, GoKeeps DEF returnDesired
<1>3. CASE finish
  <2>1. Kept(Over(w.end)) /\ Over(w.end).id = w.id
    BY <1>1, WorkersKept DEF Ends
  <2> QED BY <1>1, <1>3, <2>1, GoKeeps DEF finish
<1> QED BY <1>2, <1>3

----------------------------------------------------------------------------
(* The runtime, the user and the rest of the world.                        *)

\* A step that keeps the frame and does to the objects what it may.
Sound == Frame' /\ LifecycleEffect /\ OrphanEffect

LEMMA ClassesAreSound ==
  ASSUME Frame,
         (Keeping /\ FairDrop) \/ (Stopping /\ FairDrop) \/ Elsewhere \/ Creating
  PROVE  Sound
BY KeepingFrame, StoppingFrame, ElsewhereFrame, CreatingFrame DEF Sound

\* Steps that leave EC2, and who owns what, as they were.
LEMMA SameLive ==
  ASSUME Frame, UNCHANGED <<ec2, recorded, nextId>>, cr'.id = cr.id,
         cr'.managed = cr.managed \/ Owning = {},
         cr'.managed = cr.managed \/ cr'.managed = TRUE \/ cr'.managed = FALSE
  PROVE  Live' = Live /\ Owning' = Owning /\ IdsOK' /\ OwningOK' /\ LifecycleEffect
<1>1. Live' = Live /\ Owning' = Owning
  BY DEF Live, Owning
<1>2. IdsOK' /\ OwningOK'
  BY <1>1 DEF Frame, Ownership, IdsOK, OwningOK
<1>3. cr.managed \in BOOLEAN
  BY DEF Frame, WellFormedAll, CRWellFormed
<1>4. LifecycleEffect
  <2>1. CASE cr'.managed = cr.managed
    BY <1>1, <2>1 DEF LifecycleEffect
  <2>2. CASE Owning = {} /\ cr'.managed = TRUE /\ cr.managed = FALSE
    BY <1>1, <2>2 DEF LifecycleEffect
  <2>3. CASE Owning = {} /\ cr'.managed = FALSE
    BY <1>1, <2>3 DEF LifecycleEffect
  <2> QED BY <1>3, <2>1, <2>2, <2>3
<1> QED BY <1>1, <1>2, <1>4

LEMMA BeginIsSound ==
  ASSUME Frame, Begin
  PROVE  Sound
<1>1. /\ w.pc = "idle" /\ w.id = 0 /\ cr.phase # "gone"
      /\ UNCHANGED <<cr, ec2, faults, nextId, recorded>>
  BY DEF Begin, Go, env, At, Frame, WellFormedAll, WorkerWellFormed
<1>2. /\ DOMAIN w' = WorkerFields /\ w'.pc = "describe" /\ w'.id = cr.id /\ w'.spec = cr.spec
      /\ w'.mode = IF cr.phase = "deleting" THEN "delete" ELSE "update"
      /\ w'.end \in Ends
  BY DEF Begin, Go, IdleWorker, WorkerFields, Ends
<1>3. Live' = Live /\ Owning' = Owning /\ IdsOK' /\ OwningOK' /\ LifecycleEffect
  BY <1>1, SameLive
<1>4. CRWellFormed' /\ EC2WellFormed' /\ PhaseOK'
  BY <1>1 DEF Frame, WellFormedAll, CRWellFormed, EC2WellFormed, Ownership, PhaseOK
<1>5. WorkerWellFormed' /\ PassOK'
  BY <1>1, <1>2 DEF WorkerWellFormed, Frame, WellFormedAll, CRWellFormed, PassOK, Working, At
<1>6. OrphanEffect
  <2>1. cr.id \in recorded \cup {0} /\ 0 \notin Live
    BY IdsArePositive DEF Frame, Ownership, IdsOK, Live
  <2> QED BY <1>1, <1>2, <1>3, <2>1 DEF OrphanEffect, Orphans
<1> QED BY <1>3, <1>4, <1>5, <1>6 DEF Sound, Frame, WellFormedAll, Ownership

LEMMA setResourceManagedIsSound ==
  ASSUME Frame, setResourceManaged
  PROVE  Sound
<1>1. /\ w.pc = "manage" /\ ~At("idle") /\ Owning = {} /\ w.id \notin Live /\ w.id = cr.id
      /\ DOMAIN w = WorkerFields /\ w.spec.kind = cr.spec.kind
  BY WorkerIs DEF setResourceManaged, At, Frame, Ownership, PassOK
<1>2. UNCHANGED <<ec2, recorded, nextId, faults>>
  BY DEF setResourceManaged, env
<1>3. CASE cr.phase = "gone"
  <2>1. Stopping
    BY <1>2, <1>3, UnchangedKeeps DEF setResourceManaged, Stopping
  <2>2. FairDrop
    BY <1>1, WorkerIs DEF FairDrop
  <2> QED BY <2>1, <2>2, ClassesAreSound
<1>4. CASE cr.phase # "gone"
  <2>1. /\ cr' = [cr EXCEPT !.managed = TRUE]
        /\ w' = [w EXCEPT !.pc = "create", !.mode = "create"]
    BY <1>4 DEF setResourceManaged
  <2>2. /\ DOMAIN cr' = CRFields /\ cr'.id = cr.id /\ cr'.phase = cr.phase
        /\ cr'.spec = cr.spec /\ cr'.managed = TRUE
    BY <2>1 DEF Frame, WellFormedAll, CRWellFormed, CRFields
  <2>3. /\ DOMAIN w' = WorkerFields /\ w'.id = w.id /\ w'.pc = "create" /\ w'.mode = "create"
        /\ w'.spec = w.spec /\ w'.end = w.end
    BY <1>1, <2>1 DEF WorkerFields
  <2>4. Live' = Live /\ Owning' = Owning /\ IdsOK' /\ OwningOK' /\ LifecycleEffect
    BY <1>1, <1>2, <2>2, SameLive
  <2>5. CRWellFormed' /\ EC2WellFormed' /\ PhaseOK'
    BY <1>2, <1>4, <2>2 DEF Frame, WellFormedAll, CRWellFormed, EC2WellFormed, PhaseOK
  <2>6. WorkerWellFormed' /\ PassOK'
    <3>1. cr.id < nextId
      BY CRIdIsBelow
    <3> QED BY <1>1, <1>2, <1>4, <2>2, <2>3, <2>4, <3>1
            DEF WorkerWellFormed, Frame, WellFormedAll, PassOK, Working, At
  <2>7. OrphanEffect
    BY <1>2, <2>3, <2>4 DEF OrphanEffect, Orphans
  <2> QED BY <2>4, <2>5, <2>6, <2>7 DEF Sound, Frame, WellFormedAll, Ownership
<1> QED BY <1>3, <1>4

LEMMA setResourceUnmanagedIsSound ==
  ASSUME Frame, setResourceUnmanaged
  PROVE  Sound
<1>1. w.pc = "release" /\ ~At("idle") /\ Owning = {} /\ w.id \notin Live
  BY DEF setResourceUnmanaged, At, Frame, Ownership, PassOK
<1>2. UNCHANGED <<ec2, recorded, nextId, faults>> /\ w' = IdleWorker
  BY DEF setResourceUnmanaged, env
<1>3. /\ DOMAIN cr' = CRFields /\ cr'.id = cr.id /\ cr'.phase = "gone"
      /\ cr'.spec = cr.spec /\ cr'.managed = FALSE
  BY DEF setResourceUnmanaged, Frame, WellFormedAll, CRWellFormed, CRFields
<1>4. Live' = Live /\ Owning' = Owning /\ IdsOK' /\ OwningOK' /\ LifecycleEffect
  BY <1>1, <1>2, <1>3, SameLive
<1>5. CRWellFormed' /\ EC2WellFormed' /\ PhaseOK'
  BY <1>2, <1>3 DEF Frame, WellFormedAll, CRWellFormed, EC2WellFormed, PhaseOK
<1>6. WorkerWellFormed' /\ PassOK'
  BY <1>2, IdleIs DEF WorkerWellFormed, PassOK, At
<1>7. OrphanEffect
  BY <1>1, <1>2, <1>4 DEF OrphanEffect, Orphans
<1> QED BY <1>4, <1>5, <1>6, <1>7 DEF Sound, Frame, WellFormedAll, Ownership

\* The patch is when the object that a pass has created becomes the CR's.
LEMMA PatchStatusIsSound ==
  ASSUME Frame, PatchStatus
  PROVE  Sound
<1>1. ~At("idle") /\ DOMAIN w = WorkerFields /\ w.id \in Ids \cup {0}
  BY WorkerIs DEF PatchStatus, At
<1>2. /\ UNCHANGED <<ec2, nextId, faults>> /\ w' = IdleWorker /\ Live' = Live
      /\ recorded' = (recorded \cup {cr'.id}) \ {0}
  BY DEF PatchStatus, Live
<1>3. /\ DOMAIN cr = CRFields /\ "kind" \in DOMAIN cr.spec /\ cr.id \in recorded \cup {0}
      /\ recorded \subseteq Ids /\ 0 \notin Ids
  BY IdsArePositive DEF Frame, WellFormedAll, CRWellFormed, EC2WellFormed, Ownership, IdsOK
<1>4. /\ DOMAIN cr' = CRFields /\ cr'.phase = cr.phase /\ cr'.managed = cr.managed
      /\ cr'.spec = cr.spec
      /\ cr'.id = IF cr.phase = "gone" THEN cr.id ELSE w.id
  BY <1>3 DEF PatchStatus, CRFields
<1>5. WorkerWellFormed' /\ PassOK'
  BY <1>2, IdleIs DEF WorkerWellFormed, PassOK, At
<1>6. CRWellFormed'
  BY <1>1, <1>3, <1>4 DEF Frame, WellFormedAll, CRWellFormed
<1>7. EC2WellFormed'
  <2>1. recorded' \subseteq Ids
    BY <1>1, <1>2, <1>3, <1>4
  <2> QED BY <1>2, <1>4, <2>1 DEF Frame, WellFormedAll, EC2WellFormed
<1>8. CASE cr'.id = cr.id
  <2>1. recorded' = recorded /\ Owning' = Owning
    BY <1>2, <1>3, <1>8 DEF Owning
  <2>2. PhaseOK' /\ IdsOK' /\ OwningOK'
    BY <1>2, <1>4, <1>8, <2>1 DEF Frame, Ownership, PhaseOK, IdsOK, OwningOK
  <2>3. LifecycleEffect
    BY <1>4, <2>1 DEF LifecycleEffect
  <2>4. OrphanEffect
    <3>1. w.id = 0 \/ w.id \in recorded
      <4>1. w.mode = "create" => cr.phase # "gone"
        BY <1>1 DEF Frame, Ownership, PassOK, PhaseOK
      <4> QED BY <1>1, <1>3, <1>4, <1>8, <4>1, WorkerIs
    <3> QED BY <1>2, <1>3, <2>1, <3>1, IdleIs DEF OrphanEffect, Orphans, Live
  <2> QED BY <1>5, <1>6, <1>7, <2>1, <2>2, <2>3, <2>4 DEF Sound, Frame, WellFormedAll, Ownership
<1>9. CASE cr'.id # cr.id
  <2>1. cr.phase # "gone" /\ w.id # cr.id /\ cr'.id = w.id
    BY <1>4, <1>9
  <2>2. w.mode = "create" /\ cr.managed /\ Owning = {} /\ w.id < nextId
    BY <1>1, <2>1 DEF Frame, Ownership, PassOK
  <2>3. recorded' = (recorded \cup {w.id}) \ {0}
    BY <1>2, <2>1
  <2>4. Owning' = {w.id} \/ Owning' = {}
    BY <1>2, <2>2, <2>3 DEF Owning
  <2>5. PhaseOK' /\ OwningOK'
    BY <1>4, <2>1, <2>2, <2>4 DEF Frame, Ownership, PhaseOK, OwningOK
  <2>6. IdsOK'
    <3>1. \A i \in recorded \cup Live : i < nextId
      BY DEF Frame, Ownership, IdsOK
    <3>2. \A i \in recorded' \cup Live' : i < nextId
      BY <1>2, <2>2, <2>3, <3>1
    <3> QED BY <1>2, <2>1, <2>3, <3>2 DEF IdsOK
  <2>7. LifecycleEffect
    <3>1. CASE Owning' = {}
      BY <1>4, <2>2, <3>1 DEF LifecycleEffect
    <3>2. CASE Owning' = {w.id}
      BY <1>4, <2>2, <3>2 DEF LifecycleEffect
    <3> QED BY <2>4, <3>1, <3>2
  <2>8. OrphanEffect
    <3>1. Orphans' \subseteq Orphans
      BY <1>2, <1>3, <2>3, IdleIs DEF Orphans, Live
    <3> QED BY <1>2, <3>1 DEF OrphanEffect
  <2> QED BY <1>5, <1>6, <1>7, <2>5, <2>6, <2>7, <2>8 DEF Sound, Frame, WellFormedAll, Ownership
<1> QED BY <1>8, <1>9

LEMMA WorldStepIsSound ==
  ASSUME Frame, WorldStep
  PROVE  Sound
<1>1. CASE Crash
  <2>1. Stopping /\ faults' = faults + 1
    BY <1>1, UnchangedKeeps DEF Crash, Unread, Stopping
  <2> QED BY <2>1, ClassesAreSound DEF FairDrop
<1>2. CASE EditSpec \/ DeleteCR \/ RecreateCR
  <2>1. UNCHANGED <<ec2, w, faults, nextId, recorded>>
    BY <1>2 DEF EditSpec, DeleteCR, RecreateCR, env
  <2>2. /\ DOMAIN cr = CRFields /\ "kind" \in DOMAIN cr.spec
        /\ \A s \in Specs : "kind" \in DOMAIN s
    BY ControllerAssumption DEF Frame, WellFormedAll, CRWellFormed
  <2>3. DOMAIN cr' = CRFields /\ "kind" \in DOMAIN cr'.spec /\ cr'.spec.kind = cr.spec.kind
    <3>1. CASE EditSpec
      BY <2>2, <3>1 DEF EditSpec, CRFields
    <3>2. CASE DeleteCR
      BY <2>2, <3>2 DEF DeleteCR, CRFields
    <3>3. CASE RecreateCR
      BY <2>2, <3>3 DEF RecreateCR, NewCR, CRFields
    <3> QED BY <1>2, <3>1, <3>2, <3>3
  <2>4. WorkerWellFormed' /\ EC2WellFormed'
    BY <2>1, <2>3 DEF Frame, WellFormedAll, WorkerWellFormed, EC2WellFormed, At
  <2>5. CASE EditSpec \/ DeleteCR
    <3>1. /\ cr.phase = "live" /\ cr'.id = cr.id /\ cr'.managed = cr.managed
          /\ cr'.phase = cr.phase \/ cr'.phase = IF cr.managed THEN "deleting" ELSE "gone"
      BY <2>2, <2>5 DEF EditSpec, DeleteCR, CRFields
    <3>2. Live' = Live /\ Owning' = Owning /\ IdsOK' /\ OwningOK' /\ LifecycleEffect
      BY <2>1, <3>1, SameLive
    <3>3. CRWellFormed' /\ PhaseOK' /\ PassOK'
      BY <2>1, <2>3, <3>1, <3>2
         DEF Frame, WellFormedAll, CRWellFormed, Ownership, PhaseOK, PassOK, At
    <3>4. OrphanEffect
      BY <2>1, <3>2 DEF OrphanEffect, Orphans
    <3> QED BY <2>4, <3>2, <3>3, <3>4 DEF Sound, Frame, WellFormedAll, Ownership
  <2>6. CASE RecreateCR
    <3>1. cr.phase = "gone" /\ cr'.id = 0 /\ cr'.managed = FALSE /\ cr'.phase = "live"
      BY <2>6 DEF RecreateCR, NewCR
    <3>2. ~cr.managed /\ Owning = {} /\ cr.managed \in BOOLEAN
      BY <3>1 DEF Frame, WellFormedAll, CRWellFormed, Ownership, PhaseOK, OwningOK
    <3>3. Live' = Live /\ Owning' = {}
      BY <2>1, <3>2 DEF Live, Owning
    <3>4. CRWellFormed' /\ PhaseOK' /\ OwningOK' /\ LifecycleEffect
      BY <2>3, <3>1, <3>2, <3>3 DEF CRWellFormed, PhaseOK, OwningOK, LifecycleEffect
    <3>5. IdsOK'
      BY <2>1, <3>1, <3>3 DEF Frame, Ownership, IdsOK
    <3>6. PassOK'
      BY <2>1, <3>1, <3>2, <3>3 DEF Frame, Ownership, PassOK, At
    <3>7. OrphanEffect
      BY <2>1, <3>3 DEF OrphanEffect, Orphans
    <3> QED BY <2>4, <3>4, <3>5, <3>6, <3>7 DEF Sound, Frame, WellFormedAll, Ownership
  <2> QED BY <1>2, <2>5, <2>6
<1> QED BY <1>1, <1>2 DEF WorldStep

LEMMA StutterIsSound ==
  ASSUME Frame, UNCHANGED vars
  PROVE  Sound
<1>1. CRKeeps /\ EC2Keeps
  BY UnchangedKeeps DEF vars
<1>2. DOMAIN w' = WorkerFields
  BY DEF vars, Frame, WellFormedAll, WorkerWellFormed
<1>3. Elsewhere
  BY <1>1, <1>2 DEF Elsewhere, vars
<1> QED BY <1>3, ClassesAreSound

\* What EC2 and other clients make of an object.
LEMMA ElsewhereIs ==
  ASSUME Frame, NEW i \in Ids, NEW obj, OtherClient(i, obj) \/ Background(i, obj),
         Tame(obj, ec2[i])
  PROVE  Elsewhere
<1>1. CRKeeps
  <2>1. UNCHANGED <<cr, nextId, recorded>>
    BY DEF OtherClient, Background, env
  <2> QED BY <2>1 DEF CRKeeps, Frame, WellFormedAll, CRWellFormed
<1>2. EC2Keeps
  BY ObjectKeeps DEF OtherClient, Background
<1>3. DOMAIN w = WorkerFields
  BY DEF Frame, WellFormedAll, WorkerWellFormed
<1>4. w' = w \/ w' = [w EXCEPT !.interfered = TRUE]
  BY DEF OtherClient, Background
<1> QED BY <1>1, <1>2, <1>3, <1>4 DEF Elsewhere, WorkerFields

----------------------------------------------------------------------------
(* What every kind concludes from it.                                      *)

LEMMA FrameInit == Init => Frame
<1> SUFFICES ASSUME Init PROVE Frame
  OBVIOUS
<1>1. PICK spec \in Specs : cr = NewCR(spec)
  BY DEF Init
<1>2. CRWellFormed
  BY <1>1, ControllerAssumption DEF CRWellFormed, CRFields, NewCR
<1>3. WorkerWellFormed
  BY IdleIs DEF Init, WorkerWellFormed, At
<1>4. EC2WellFormed /\ Live = {} /\ recorded = {}
  <2>1. ec2 = [i \in Ids |-> Gone] /\ recorded = {} /\ nextId = 1 /\ faults = 0
    BY DEF Init
  <2>2. \A i \in Ids : ec2[i] = Gone
    BY <2>1
  <2>3. DOMAIN Gone = {"live"} /\ Gone.live = FALSE
    BY DEF Gone
  <2>4. \A kind : WellFormed(Gone, kind)
    BY <2>3 DEF WellFormed
  <2>5. Live = {}
    BY <2>2, <2>3 DEF Live
  <2>6. 1 \in 1 .. MaxObjects + 1
    BY ControllerAssumption
  <2>7. DOMAIN ec2 = Ids /\ recorded \subseteq Ids
    BY <2>1
  <2>8. EC2WellFormed
    BY <2>1, <2>2, <2>4, <2>6, <2>7 DEF EC2WellFormed
  <2> QED BY <2>1, <2>5, <2>8
<1>5. Owning = {} /\ cr.id = 0 /\ cr.phase = "live" /\ w.pc = "idle"
  BY <1>1, <1>4, IdleIs DEF Init, NewCR, Owning
<1>6. Ownership
  BY <1>4, <1>5 DEF Ownership, PhaseOK, IdsOK, OwningOK, PassOK, At
<1> QED BY <1>2, <1>3, <1>4, <1>6 DEF Frame, WellFormedAll

LEMMA LifecycleInit == Init => Abs!Init
<1> SUFFICES ASSUME Init PROVE Abs!Init
  OBVIOUS
<1>1. cr.managed = FALSE /\ recorded = {}
  BY DEF Init, NewCR
<1> QED BY <1>1 DEF Abs!Init

\* A step of this effect is one of Lifecycle, or changes nothing of it.
LEMMA LifecycleStep == Frame /\ Frame' /\ LifecycleEffect => [Abs!Next]_(Abs!vars)
<1> SUFFICES ASSUME Frame, Frame', LifecycleEffect
             PROVE  Abs!Next \/ UNCHANGED <<cr.managed, Owning>>
  BY DEF Abs!vars, Owning
<1>1. cr.managed \in BOOLEAN /\ cr'.managed \in BOOLEAN
  BY DEF Frame, WellFormedAll, CRWellFormed
<1>2. CASE cr'.managed = cr.managed /\ (Owning' = Owning \/ Owning' = {})
  BY <1>2 DEF Abs!Next, Abs!Vanish, Owning
<1>3. CASE ~cr.managed /\ cr'.managed /\ Owning' = Owning
  <2>1. cr'.managed = TRUE
    BY <1>1, <1>3
  <2> QED BY <1>3, <2>1 DEF Abs!Next, Abs!Claim, Owning
<1>4. CASE ~cr'.managed /\ Owning = {} /\ Owning' = {}
  <2>1. cr'.managed = FALSE
    BY <1>1, <1>4
  <2> QED BY <1>4, <2>1 DEF Abs!Next, Abs!Release, Owning
<1>5. CASE cr.managed /\ cr'.managed /\ Owning = {} /\ \E i \in Owning' : Owning' = {i}
  <2>1. cr'.managed = cr.managed
    BY <1>1, <1>5
  <2> QED BY <1>5, <2>1 DEF Abs!Next, Abs!Create, Owning
<1> QED BY <1>2, <1>3, <1>4, <1>5 DEF LifecycleEffect

LEMMA OrphansAreFinite == Frame => IsFiniteSet(Orphans)
<1>1. IsFiniteSet(Ids)
  BY ControllerAssumption, FS_Interval DEF Ids
<1>2. Orphans \subseteq Ids
  BY DEF Orphans, Live
<1> QED BY <1>1, <1>2, FS_Subset

LEMMA OrphanInit == Init => OrphanNeedsFault
<1> SUFFICES ASSUME Init PROVE OrphanNeedsFault
  OBVIOUS
<1>1. Live \ (recorded \cup {w.id}) = {} /\ faults = 0
  BY DEF Init, Live, Gone
<1> QED BY <1>1, FS_EmptySet DEF OrphanNeedsFault

\* A sound step makes no more orphans than it has faults.
LEMMA OrphanStep == Frame /\ Sound /\ OrphanNeedsFault => OrphanNeedsFault'
<1> SUFFICES ASSUME Frame, Sound, OrphanNeedsFault PROVE OrphanNeedsFault'
  OBVIOUS
<1>1. Cardinality(Orphans) <= faults /\ faults \in Nat
  BY DEF OrphanNeedsFault, Orphans, Frame, WellFormedAll, EC2WellFormed
<1>2. IsFiniteSet(Orphans) /\ Cardinality(Orphans) \in Nat
  BY OrphansAreFinite, FS_CardinalityType
<1>3. CASE Orphans' \subseteq Orphans /\ faults' \in {faults, faults + 1}
  <2>1. Cardinality(Orphans') \in Nat /\ Cardinality(Orphans') <= Cardinality(Orphans)
    BY <1>2, <1>3, FS_Subset, FS_CardinalityType
  <2>2. Cardinality(Orphans') <= faults'
    BY <1>1, <1>2, <1>3, <2>1
  <2> QED BY <2>2 DEF OrphanNeedsFault, Orphans
<1>4. CASE faults' = faults + 1 /\ \E x : Orphans' \subseteq Orphans \cup {x}
  <2>1. PICK x : Orphans' \subseteq Orphans \cup {x}
    BY <1>4
  <2>2. /\ IsFiniteSet(Orphans \cup {x})
        /\ Cardinality(Orphans \cup {x}) \in {Cardinality(Orphans), Cardinality(Orphans) + 1}
    BY <1>2, FS_AddElement
  <2>3. Cardinality(Orphans') \in Nat /\ Cardinality(Orphans') <= Cardinality(Orphans \cup {x})
    BY <2>1, <2>2, FS_Subset, FS_CardinalityType
  <2>4. Cardinality(Orphans') <= faults'
    BY <1>1, <1>2, <1>4, <2>2, <2>3
  <2> QED BY <2>4 DEF OrphanNeedsFault, Orphans
<1> QED BY <1>3, <1>4 DEF Sound, OrphanEffect

----------------------------------------------------------------------------
(* Types: what a step of any kind does to those of the CR, the worker and  *)
(* the counters.                                                           *)

Typed(r) ==
  /\ r.spec \in Specs /\ r.version \in Nat
  /\ r.blind \in BOOLEAN /\ r.interfered \in BOOLEAN

CRs == [phase: {"live", "deleting", "gone"}, managed: BOOLEAN, id: Ids \cup {0},
        version: Nat, synced: BOOLEAN, spec: Specs]

\* TypeOK, with the type of the version in hand, on which the others depend; and
\* what it says that the frame does not.
WellTyped == Frame /\ TypeOK /\ w.version \in Nat
Types ==
  /\ cr \in CRs /\ Typed(w)
  /\ faults \in 0 .. MaxFaults /\ edits \in 0 .. MaxEdits /\ drifts \in 0 .. MaxDrifts

LEMMA TypesAre == WellTyped <=> Frame /\ Types
BY DEF WellTyped, TypeOK, Types, Typed, CRs, Frame, WellFormedAll, WorkerWellFormed,
       EC2WellFormed, WellFormed, Ends

LEMMA TypedIs ==
  ASSUME WellTyped
  PROVE  /\ Typed(w) /\ DOMAIN w = WorkerFields /\ cr.version \in Nat /\ cr.spec \in Specs
         /\ cr.id \in Ids \cup {0}
BY TypesAre DEF WellTyped, Types, CRs, Frame, WellFormedAll, WorkerWellFormed, WorkerFields

LEMMA OutcomesTyped ==
  ASSUME WellTyped
  PROVE  /\ Typed(onError) /\ Typed(CreateFailed) /\ Typed(Done) /\ Typed(NotFound) /\ Typed(Found)
         /\ \A calls : Typed(Plan(calls))
         /\ \A label : Typed([w EXCEPT !.pc = label]) /\ Typed(Over(label))
         /\ DOMAIN CreateFailed = WorkerFields /\ DOMAIN Done = WorkerFields
         /\ DOMAIN Found = WorkerFields /\ \A calls : DOMAIN Plan(calls) = WorkerFields
<1>1. Typed(w) /\ DOMAIN w = WorkerFields /\ cr.version \in Nat
  BY TypedIs
<1>2. \A label : /\ Typed([w EXCEPT !.pc = label]) /\ Typed(Over(label))
                 /\ DOMAIN Over(label) = WorkerFields
  BY <1>1 DEF Typed, Over, WorkerFields
<1>3. Typed(CreateFailed) /\ DOMAIN CreateFailed = WorkerFields
  <2> DEFINE over == Over("failed")
  <2>1. Typed(over) /\ DOMAIN over = WorkerFields
    BY <1>2
  <2> HIDE DEF over
  <2>2. Typed([over EXCEPT !.id = cr.id, !.version = cr.version])
        /\ DOMAIN [over EXCEPT !.id = cr.id, !.version = cr.version] = WorkerFields
    BY <1>1, <2>1 DEF Typed, WorkerFields
  <2> QED BY <2>2 DEF CreateFailed, over
<1>4. Typed(onError)
  BY <1>2, <1>3 DEF onError
<1>5. Typed(Done) /\ DOMAIN Done = WorkerFields
  BY <1>1 DEF Typed, Done, WorkerFields
<1>6. Typed(NotFound) /\ Typed(Found) /\ DOMAIN Found = WorkerFields
  BY <1>1 DEF Typed, NotFound, Found, WorkerFields
<1>7. \A calls : Typed(Plan(calls)) /\ DOMAIN Plan(calls) = WorkerFields
  BY <1>1 DEF Typed, Plan, WorkerFields
<1> QED BY <1>2, <1>3, <1>4, <1>5, <1>6, <1>7

\* What a kind may add to an outcome.
LEMMA AmendedTyped ==
  ASSUME NEW r, Typed(r), DOMAIN r = WorkerFields
  PROVE  /\ \A x : /\ Typed([r EXCEPT !.end = x]) /\ Typed([r EXCEPT !.pc = x])
                   /\ Typed([r EXCEPT !.id = x])
         /\ Typed([r EXCEPT !.blind = TRUE])
         /\ \A n \in Nat : Typed([r EXCEPT !.version = n])
BY DEF Typed, WorkerFields

\* A fault more, if there may be one.
LEMMA FaultsTyped ==
  ASSUME WellTyped, UNCHANGED faults \/ (faults < MaxFaults /\ faults' = faults + 1)
  PROVE  faults' \in 0 .. MaxFaults
<1>1. faults \in 0 .. MaxFaults /\ MaxFaults \in Nat
  BY TypesAre, ControllerAssumption DEF Types
<1> QED BY <1>1

LEMMA PassTyped ==
  ASSUME WellTyped, Typed(w'), UNCHANGED <<cr, edits, drifts>>,
         UNCHANGED faults \/ (faults < MaxFaults /\ faults' = faults + 1)
  PROVE  Types'
BY TypesAre, FaultsTyped DEF Types, CRs, Ids

LEMMA GoTyped ==
  ASSUME WellTyped, NEW next, Typed(next), Go(next)
  PROVE  Types'
<1>1. Typed(w') /\ UNCHANGED <<cr, edits, drifts, faults>>
  BY DEF Go, env
<1> QED BY <1>1, PassTyped

LEMMA UnreadTyped ==
  ASSUME WellTyped, NEW failed, Typed(failed), Unread(failed)
  PROVE  Types'
<1>1. /\ Typed(w') /\ UNCHANGED <<cr, edits, drifts>>
      /\ faults < MaxFaults /\ faults' = faults + 1
  BY DEF Unread, env
<1> QED BY <1>1, PassTyped

LEMMA CallTyped ==
  ASSUME WellTyped, NEW obj, NEW next, NEW failed, Typed(next), Typed(failed),
         Call(obj, next, failed)
  PROVE  Types'
<1>1. /\ Typed(w') /\ UNCHANGED <<cr, edits, drifts>>
      /\ UNCHANGED faults \/ (faults < MaxFaults /\ faults' = faults + 1)
  BY DEF Call, env
<1> QED BY <1>1, PassTyped

LEMMA DescribeTyped ==
  ASSUME WellTyped, NEW found, NEW missing, Typed(found), Typed(missing),
         Describe(found, missing)
  PROVE  Types'
BY OutcomesTyped, GoTyped, UnreadTyped DEF Describe

LEMMA CreateTyped ==
  ASSUME WellTyped, NEW obj, NEW next, Typed(next), DOMAIN next = WorkerFields,
         CreateObject(obj, next)
  PROVE  Types'
<1>1. Typed(CreateFailed) /\ Typed([next EXCEPT !.id = nextId])
  BY OutcomesTyped, AmendedTyped
<1>2. /\ Typed(w') /\ UNCHANGED <<cr, edits, drifts>>
      /\ UNCHANGED faults \/ (faults < MaxFaults /\ faults' = faults + 1)
  BY <1>1 DEF CreateObject
<1> QED BY <1>2, PassTyped

LEMMA DeleteTyped ==
  ASSUME WellTyped, NEW allowed, Delete(allowed)
  PROVE  Types'
BY OutcomesTyped, GoTyped, CallTyped DEF Delete

LEMMA syncTagsTyped == WellTyped /\ syncTags => Types'
<1> SUFFICES ASSUME WellTyped, syncTags PROVE Types'
  OBVIOUS
<1>1. Typed(Done) /\ Typed(onError)
  BY OutcomesTyped
<1>2. CASE Go(onError)
  BY <1>1, <1>2, GoTyped
<1>3. CASE \E obj : Call(obj, Done, onError)
  BY <1>1, <1>3, CallTyped
<1>4. CASE /\ faults < MaxFaults /\ faults' = faults + 1 /\ w' = onError
           /\ UNCHANGED <<cr, env>>
  BY <1>1, <1>4, PassTyped DEF env
<1> QED BY <1>2, <1>3, <1>4 DEF syncTags

LEMMA PlanTyped ==
  ASSUME WellTyped, NEW calls, NEW e, Go([Plan(calls) EXCEPT !.end = e])
  PROVE  Types'
<1>1. Typed([Plan(calls) EXCEPT !.end = e])
  BY OutcomesTyped, AmendedTyped
<1> QED BY <1>1, GoTyped

\* A call of a plan, or its refusal.
LEMMA PlanCallTyped ==
  ASSUME WellTyped, NEW obj, Call(obj, Done, onError) \/ Go(onError)
  PROVE  Types'
BY OutcomesTyped, GoTyped, CallTyped

\* The runtime, and the rest of the world.
LEMMA IdleTyped == Typed(IdleWorker) /\ DOMAIN IdleWorker = WorkerFields
<1>1. (CHOOSE s \in Specs : TRUE) \in Specs
  BY ControllerAssumption
<1> QED BY <1>1 DEF Typed, IdleWorker, WorkerFields

LEMMA InitTyped == Init => WellTyped
<1> SUFFICES ASSUME Init PROVE Frame /\ Types
  BY TypesAre
<1>1. PICK spec \in Specs : cr = NewCR(spec)
  BY DEF Init
<1>2. cr \in CRs
  BY <1>1 DEF NewCR, CRs
<1> QED BY <1>2, FrameInit, IdleTyped, ControllerAssumption DEF Init, Types

LEMMA RuntimeTyped == WellTyped /\ RuntimeStep => Types'
<1> SUFFICES ASSUME WellTyped, RuntimeStep PROVE Types'
  OBVIOUS
<1>1. /\ cr \in CRs /\ Typed(w) /\ DOMAIN w = WorkerFields /\ w.id \in Ids \cup {0}
      /\ faults \in 0 .. MaxFaults /\ edits \in 0 .. MaxEdits /\ drifts \in 0 .. MaxDrifts
  BY TypesAre, TypedIs DEF Types, WellTyped, TypeOK
<1>2. ASSUME cr' \in CRs, Typed(w'), UNCHANGED <<faults, edits, drifts>>
      PROVE  Types'
  BY <1>1, <1>2 DEF Types, CRs, Ids
<1>3. CASE Begin
  <2>1. Typed([IdleWorker EXCEPT
           !.pc = "describe", !.id = cr.id, !.version = cr.version, !.spec = cr.spec,
           !.mode = IF cr.phase = "deleting" THEN "delete" ELSE "update"])
    BY <1>1, IdleTyped DEF Typed, CRs, WorkerFields
  <2> QED BY <1>3, <2>1, GoTyped DEF Begin
<1>4. CASE setResourceManaged
  <2>1. Typed([w EXCEPT !.pc = "create", !.mode = "create"])
    BY <1>1 DEF Typed, WorkerFields
  <2>2. [cr EXCEPT !.managed = TRUE] \in CRs
    BY <1>1 DEF CRs
  <2> QED BY <1>1, <1>2, <1>4, <2>1, <2>2, IdleTyped DEF setResourceManaged, env
<1>5. CASE syncTags
  BY <1>5, syncTagsTyped
<1>6. CASE returnDesired
  <2>1. Typed([Done EXCEPT !.version = cr.version])
    BY OutcomesTyped, AmendedTyped, TypedIs
  <2> QED BY <1>6, <2>1, GoTyped DEF returnDesired
<1>7. CASE finish
  BY <1>7, OutcomesTyped, GoTyped DEF finish
<1>8. CASE setResourceUnmanaged
  <2>1. [cr EXCEPT !.phase = "gone", !.managed = FALSE] \in CRs
    BY <1>1 DEF CRs
  <2> QED BY <1>2, <1>8, <2>1, IdleTyped DEF setResourceUnmanaged, env
<1>9. CASE PatchStatus
  <2>1. [cr EXCEPT !.id = w.id, !.version = w.version, !.synced = At("synced")] \in CRs
    BY <1>1 DEF CRs, Typed, At
  <2>2. cr' \in CRs /\ w' = IdleWorker /\ UNCHANGED <<faults, edits, drifts>>
    BY <1>1, <1>9, <2>1 DEF PatchStatus
  <2> QED BY <1>2, <2>2, IdleTyped
<1> QED BY <1>3, <1>4, <1>5, <1>6, <1>7, <1>8, <1>9 DEF RuntimeStep

LEMMA WorldTyped == WellTyped /\ WorldStep => Types'
<1> SUFFICES ASSUME WellTyped, WorldStep PROVE Types'
  OBVIOUS
<1>1. /\ cr \in CRs /\ Typed(w) /\ MaxEdits \in Nat
      /\ faults \in 0 .. MaxFaults /\ edits \in 0 .. MaxEdits /\ drifts \in 0 .. MaxDrifts
  BY TypesAre, ControllerAssumption DEF Types
<1>2. ASSUME cr' \in CRs, UNCHANGED <<w, faults, drifts>>,
             UNCHANGED edits \/ (edits < MaxEdits /\ edits' = edits + 1)
      PROVE  Types'
  <2>1. edits' \in 0 .. MaxEdits
    BY <1>1, <1>2
  <2> QED BY <1>1, <1>2, <2>1 DEF Types, CRs, Ids, Typed
<1>3. CASE Crash
  BY <1>3, IdleTyped, UnreadTyped DEF Crash
<1>4. CASE EditSpec
  <2>1. \A spec \in Specs : [cr EXCEPT !.spec = spec] \in CRs
    BY <1>1 DEF CRs
  <2> QED BY <1>2, <1>4, <2>1 DEF EditSpec
<1>5. CASE DeleteCR
  <2>1. [cr EXCEPT !.phase = IF cr.managed THEN "deleting" ELSE "gone"] \in CRs
    BY <1>1 DEF CRs
  <2> QED BY <1>2, <1>5, <2>1 DEF DeleteCR, env
<1>6. CASE RecreateCR
  <2>1. \A spec \in Specs : NewCR(spec) \in CRs
    BY DEF CRs, NewCR
  <2> QED BY <1>2, <1>6, <2>1 DEF RecreateCR
<1> QED BY <1>3, <1>4, <1>5, <1>6 DEF WorldStep

LEMMA ElsewhereTyped ==
  ASSUME WellTyped, NEW i, NEW obj, OtherClient(i, obj) \/ Background(i, obj)
  PROVE  Types'
<1>1. /\ cr \in CRs /\ Typed(w) /\ DOMAIN w = WorkerFields /\ MaxDrifts \in Nat
      /\ faults \in 0 .. MaxFaults /\ edits \in 0 .. MaxEdits /\ drifts \in 0 .. MaxDrifts
  BY TypesAre, TypedIs, ControllerAssumption DEF Types
<1>2. Typed([w EXCEPT !.interfered = TRUE])
  BY <1>1 DEF Typed, WorkerFields
<1>3. /\ UNCHANGED <<cr, faults, edits>> /\ Typed(w')
      /\ UNCHANGED drifts \/ (drifts < MaxDrifts /\ drifts' = drifts + 1)
  BY <1>1, <1>2 DEF OtherClient, Background, env, Typed
<1>4. drifts' \in 0 .. MaxDrifts
  BY <1>1, <1>3
<1> QED BY <1>1, <1>3, <1>4 DEF Types, CRs, Ids

==============================================================================
