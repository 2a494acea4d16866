-------------------------- MODULE Versions_proofs --------------------------
(***************************************************************************)
(* What Modification claims of versions and of an update that reports      *)
(* success, for every set of specs and any number of faults, edits and     *)
(* drifts: a launch template gets no needless version, that of a managed   *)
(* prefix list is a lock, the update leaves what was declared, and every   *)
(* variable keeps its type.                                                *)
(***************************************************************************)
EXTENDS Modification_proofs

----------------------------------------------------------------------------
(* The versions of a launch template.                                      *)

\* The versions that repeat the one before; what they may have cost so far.
Repeats(data) == {v \in 2 .. Len(data) : data[v] = data[v - 1]}
Budget == faults + drifts

Paid(data, budget) == Cardinality(Repeats(data)) <= budget

\* Whoever takes version v for the latest one may repeat the latest, unless the two
\* have the same data: one more repetition has to be affordable.
Affords(data, v, budget) ==
  /\ v \in DOMAIN data
  /\ data[v] # data[Len(data)] => Cardinality(Repeats(data)) < budget

\* Some sequence, whatever is in it.
IsSequence(data) == data \in Seq({data[i] : i \in DOMAIN data})

LEMMA SequenceIs ==
  ASSUME NEW data, IsSequence(data), data # <<>>
  PROVE  /\ Len(data) \in Nat \ {0} /\ DOMAIN data = 1 .. Len(data)
         /\ Len(data) \in DOMAIN data
<1> DEFINE R == {data[i] : i \in DOMAIN data}
<1>1. data \in Seq(R)
  BY DEF IsSequence
<1> HIDE DEF R
<1> QED BY <1>1

LEMMA RepeatsAre ==
  ASSUME NEW data, IsSequence(data), data # <<>>
  PROVE  IsFiniteSet(Repeats(data)) /\ Cardinality(Repeats(data)) \in Nat
<1>1. Len(data) \in Nat
  BY SequenceIs
<1>2. IsFiniteSet(2 .. Len(data))
  BY <1>1, FS_Interval
<1>3. Repeats(data) \subseteq 2 .. Len(data)
  BY DEF Repeats
<1> QED BY <1>2, <1>3, FS_Subset, FS_CardinalityType

LEMMA AppendIs ==
  ASSUME NEW data, IsSequence(data), data # <<>>, NEW x
  PROVE  LET more == Append(data, x)
         IN  /\ IsSequence(more) /\ more # <<>> /\ Len(more) = Len(data) + 1
             /\ DOMAIN more = 1 .. Len(data) + 1
             /\ more[Len(data) + 1] = x
             /\ \A v \in DOMAIN data : v \in DOMAIN more /\ more[v] = data[v]
<1> DEFINE R == {data[i] : i \in DOMAIN data} \cup {x}
           more == Append(data, x)
<1>1. data \in Seq(R) /\ x \in R
  BY SeqMonotonic DEF IsSequence
<1>2. Len(data) \in Nat \ {0} /\ DOMAIN data = 1 .. Len(data)
  BY SequenceIs
<1>3. \A v \in DOMAIN data : data[v] \in R
  OBVIOUS
<1> HIDE DEF R
<1>4. /\ more \in Seq(R) /\ Len(more) = Len(data) + 1 /\ DOMAIN more = 1 .. Len(data) + 1
      /\ more[Len(data) + 1] = x /\ \A v \in 1 .. Len(data) : more[v] = data[v]
  BY <1>1, <1>2, AppendProperties
<1>5. more # <<>>
  BY <1>2, <1>4
<1> DEFINE Q == {more[i] : i \in DOMAIN more}
<1> HIDE DEF more
<1>6. more = [i \in 1 .. Len(data) + 1 |-> more[i]]
  BY <1>2, <1>4
<1>7. \A i \in 1 .. Len(data) + 1 : more[i] \in Q
  BY <1>4
<1> HIDE DEF Q
<1>8. more \in Seq(Q)
  BY <1>2, <1>6, <1>7
<1> QED BY <1>2, <1>4, <1>5, <1>8 DEF more, Q, IsSequence

\* One more version is one more repetition, if it has the data of the latest.
LEMMA RepeatsAppend ==
  ASSUME NEW data, IsSequence(data), data # <<>>, NEW x
  PROVE  Cardinality(Repeats(Append(data, x))) =
           Cardinality(Repeats(data)) + (IF x = data[Len(data)] THEN 1 ELSE 0)
<1> DEFINE more == Append(data, x)
           n == Len(data)
<1>1. n \in Nat \ {0} /\ DOMAIN data = 1 .. n
  BY SequenceIs
<1>2. Len(more) = n + 1 /\ more[n + 1] = x /\ \A v \in 1 .. n : more[v] = data[v]
  BY <1>1, AppendIs
<1>3. IsFiniteSet(Repeats(data)) /\ Cardinality(Repeats(data)) \in Nat
  BY RepeatsAre
<1>4. n + 1 \notin Repeats(data)
  BY <1>1 DEF Repeats
<1> HIDE DEF more
<1>5. \A v \in 2 .. n : more[v] = more[v - 1] <=> data[v] = data[v - 1]
  BY <1>1, <1>2
<1>6. more[n + 1] = more[n + 1 - 1] <=> x = data[n]
  BY <1>1, <1>2
<1>7. CASE x = data[n]
  <2>1. Repeats(more) = Repeats(data) \cup {n + 1}
    BY <1>1, <1>2, <1>5, <1>6, <1>7 DEF Repeats
  <2>2. Cardinality(Repeats(data) \cup {n + 1}) = Cardinality(Repeats(data)) + 1
    BY <1>3, <1>4, FS_AddElement
  <2> QED BY <1>7, <2>1, <2>2 DEF more
<1>8. CASE x # data[n]
  <2>1. Repeats(more) = Repeats(data)
    BY <1>1, <1>2, <1>5, <1>6, <1>8 DEF Repeats
  <2> QED BY <1>3, <1>8, <2>1 DEF more
<1> QED BY <1>7, <1>8

\* What another version does to the account.
LEMMA AppendPays ==
  ASSUME NEW data, IsSequence(data), data # <<>>, NEW x, NEW budget \in Nat,
         Paid(data, budget)
  PROVE  LET more == Append(data, x)
         IN  /\ Paid(more, budget + 1)
             /\ \A v \in DOMAIN data : Affords(data, v, budget) =>
                  /\ Affords(more, v, budget + 1)
                  /\ data[v] # x => Paid(more, budget)
<1> DEFINE more == Append(data, x)
           c == Cardinality(Repeats(data))
           d == Cardinality(Repeats(more))
<1>1. c \in Nat /\ c <= budget
  BY RepeatsAre DEF Paid
<1>2. d = c + (IF x = data[Len(data)] THEN 1 ELSE 0)
  BY RepeatsAppend
<1>3. more[Len(more)] = x /\ \A v \in DOMAIN data : v \in DOMAIN more /\ more[v] = data[v]
  BY AppendIs
<1> HIDE DEF more
<1>4. Paid(more, budget + 1)
  BY <1>1, <1>2 DEF Paid
<1>5. ASSUME NEW v \in DOMAIN data, Affords(data, v, budget)
      PROVE  Affords(more, v, budget + 1) /\ (data[v] # x => Paid(more, budget))
  <2>1. data[v] # data[Len(data)] => c < budget
    BY <1>5 DEF Affords
  <2>2. data[v] # x => d < budget + 1
    BY <1>1, <1>2, <2>1
  <2>3. d \in Int
    BY <1>1, <1>2
  <2> QED BY <1>1, <1>3, <2>2, <2>3 DEF Affords, Paid
<1> QED BY <1>4, <1>5 DEF more

\* A budget that grows pays for what it did.
LEMMA MoreBudget ==
  ASSUME NEW data, IsSequence(data), data # <<>>, NEW budget \in Nat, NEW more \in Nat,
         budget <= more
  PROVE  /\ Paid(data, budget) => Paid(data, more)
         /\ \A v : Affords(data, v, budget) => Affords(data, v, more)
         /\ Paid(data, budget) /\ budget < more => \A v \in DOMAIN data : Affords(data, v, more)
         /\ Paid(data, budget) => Affords(data, Len(data), budget)
<1>1. Cardinality(Repeats(data)) \in Nat
  BY RepeatsAre
<1>2. Len(data) \in DOMAIN data
  BY SequenceIs
<1> QED BY <1>1, <1>2 DEF Paid, Affords

----------------------------------------------------------------------------
(* The invariant.                                                          *)

TemplateFields == {"live", "data", "default", "tags"}

TemplatesOK ==
  \A i \in Live :
    /\ DOMAIN ec2[i] = TemplateFields
    /\ IsSequence(ec2[i].data) /\ ec2[i].data # <<>> /\ Paid(ec2[i].data, Budget)

\* Where a pass over a launch template may be, and what it plans.
TemplateStages ==
  {"idle", "describe", "version", "found", "plan", "manage", "create", "patchSpec", "release"}
     \cup Ends
TemplateOps == {"tags", "newVersion", "desired", "defaultVersion", "nothing"}

StageOK ==
  /\ w.pc \in TemplateStages
  /\ At("plan") => w.mode = "update" /\ IsPlan(w.plan, TemplateOps)
  /\ w.pc \in {"version", "found"} => w.mode # "create"
  /\ At("patchSpec") => w.mode = "create"

\* A new version, of the declared data, is followed by the default version only.
NewVersionIsLast(calls) ==
  \A n \in DOMAIN calls : calls[n][1] = "newVersion" =>
    /\ calls[n][2] = w.spec.data
    /\ \A m \in DOMAIN calls : m > n => calls[m][1] = "defaultVersion"

\* The pass has made no version yet, and the one on record may be reported again, or
\* be what the next pass starts from.
Returning == {"newVersion", "desired", "nothing"}
OnRecord ==
  \/ w.pc \in {"describe", "version"}
  \/ w.mode = "update" /\ At("found")
  \/ At("plan") /\ \E n \in DOMAIN w.plan : w.plan[n][1] \in Returning

\* The version on record is one of those there are.
VersionOK == cr.id \in Live => cr.version \in DOMAIN ec2[cr.id].data

\* What is affordable while nobody works on the CR: the version on record.
RecordOK ==
  At("idle") /\ cr.id \in Live => Affords(ec2[cr.id].data, cr.version, Budget)

\* In a pass: the version in hand, and the one on record.  What was read of it is
\* what was declared, if the read failed.
HandOK ==
  ~At("idle") /\ w.id \in Live =>
    /\ Affords(Obj.data, w.version, Budget)
    /\ OnRecord => Affords(Obj.data, cr.version, Budget)
    /\ w.pc \in {"describe", "version"} => w.version = cr.version
    /\ At("version") =>
         "data" \in DOMAIN w.seen /\ Affords(Obj.data, Len(w.seen.data), Budget)
    /\ Updating => w.seen.data \in {w.spec.data, Obj.data[cr.version]}
    /\ At("plan") =>
         /\ NewVersionIsLast(w.plan)
         /\ \A n \in DOMAIN w.plan :
              w.plan[n][1] = "newVersion" => w.spec.data # Obj.data[cr.version]

TemplateInv ==
  cr.spec.kind = "launch_template" =>
    TemplatesOK /\ VersionOK /\ StageOK /\ RecordOK /\ HandOK

----------------------------------------------------------------------------
(* Steps that leave the versions of all templates alone.                   *)

Templates == Frame /\ Counted /\ TemplateInv /\ cr.spec.kind = "launch_template"

DataKept ==
  \A i \in Live' : i \in Live /\ DOMAIN ec2'[i] = DOMAIN ec2[i] /\ ec2'[i].data = ec2[i].data

LEMMA BudgetIs == Templates => faults \in Nat /\ drifts \in Nat /\ Budget \in Nat
BY DEF Templates, Frame, WellFormedAll, EC2WellFormed, Counted, Budget

LEMMA KeptAffords ==
  ASSUME Templates, DataKept, faults' \in {faults, faults + 1}, drifts' = drifts
  PROVE  /\ TemplatesOK'
         /\ cr'.id = cr.id /\ cr'.version = cr.version => VersionOK'
         /\ \A i \in Live' :
              /\ i \in Live /\ ec2'[i].data = ec2[i].data
              /\ \A v : Affords(ec2[i].data, v, Budget) => Affords(ec2'[i].data, v, Budget')
              /\ faults' # faults =>
                   \A v \in DOMAIN ec2[i].data : Affords(ec2'[i].data, v, Budget')
<1>1. faults \in Nat /\ drifts \in Nat /\ Budget \in Nat
  BY BudgetIs
<1>2. Budget' \in Nat /\ Budget <= Budget' /\ (faults' # faults => Budget < Budget')
  <2>1. Budget' = faults' + drifts /\ Budget = faults + drifts
    BY DEF Budget
  <2>2. CASE faults' = faults
    BY <1>1, <2>1, <2>2
  <2>3. CASE faults' = faults + 1
    BY <1>1, <2>1, <2>3
  <2> QED BY <2>2, <2>3
<1>3. TemplatesOK
  BY DEF Templates, TemplateInv
<1>4. ASSUME NEW i \in Live'
      PROVE  /\ i \in Live /\ ec2'[i].data = ec2[i].data
             /\ DOMAIN ec2'[i] = TemplateFields
             /\ IsSequence(ec2'[i].data) /\ ec2'[i].data # <<>> /\ Paid(ec2'[i].data, Budget')
             /\ \A v : Affords(ec2[i].data, v, Budget) => Affords(ec2'[i].data, v, Budget')
             /\ faults' # faults =>
                  \A v \in DOMAIN ec2[i].data : Affords(ec2'[i].data, v, Budget')
  <2>1. i \in Live /\ DOMAIN ec2'[i] = DOMAIN ec2[i] /\ ec2'[i].data = ec2[i].data
    BY DEF DataKept
  <2>2. /\ DOMAIN ec2[i] = TemplateFields
        /\ IsSequence(ec2[i].data) /\ ec2[i].data # <<>> /\ Paid(ec2[i].data, Budget)
    BY <1>3, <2>1 DEF TemplatesOK
  <2> QED BY <1>1, <1>2, <2>1, <2>2, MoreBudget
<1>5. TemplatesOK'
  BY <1>4 DEF TemplatesOK
<1>6. VersionOK
  BY DEF Templates, TemplateInv
<1>7. cr'.id = cr.id /\ cr'.version = cr.version => VersionOK'
  BY <1>4, <1>6 DEF VersionOK
<1> QED BY <1>4, <1>5, <1>7

LEMMA UntouchedKeeps ==
  ASSUME UNCHANGED ec2
  PROVE  DataKept /\ Live' = Live
BY DEF DataKept, Live

LEMMA CalledKeeps ==
  ASSUME Templates, w.id \in Ids, NEW obj, ec2' \in {ec2, [ec2 EXCEPT ![w.id] = obj]},
         obj.live => w.id \in Live /\ DOMAIN obj = DOMAIN Obj /\ obj.data = Obj.data
  PROVE  DataKept
<1>1. DOMAIN ec2 = Ids
  BY DEF Templates, Frame, WellFormedAll, EC2WellFormed
<1>2. CASE ec2' = ec2
  BY <1>2, UntouchedKeeps
<1>3. CASE ec2' = [ec2 EXCEPT ![w.id] = obj]
  <2>1. ec2'[w.id] = obj /\ \A i \in Ids : i # w.id => ec2'[i] = ec2[i]
    BY <1>1, <1>3
  <2> QED BY <2>1 DEF DataKept, Live, Obj
<1> QED BY <1>2, <1>3

\* What the CR has during a create is dead, or nothing.
LEMMA NothingOnRecord ==
  ASSUME Frame, ~At("idle"), w.mode = "create" \/ w.pc \in {"manage", "release"}
  PROVE  cr.id \notin Live /\ (w.pc \in {"manage", "release"} => w.id \notin Live)
<1>1. Owning = {} /\ cr.id \in recorded \cup {0}
  BY DEF Frame, Ownership, PassOK, IdsOK
<1>2. 0 \notin Live
  BY IdsArePositive DEF Live
<1> QED BY <1>1, <1>2 DEF Owning, Frame, Ownership, PassOK

\* The pass is over.
LEMMA EndOK ==
  ASSUME Templates, ~At("idle"), DataKept, faults' \in {faults, faults + 1}, drifts' = drifts,
         w'.pc \in Ends,
         \/ w'.id \notin Live'
         \/ /\ w'.id = w.id
            /\ w.id \in Live => Affords(Obj.data, w'.version, Budget)
  PROVE  StageOK' /\ RecordOK' /\ HandOK'
<1>1. StageOK' /\ RecordOK'
  BY DEF StageOK, RecordOK, TemplateStages, Ends, At
<1>2. ASSUME w'.id \in Live'
      PROVE  Affords(Obj'.data, w'.version, Budget')
  BY <1>2, KeptAffords DEF Obj
<1>3. HandOK'
  BY <1>2 DEF HandOK, OnRecord, Ends, At, Updating
<1> QED BY <1>1, <1>3

LEMMA onErrorIs ==
  ASSUME Frame, ~At("idle")
  PROVE  /\ onError.pc = "failed"
         /\ w.mode # "create" => onError.id = w.id /\ onError.version = w.version
         /\ w.mode = "create" => onError.id = cr.id
<1>1. DOMAIN w = WorkerFields
  BY WorkerIs
<1> DEFINE o == Over("failed")
<1>2. DOMAIN o = WorkerFields /\ o.pc = "failed" /\ o.id = w.id /\ o.version = w.version
  BY <1>1 DEF Over, WorkerFields
<1> HIDE DEF o
<1>3. CreateFailed = [o EXCEPT !.id = cr.id, !.version = cr.version]
  BY DEF o, CreateFailed
<1>4. CreateFailed.pc = "failed" /\ CreateFailed.id = cr.id
  BY <1>2, <1>3 DEF WorkerFields
<1> QED BY <1>2, <1>4 DEF onError, o

\* The version in hand is affordable at any time.
LEMMA HandIs ==
  ASSUME Templates, ~At("idle"), w.id \in Live
  PROVE  Affords(Obj.data, w.version, Budget)
BY DEF Templates, TemplateInv, HandOK

LEMMA FailedOK ==
  ASSUME Templates, ~At("idle"), DataKept, faults' \in {faults, faults + 1}, drifts' = drifts,
         UNCHANGED cr, w' = onError
  PROVE  StageOK' /\ RecordOK' /\ HandOK'
<1>1. Frame /\ w'.pc \in Ends
  BY onErrorIs DEF Templates, Ends
<1>2. CASE w.mode = "create"
  <2>1. w'.id \notin Live'
    BY <1>1, <1>2, onErrorIs, NothingOnRecord DEF DataKept
  <2> QED BY <1>1, <2>1, EndOK
<1>3. CASE w.mode # "create"
  <2>1. w'.id = w.id /\ w'.version = w.version
    BY <1>1, <1>3, onErrorIs
  <2> QED BY <1>1, <2>1, HandIs, EndOK
<1> QED BY <1>2, <1>3

----------------------------------------------------------------------------
(* The steps of a pass over a launch template, but for the new version.    *)

Correct == TemplatesOK /\ VersionOK /\ StageOK /\ RecordOK /\ HandOK

\* A call of the plan succeeds that leaves the versions alone.
LEMMA DoneOK ==
  ASSUME Templates, At("plan"), w.plan # <<>>, DataKept, UNCHANGED <<cr, drifts>>,
         faults' \in {faults, faults + 1},
         \/ w' = Done
         \/ w' = [Done EXCEPT !.version = cr.version] /\ Doing("desired")
  PROVE  Correct'
<1>1. /\ StageOK /\ HandOK /\ ~At("idle") /\ DOMAIN w = WorkerFields /\ w.mode = "update"
      /\ IsPlan(w.plan, TemplateOps)
  BY WorkerIs DEF Templates, TemplateInv, StageOK, At
<1>2. /\ w'.pc = "plan" /\ w'.mode = w.mode /\ w'.id = w.id /\ w'.spec = w.spec
      /\ w'.plan = Tail(w.plan)
      /\ w'.version = w.version \/ (w'.version = cr.version /\ Doing("desired"))
  <2> DEFINE d == Done
  <2>1. /\ DOMAIN d = WorkerFields /\ d.pc = "plan" /\ d.mode = w.mode /\ d.id = w.id
        /\ d.spec = w.spec /\ d.plan = Tail(w.plan) /\ d.version = w.version
    BY <1>1 DEF Done, WorkerFields, At
  <2>2. w' = d \/ (w' = [d EXCEPT !.version = cr.version] /\ Doing("desired"))
    OBVIOUS
  <2> HIDE DEF d
  <2> QED BY <2>1, <2>2 DEF WorkerFields
<1>3. /\ IsPlan(Tail(w.plan), TemplateOps) /\ Len(w.plan) \in Nat
      /\ DOMAIN w.plan = 1 .. Len(w.plan) /\ DOMAIN Tail(w.plan) = 1 .. Len(w.plan) - 1
      /\ \A n \in DOMAIN Tail(w.plan) : n + 1 \in DOMAIN w.plan /\ Tail(w.plan)[n] = w.plan[n + 1]
  <2>1. 1 \in 1 .. Len(w.plan) /\ Tail(w.plan) = SubSeq(w.plan, 1 + 1, Len(w.plan))
    BY <1>1, TailIsRest
  <2>2. Len(w.plan) \in Nat /\ DOMAIN w.plan = 1 .. Len(w.plan)
    BY <1>1, PlansAreSequences
  <2> DEFINE rest == SubSeq(w.plan, 1 + 1, Len(w.plan))
  <2>3. /\ IsPlan(rest, TemplateOps) /\ DOMAIN rest = 1 .. Len(w.plan) - 1
        /\ \A i \in 1 .. Len(w.plan) - 1 : rest[i] = w.plan[i + 1]
    BY <1>1, <2>1, RestIsPlan, SMTT(60)
  <2> DEFINE tail == Tail(w.plan)
  <2>4. tail = rest
    BY <2>1
  <2> HIDE DEF rest, tail
  <2>5. /\ IsPlan(tail, TemplateOps) /\ DOMAIN tail = 1 .. Len(w.plan) - 1
        /\ \A n \in DOMAIN tail : n + 1 \in DOMAIN w.plan /\ tail[n] = w.plan[n + 1]
    BY <2>2, <2>3, <2>4
  <2> QED BY <2>2, <2>5 DEF tail
<1>4. StageOK' /\ RecordOK'
  BY <1>1, <1>2, <1>3 DEF StageOK, RecordOK, At, TemplateStages
<1>5. TemplatesOK' /\ VersionOK'
  BY KeptAffords
<1>6. ASSUME w'.id \in Live'
      PROVE  /\ Affords(Obj'.data, w'.version, Budget')
             /\ OnRecord' => Affords(Obj'.data, cr'.version, Budget')
             /\ NewVersionIsLast(w.plan)
             /\ \A n \in DOMAIN w.plan :
                  w.plan[n][1] = "newVersion" => w'.spec.data # Obj'.data[cr'.version]
  <2>1. /\ w.id \in Live /\ Obj'.data = Obj.data
        /\ \A v : Affords(Obj.data, v, Budget) => Affords(Obj'.data, v, Budget')
    BY <1>2, <1>6, KeptAffords DEF Obj
  <2>2. OnRecord' => OnRecord
    BY <1>1, <1>2, <1>3 DEF OnRecord, At
  <2>3. Doing("desired") => OnRecord
    <3>1. 1 \in DOMAIN w.plan /\ Head(w.plan) = w.plan[1]
      BY <1>1, <1>3, TailIsRest
    <3> QED BY <3>1 DEF OnRecord, Doing, Returning
  <2> QED BY <1>1, <1>2, <2>1, <2>2, <2>3 DEF HandOK
<1>7. ASSUME NewVersionIsLast(w.plan)
      PROVE  NewVersionIsLast(w.plan)'
  <2> SUFFICES ASSUME NEW n \in DOMAIN w'.plan, w'.plan[n][1] = "newVersion"
               PROVE  /\ w'.plan[n][2] = w'.spec.data
                      /\ \A m \in DOMAIN w'.plan : m > n => w'.plan[m][1] = "defaultVersion"
    BY DEF NewVersionIsLast
  <2>1. /\ n + 1 \in DOMAIN w.plan /\ w.plan[n + 1][1] = "newVersion"
        /\ w'.plan[n][2] = w.plan[n + 1][2]
    BY <1>2, <1>3
  <2>2. ASSUME NEW m \in DOMAIN w'.plan, m > n
        PROVE  w'.plan[m][1] = "defaultVersion"
    <3>1. m + 1 \in DOMAIN w.plan /\ m + 1 > n + 1 /\ w'.plan[m] = w.plan[m + 1]
      BY <1>2, <1>3, <2>2
    <3> QED BY <1>7, <2>1, <3>1 DEF NewVersionIsLast
  <2> QED BY <1>2, <1>7, <2>1, <2>2 DEF NewVersionIsLast
<1>8. HandOK'
  BY <1>2, <1>3, <1>6, <1>7 DEF HandOK, At, Updating
<1> QED BY <1>4, <1>5, <1>8 DEF Correct

LEMMA FindOK ==
  ASSUME Templates, sdkFindLaunchTemplate
  PROVE  Correct'
<1> DEFINE read == [Found EXCEPT !.pc = "version"]
<1>1. /\ ~At("idle") /\ DOMAIN w = WorkerFields /\ At("describe") /\ HandOK
      /\ UNCHANGED <<cr, ec2, drifts>> /\ faults' \in {faults, faults + 1}
  BY WorkerIs
     DEF Templates, TemplateInv, sdkFindLaunchTemplate, Describe, At, Go, Unread, env
<1>2. DataKept /\ Live' = Live /\ 0 \notin Live /\ TemplatesOK' /\ VersionOK'
  BY <1>1, UntouchedKeeps, KeptAffords, IdsArePositive DEF Live
<1>3. CASE w' = onError
  BY <1>1, <1>2, <1>3, FailedOK DEF Correct
<1>4. CASE w' = NotFound /\ w.id = 0
  <2>1. w'.pc \in {"manage", "release"} /\ w'.id = 0
    BY <1>1, <1>4 DEF NotFound, WorkerFields
  <2> QED BY <1>2, <2>1 DEF Correct, StageOK, RecordOK, HandOK, TemplateStages, At
<1>5. CASE w' = read /\ w.id # 0
  <2>1. /\ w'.pc = "version" /\ w'.seen = Obj /\ w'.id = w.id /\ w'.version = w.version
        /\ w'.mode = w.mode /\ w.mode # "create"
    <3>1. w.mode # "create"
      BY <1>1, WorkerIs DEF Templates, At
    <3> DEFINE f == Found
    <3>2. /\ DOMAIN f = WorkerFields /\ f.seen = Obj /\ f.id = w.id /\ f.version = w.version
          /\ f.mode = w.mode
      BY <1>1 DEF Found, WorkerFields
    <3> HIDE DEF f
    <3>3. w' = [f EXCEPT !.pc = "version"]
      BY <1>5 DEF f
    <3> QED BY <3>1, <3>2, <3>3 DEF WorkerFields
  <2>2. StageOK' /\ RecordOK'
    BY <2>1 DEF StageOK, RecordOK, TemplateStages, At
  <2>3. ASSUME w.id \in Live
        PROVE  /\ Affords(Obj'.data, w.version, Budget') /\ w.version = cr.version
               /\ Affords(Obj'.data, Len(Obj.data), Budget') /\ "data" \in DOMAIN Obj
    <3>1. Affords(Obj.data, w.version, Budget) /\ w.version = cr.version
      BY <1>1, <2>3 DEF HandOK, At
    <3>2. Affords(Obj.data, Len(Obj.data), Budget)
      BY <2>3, BudgetIs, MoreBudget DEF Templates, TemplateInv, TemplatesOK, Obj
    <3>3. Obj' = Obj /\ \A v : Affords(Obj.data, v, Budget) => Affords(Obj'.data, v, Budget')
      BY <1>1, <1>2, <2>1, <2>3, KeptAffords DEF Obj
    <3>4. "data" \in DOMAIN Obj
      BY <2>3 DEF Templates, TemplateInv, TemplatesOK, TemplateFields, Obj
    <3> QED BY <3>1, <3>2, <3>3, <3>4
  <2>4. HandOK'
    BY <1>1, <1>2, <2>1, <2>3 DEF HandOK, OnRecord, At, Updating
  <2> QED BY <1>2, <2>2, <2>4 DEF Correct
<1> QED BY <1>3, <1>4, <1>5 DEF sdkFindLaunchTemplate, Describe, Go, Unread

LEMMA ReadOK ==
  ASSUME Templates, setLatestLaunchTemplateAttributes
  PROVE  Correct'
<1> DEFINE read(data) == [w EXCEPT !.pc = "found", !.version = Len(w.seen.data), !.seen.data = data]
<1>1. /\ ~At("idle") /\ DOMAIN w = WorkerFields /\ At("version") /\ HandOK /\ w.mode # "create"
      /\ UNCHANGED <<cr, ec2, drifts>> /\ faults' \in {faults, faults + 1}
  BY WorkerIs
     DEF Templates, TemplateInv, StageOK, setLatestLaunchTemplateAttributes, At, Go, Unread, env
<1>2. DataKept /\ Live' = Live /\ TemplatesOK' /\ VersionOK'
  BY <1>1, UntouchedKeeps, KeptAffords
<1>3. PICK data, blind : /\ w' = [read(data) EXCEPT !.blind = blind]
                         /\ data \in {w.spec.data, Obj.data[w.version]}
  BY DEF setLatestLaunchTemplateAttributes, Go, Unread
<1>4. /\ w'.pc = "found" /\ w'.version = Len(w.seen.data) /\ w'.id = w.id /\ w'.mode = w.mode
      /\ w'.spec = w.spec /\ w'.seen = [w.seen EXCEPT !.data = data]
  <2> DEFINE r == read(data)
  <2>1. /\ DOMAIN r = WorkerFields /\ r.pc = "found" /\ r.version = Len(w.seen.data)
        /\ r.id = w.id /\ r.mode = w.mode /\ r.spec = w.spec
        /\ r.seen = [w.seen EXCEPT !.data = data]
    BY <1>1 DEF WorkerFields
  <2> HIDE DEF r
  <2>2. w' = [r EXCEPT !.blind = blind]
    BY <1>3 DEF r
  <2> QED BY <2>1, <2>2 DEF WorkerFields
<1>5. StageOK' /\ RecordOK'
  BY <1>1, <1>4 DEF StageOK, RecordOK, TemplateStages, At
<1>6. ASSUME w'.id \in Live'
      PROVE  /\ Affords(Obj'.data, w'.version, Budget') /\ Affords(Obj'.data, cr'.version, Budget')
             /\ data \in {w'.spec.data, Obj'.data[cr'.version]} /\ "data" \in DOMAIN w.seen
  <2>1. /\ w.id \in Live /\ Obj' = Obj
        /\ \A v : Affords(Obj.data, v, Budget) => Affords(Obj'.data, v, Budget')
    BY <1>1, <1>2, <1>4, <1>6, KeptAffords DEF Obj
  <2>2. /\ w.version = cr.version /\ Affords(Obj.data, cr.version, Budget)
        /\ Affords(Obj.data, Len(w.seen.data), Budget) /\ "data" \in DOMAIN w.seen
    BY <1>1, <2>1 DEF HandOK, OnRecord, At
  <2> QED BY <1>1, <1>3, <1>4, <2>1, <2>2
<1>7. HandOK'
  BY <1>4, <1>6 DEF HandOK, OnRecord, At, Updating
<1> QED BY <1>2, <1>5, <1>7 DEF Correct

\* A template is made with one version, which repeats none.
LEMMA FirstVersion ==
  ASSUME NEW x, NEW budget \in Nat
  PROVE  LET first == <<x>>
         IN  /\ IsSequence(first) /\ first # <<>> /\ Paid(first, budget)
             /\ Affords(first, 1, budget)
<1> DEFINE first == <<x>>
<1>1. first \in Seq({x}) /\ Len(first) = 1 /\ DOMAIN first = 1 .. 1 /\ first[1] = x
  OBVIOUS
<1>2. {first[i] : i \in DOMAIN first} = {x}
  BY <1>1
<1>3. first # <<>>
  OBVIOUS
<1> HIDE DEF first
<1>4. Repeats(first) = {}
  BY <1>1 DEF Repeats
<1>5. Cardinality(Repeats(first)) = 0
  BY <1>4, FS_EmptySet
<1>6. Affords(first, 1, budget)
  BY <1>1 DEF Affords
<1>7. Paid(first, budget)
  BY <1>5 DEF Paid
<1>8. IsSequence(first)
  BY <1>1, <1>2 DEF IsSequence
<1> QED BY <1>3, <1>6, <1>7, <1>8 DEF first

LEMMA CreateOK ==
  ASSUME Templates, sdkCreateLaunchTemplate
  PROVE  Correct'
<1> DEFINE next == [w EXCEPT !.pc = "patchSpec", !.version = 1]
<1>1. /\ ~At("idle") /\ DOMAIN w = WorkerFields /\ At("create") /\ w.mode = "create"
      /\ w.id = cr.id /\ cr.id \notin Live /\ DOMAIN ec2 = Ids
  BY WorkerIs, NothingOnRecord
     DEF Templates, sdkCreateLaunchTemplate, At, Frame, WellFormedAll, EC2WellFormed
<1>2. CreateFailed = onError
  BY <1>1 DEF onError
<1>3. CASE UNCHANGED <<cr, ec2, drifts>> /\ faults' \in {faults, faults + 1} /\ w' = CreateFailed
  BY <1>1, <1>2, <1>3, UntouchedKeeps, FailedOK, KeptAffords DEF Correct
<1>4. CASE /\ nextId \in Ids /\ ec2' = [ec2 EXCEPT ![nextId] = newLaunchTemplate]
           /\ UNCHANGED <<cr, drifts>>
           /\ \/ w' = [next EXCEPT !.id = nextId] /\ faults' = faults
              \/ w' = CreateFailed /\ faults' = faults + 1
  <2>1. faults \in Nat /\ drifts \in Nat /\ Budget \in Nat /\ Budget' \in Nat /\ Budget <= Budget'
    <3>1. faults \in Nat /\ drifts \in Nat /\ Budget \in Nat
      BY BudgetIs
    <3>2. Budget' = faults' + drifts /\ Budget = faults + drifts
      BY <1>4 DEF Budget
    <3>3. CASE faults' = faults
      BY <3>1, <3>2, <3>3
    <3>4. CASE faults' = faults + 1
      BY <3>1, <3>2, <3>4
    <3> QED BY <1>4, <3>1, <3>3, <3>4
  <2> DEFINE first == <<w.spec.data>>
  <2>2. /\ newLaunchTemplate.live /\ DOMAIN newLaunchTemplate = TemplateFields
        /\ newLaunchTemplate.data = first
    BY DEF newLaunchTemplate, TemplateFields
  <2>3. /\ IsSequence(first) /\ first # <<>> /\ Paid(first, Budget')
        /\ Affords(first, 1, Budget')
    BY <2>1, FirstVersion
  <2> HIDE DEF first
  <2>4. /\ ec2'[nextId] = newLaunchTemplate
        /\ \A i \in Live' : i # nextId => i \in Live /\ ec2'[i] = ec2[i]
    BY <1>1, <1>4 DEF Live
  <2>5. TemplatesOK'
    <3> SUFFICES ASSUME NEW i \in Live'
                 PROVE  /\ DOMAIN ec2'[i] = TemplateFields
                        /\ IsSequence(ec2'[i].data) /\ ec2'[i].data # <<>>
                        /\ Paid(ec2'[i].data, Budget')
      BY DEF TemplatesOK
    <3>1. CASE i = nextId
      BY <2>2, <2>3, <2>4, <3>1
    <3>2. CASE i # nextId
      <4>1. i \in Live /\ ec2'[i] = ec2[i]
        BY <2>4, <3>2
      <4>2. /\ DOMAIN ec2[i] = TemplateFields /\ IsSequence(ec2[i].data)
            /\ ec2[i].data # <<>> /\ Paid(ec2[i].data, Budget)
        BY <4>1 DEF Templates, TemplateInv, TemplatesOK
      <4> QED BY <2>1, <4>1, <4>2, MoreBudget
    <3> QED BY <3>1, <3>2
  <2>8. cr.id # nextId /\ cr.id \notin Live' /\ VersionOK'
    <3>1. cr.id < nextId /\ cr.id \in Nat
      BY CRIdIsBelow DEF Templates
    <3>2. nextId \in Int
      BY <1>4, IdsArePositive
    <3>3. cr.id # nextId
      BY <3>1, <3>2
    <3>4. cr.id \notin Live'
      BY <1>1, <2>4, <3>3
    <3> QED BY <1>4, <3>3, <3>4 DEF VersionOK
  <2>6. CASE w' = [next EXCEPT !.id = nextId]
    <3>1. w'.pc = "patchSpec" /\ w'.mode = "create" /\ w'.id = nextId /\ w'.version = 1
      <4> DEFINE n == next
      <4>1. DOMAIN n = WorkerFields /\ n.pc = "patchSpec" /\ n.mode = "create" /\ n.version = 1
        BY <1>1 DEF WorkerFields
      <4> HIDE DEF n
      <4>2. w' = [n EXCEPT !.id = nextId]
        BY <2>6 DEF n
      <4> QED BY <4>1, <4>2 DEF WorkerFields
    <3>2. StageOK' /\ RecordOK'
      BY <3>1 DEF StageOK, RecordOK, TemplateStages, At
    <3>3. HandOK'
      BY <2>2, <2>3, <2>4, <3>1 DEF HandOK, OnRecord, At, Updating, Obj
    <3> QED BY <2>5, <2>8, <3>2, <3>3 DEF Correct
  <2>7. CASE w' = CreateFailed
    <3>1. w'.pc = "failed" /\ w'.id = cr.id
      BY <1>1, <1>2, <2>7, onErrorIs DEF Templates
    <3>3. StageOK' /\ RecordOK' /\ HandOK'
      BY <2>8, <3>1 DEF StageOK, RecordOK, HandOK, TemplateStages, Ends, At
    <3> QED BY <2>5, <2>8, <3>3 DEF Correct
  <2> QED BY <1>4, <2>6, <2>7
<1>5. CASE Go(CreateFailed)
  BY <1>3, <1>5 DEF Go, env
<1>6. CASE CreateObject(newLaunchTemplate, next)
  BY <1>3, <1>4, <1>6 DEF CreateObject
<1> QED BY <1>5, <1>6 DEF sdkCreateLaunchTemplate

LEMMA PatchSpecOK ==
  ASSUME Templates, patchSpec
  PROVE  Correct'
<1>1. /\ ~At("idle") /\ DOMAIN w = WorkerFields /\ UNCHANGED <<ec2, drifts, faults>>
  BY WorkerIs DEF Templates, patchSpec, At, env
<1>2. w'.pc = "synced" /\ w'.id = w.id /\ w'.version = w.version
  BY <1>1 DEF patchSpec, WorkerFields
<1>3. cr'.id = cr.id /\ cr'.version = cr.version
  BY DEF Templates, Frame, WellFormedAll, CRWellFormed, CRFields, patchSpec
<1>4. DataKept /\ TemplatesOK' /\ VersionOK'
  BY <1>1, <1>3, UntouchedKeeps, KeptAffords
<1>5. StageOK' /\ RecordOK' /\ HandOK'
  BY <1>1, <1>2, <1>4, HandIs, EndOK DEF Ends
<1> QED BY <1>4, <1>5 DEF Correct

LEMMA NewVersionAfter ==
  ASSUME NEW s, NEW t, IsPlan(s, {"tags"}), IsPlan(t, TemplateOps), NewVersionIsLast(t)
  PROVE  NewVersionIsLast(s \o t)
<1> DEFINE all == s \o t
           k == Len(s)
<1>1. /\ k \in Nat /\ Len(t) \in Nat /\ DOMAIN t = 1 .. Len(t) /\ DOMAIN s = 1 .. k
      /\ DOMAIN all = 1 .. k + Len(t)
      /\ \A i \in 1 .. k + Len(t) : all[i] = IF i <= k THEN s[i] ELSE t[i - k]
  BY ConcatIs
<1>2. \A i \in 1 .. k : s[i][1] = "tags"
  BY PlansAreSequences
<1> HIDE DEF all, k
<1> SUFFICES ASSUME NEW n \in DOMAIN all, all[n][1] = "newVersion"
             PROVE  /\ all[n][2] = w.spec.data
                    /\ \A m \in DOMAIN all : m > n => all[m][1] = "defaultVersion"
  BY DEF NewVersionIsLast, all
<1>3. n > k /\ n - k \in DOMAIN t /\ all[n] = t[n - k]
  BY <1>1, <1>2
<1>4. ASSUME NEW m \in DOMAIN all, m > n
      PROVE  m - k \in DOMAIN t /\ m - k > n - k /\ all[m] = t[m - k]
  BY <1>1, <1>3, <1>4
<1> QED BY <1>3, <1>4 DEF NewVersionIsLast

LEMMA NewVersionBefore ==
  ASSUME NEW s, NEW t, IsPlan(s, TemplateOps), IsPlan(t, {"defaultVersion"}), NewVersionIsLast(s)
  PROVE  NewVersionIsLast(s \o t)
<1> DEFINE all == s \o t
           k == Len(s)
<1>1. /\ k \in Nat /\ Len(t) \in Nat /\ DOMAIN t = 1 .. Len(t) /\ DOMAIN s = 1 .. k
      /\ DOMAIN all = 1 .. k + Len(t)
      /\ \A i \in 1 .. k + Len(t) : all[i] = IF i <= k THEN s[i] ELSE t[i - k]
  BY ConcatIs
<1>2. \A i \in 1 .. Len(t) : t[i][1] = "defaultVersion"
  BY PlansAreSequences
<1> HIDE DEF all, k
<1> SUFFICES ASSUME NEW n \in DOMAIN all, all[n][1] = "newVersion"
             PROVE  /\ all[n][2] = w.spec.data
                    /\ \A m \in DOMAIN all : m > n => all[m][1] = "defaultVersion"
  BY DEF NewVersionIsLast, all
<1>3. n <= k /\ n \in DOMAIN s /\ all[n] = s[n]
  BY <1>1, <1>2
<1>4. ASSUME NEW m \in DOMAIN all, m > n
      PROVE  all[m][1] = "defaultVersion"
  <2>1. CASE m <= k
    <3>1. m \in DOMAIN s /\ all[m] = s[m]
      BY <1>1, <2>1
    <3> QED BY <1>3, <1>4, <3>1 DEF NewVersionIsLast
  <2>2. CASE m > k
    <3>1. m - k \in 1 .. Len(t) /\ all[m] = t[m - k]
      BY <1>1, <2>2
    <3> QED BY <1>2, <3>1
  <2> QED BY <1>1, <2>1, <2>2
<1> QED BY <1>3, <1>4 DEF NewVersionIsLast

\* What sdkUpdate plans.
LEMMA TemplatePlanIs ==
  ASSUME NEW tags, NEW changed \in BOOLEAN, NEW default, NEW version
  PROVE  LET calls == When(tags, "tags", {}) \o When(changed, "newVersion", w.spec.data)
                        \o When(~changed /\ (tags \/ default), "desired", {})
                        \o When(default, "defaultVersion", version)
         IN  /\ IsPlan(calls, TemplateOps) /\ NewVersionIsLast(calls)
             /\ \A n \in DOMAIN calls : calls[n][1] = "newVersion" => changed
<1> DEFINE a == When(tags, "tags", {})
           b == When(changed, "newVersion", w.spec.data)
           c == When(~changed /\ (tags \/ default), "desired", {})
           d == When(default, "defaultVersion", version)
<1>1. /\ IsPlan(a, {"tags"}) /\ IsPlan(b, {"newVersion"}) /\ IsPlan(c, {"desired"})
      /\ IsPlan(d, {"defaultVersion"})
      /\ ~changed => IsPlan(b, {"tags"})
      /\ changed => IsPlan(c, {"defaultVersion"})
  BY WhenIsPlan
<1>2. changed => NewVersionIsLast(b)
  <2> SUFFICES ASSUME changed PROVE NewVersionIsLast(b)
    OBVIOUS
  <2>1. b = <<<<"newVersion", w.spec.data>>>>
    BY DEF When
  <2> DEFINE call == <<"newVersion", w.spec.data>>
             one == <<call>>
  <2>2. call[2] = w.spec.data
    OBVIOUS
  <2> HIDE DEF call
  <2>3. DOMAIN one = 1 .. 1 /\ one[1] = call
    OBVIOUS
  <2> HIDE DEF one
  <2>4. NewVersionIsLast(one)
    BY <2>2, <2>3 DEF NewVersionIsLast
  <2> QED BY <2>1, <2>4 DEF one, call
<1> HIDE DEF a, b, c, d
<1> DEFINE calls == a \o b \o c \o d
<1>3. CASE changed
  <2>1. /\ IsPlan(a, TemplateOps) /\ IsPlan(b, TemplateOps) /\ IsPlan(c, TemplateOps)
        /\ IsPlan(d, TemplateOps)
    BY <1>1, <1>3, SubPlan DEF TemplateOps
  <2>2. IsPlan(a \o b, TemplateOps) /\ NewVersionIsLast(a \o b)
    BY <1>1, <1>2, <1>3, <2>1, ConcatIsPlan, NewVersionAfter
  <2>3. IsPlan(a \o b \o c, TemplateOps) /\ NewVersionIsLast(a \o b \o c)
    BY <1>1, <1>3, <2>1, <2>2, ConcatIsPlan, NewVersionBefore
  <2>4. IsPlan(calls, TemplateOps) /\ NewVersionIsLast(calls)
    BY <1>1, <1>3, <2>1, <2>3, ConcatIsPlan, NewVersionBefore
  <2> QED BY <1>3, <2>4 DEF a, b, c, d
<1>4. CASE ~changed
  <2> DEFINE ops == {"tags", "desired", "defaultVersion"}
  <2>1. IsPlan(a, ops) /\ IsPlan(b, ops) /\ IsPlan(c, ops) /\ IsPlan(d, ops)
    BY <1>1, <1>4, SubPlan
  <2>2. IsPlan(calls, ops)
    BY <2>1, ConcatIsPlan
  <2> HIDE DEF calls
  <2>3. \A n \in DOMAIN calls : calls[n][1] # "newVersion"
    BY <2>2, PlansAreSequences
  <2>4. IsPlan(calls, TemplateOps)
    BY <2>2, SubPlan DEF TemplateOps
  <2>5. NewVersionIsLast(calls)
    BY <2>3 DEF NewVersionIsLast
  <2> QED BY <2>3, <2>4, <2>5 DEF calls, a, b, c, d
<1> QED BY <1>3, <1>4

LEMMA UpdateOK ==
  ASSUME Templates, sdkUpdateLaunchTemplate
  PROVE  Correct'
<1> DEFINE changed == "data" \in newLaunchTemplateDelta
           tags    == "tags" \in newLaunchTemplateDelta
           default == "default" \in newLaunchTemplateDelta
           calls   == When(tags, "tags", {}) \o When(changed, "newVersion", w.spec.data)
                        \o When(~changed /\ (tags \/ default), "desired", {})
                        \o When(default, "defaultVersion", w.spec.default)
<1>1. /\ ~At("idle") /\ DOMAIN w = WorkerFields /\ Updating /\ HandOK
      /\ UNCHANGED <<cr, ec2, drifts, faults>> /\ w' = Plan(calls)
  BY WorkerIs DEF Templates, TemplateInv, sdkUpdateLaunchTemplate, Updating, At, Go, env
<1>2. /\ w'.pc = "plan" /\ w'.mode = "update" /\ w'.id = w.id /\ w'.version = w.version
      /\ w'.spec = w.spec /\ w'.plan = calls
  BY <1>1 DEF Plan, Updating, WorkerFields
<1>4. (changed => w.spec.data # w.seen.data) /\ changed \in BOOLEAN
  BY DEF newLaunchTemplateDelta, DifferentAt
<1> HIDE DEF changed, tags, default
<1>3. /\ IsPlan(calls, TemplateOps) /\ NewVersionIsLast(calls)
      /\ \A n \in DOMAIN calls : calls[n][1] = "newVersion" => changed
  BY <1>4, TemplatePlanIs
<1> HIDE DEF calls
<1>5. DataKept /\ Live' = Live /\ TemplatesOK' /\ VersionOK'
  BY <1>1, UntouchedKeeps, KeptAffords
<1>6. StageOK' /\ RecordOK'
  BY <1>2, <1>3 DEF StageOK, RecordOK, TemplateStages, At
<1>7. NewVersionIsLast(w.plan)'
  BY <1>2, <1>3 DEF NewVersionIsLast
<1>8. ASSUME w'.id \in Live'
      PROVE  /\ Affords(Obj'.data, w'.version, Budget') /\ Affords(Obj'.data, cr'.version, Budget')
             /\ changed => w'.spec.data # Obj'.data[cr'.version]
  <2>1. /\ w.id \in Live /\ Obj' = Obj
        /\ \A v : Affords(Obj.data, v, Budget) => Affords(Obj'.data, v, Budget')
    BY <1>1, <1>2, <1>5, <1>8, KeptAffords DEF Obj
  <2>2. /\ Affords(Obj.data, w.version, Budget) /\ Affords(Obj.data, cr.version, Budget)
        /\ w.seen.data \in {w.spec.data, Obj.data[cr.version]}
    BY <1>1, <2>1 DEF HandOK, OnRecord, Updating
  <2> QED BY <1>1, <1>2, <1>4, <2>1, <2>2
<1>9. HandOK'
  BY <1>2, <1>3, <1>7, <1>8 DEF HandOK, OnRecord, At, Updating
<1> QED BY <1>5, <1>6, <1>9 DEF Correct

\* A new version repeats the latest one only if that was not what is on record.
LEMMA VersionMade ==
  ASSUME Templates, Doing("newVersion"), NEW obj,
         obj = [Obj EXCEPT !.data = Append(Obj.data, w.spec.data)],
         ec2' \in {ec2, [ec2 EXCEPT ![w.id] = obj]}, faults' \in {faults, faults + 1},
         drifts' = drifts
  PROVE  /\ TemplatesOK'
         /\ w.id \in Live' =>
              /\ ec2'[w.id].data \in {Obj.data, obj.data}
              /\ IsSequence(ec2'[w.id].data) /\ ec2'[w.id].data # <<>>
              /\ Paid(ec2'[w.id].data, Budget)
              /\ w.version \in DOMAIN ec2'[w.id].data /\ cr.version \in DOMAIN ec2'[w.id].data
              /\ Len(Obj.data) + 1 = Len(obj.data)
<1>1. /\ TemplatesOK /\ HandOK /\ w.id \in Ids /\ DOMAIN ec2 = Ids /\ At("plan") /\ ~At("idle")
      /\ IsPlan(w.plan, TemplateOps) /\ w.plan # <<>>
  BY DoingIs
     DEF Templates, TemplateInv, StageOK, Doing, Frame, WellFormedAll, EC2WellFormed
<1>2. 1 \in DOMAIN w.plan /\ w.plan[1][1] = "newVersion"
  BY <1>1, TailIsRest, PlansAreSequences DEF Doing
<1>3. faults \in Nat /\ drifts \in Nat /\ Budget \in Nat /\ Budget' \in Nat /\ Budget <= Budget'
  <2>1. faults \in Nat /\ drifts \in Nat /\ Budget \in Nat
    BY BudgetIs
  <2>2. Budget' = faults' + drifts /\ Budget = faults + drifts
    BY DEF Budget
  <2>3. CASE faults' = faults
    BY <2>1, <2>2, <2>3
  <2>4. CASE faults' = faults + 1
    BY <2>1, <2>2, <2>4
  <2> QED BY <2>1, <2>3, <2>4
<1>4. \A i \in Ids : i # w.id => ec2'[i] = ec2[i]
  BY <1>1
<1>5. ec2'[w.id] \in {Obj, obj}
  BY <1>1 DEF Obj
<1>6. ASSUME w.id \in Live'
      PROVE  /\ w.id \in Live
             /\ DOMAIN ec2'[w.id] = TemplateFields
             /\ ec2'[w.id].data \in {Obj.data, obj.data}
             /\ IsSequence(ec2'[w.id].data) /\ ec2'[w.id].data # <<>>
             /\ Paid(ec2'[w.id].data, Budget)
             /\ w.version \in DOMAIN ec2'[w.id].data /\ cr.version \in DOMAIN ec2'[w.id].data
             /\ Len(Obj.data) + 1 = Len(obj.data)
  <2>1. obj.live = Obj.live /\ DOMAIN obj = DOMAIN Obj
    <3>1. "live" \in DOMAIN Obj
      BY <1>1, DoingIs DEF Templates, WellFormed
    <3> QED BY <3>1
  <2>2. w.id \in Live
    BY <1>1, <1>5, <1>6, <2>1 DEF Live, Obj
  <2>3. /\ DOMAIN Obj = TemplateFields /\ IsSequence(Obj.data) /\ Obj.data # <<>>
        /\ Paid(Obj.data, Budget)
    BY <1>1, <2>2 DEF TemplatesOK, Obj
  <2>4. /\ Affords(Obj.data, w.version, Budget) /\ Affords(Obj.data, cr.version, Budget)
        /\ w.spec.data # Obj.data[cr.version]
    BY <1>1, <1>2, <2>2 DEF HandOK, OnRecord, Returning
  <2>5. obj.data = Append(Obj.data, w.spec.data)
    BY <2>3 DEF TemplateFields
  <2>6. /\ IsSequence(obj.data) /\ obj.data # <<>> /\ Len(obj.data) = Len(Obj.data) + 1
        /\ \A v \in DOMAIN Obj.data : v \in DOMAIN obj.data
    BY <2>3, <2>5, AppendIs
  <2>7. Paid(obj.data, Budget)
    <3>1. cr.version \in DOMAIN Obj.data
      BY <2>4 DEF Affords
    <3> DEFINE data == Obj.data
               x == w.spec.data
               v == cr.version
    <3>2. /\ IsSequence(data) /\ data # <<>> /\ Paid(data, Budget) /\ v \in DOMAIN data
          /\ Affords(data, v, Budget) /\ x # data[v] /\ obj.data = Append(data, x)
      BY <2>3, <2>4, <2>5, <3>1
    <3> HIDE DEF data, x, v
    <3>3. \A u \in DOMAIN data :
            Affords(data, u, Budget) /\ data[u] # x => Paid(Append(data, x), Budget)
      BY <1>3, <3>2, AppendPays
    <3>4. Paid(Append(data, x), Budget)
      BY <3>2, <3>3
    <3> QED BY <3>2, <3>4
  <2>8. w.version \in DOMAIN Obj.data /\ cr.version \in DOMAIN Obj.data
    BY <2>4 DEF Affords
  <2> QED BY <1>5, <2>1, <2>2, <2>3, <2>6, <2>7, <2>8
<1>7. TemplatesOK'
  <2> SUFFICES ASSUME NEW i \in Live'
               PROVE  /\ DOMAIN ec2'[i] = TemplateFields
                      /\ IsSequence(ec2'[i].data) /\ ec2'[i].data # <<>>
                      /\ Paid(ec2'[i].data, Budget')
    BY DEF TemplatesOK
  <2>1. CASE i = w.id
    BY <1>3, <1>6, <2>1, MoreBudget
  <2>2. CASE i # w.id
    <3>1. i \in Live /\ ec2'[i] = ec2[i]
      BY <1>4, <2>2 DEF Live
    <3>2. /\ DOMAIN ec2[i] = TemplateFields /\ IsSequence(ec2[i].data)
          /\ ec2[i].data # <<>> /\ Paid(ec2[i].data, Budget)
      BY <1>1, <3>1 DEF TemplatesOK
    <3> QED BY <1>3, <3>1, <3>2, MoreBudget
  <2> QED BY <2>1, <2>2
<1> QED BY <1>6, <1>7

LEMMA NewVersionOK ==
  ASSUME Templates, CreateLaunchTemplateVersion
  PROVE  Correct'
<1> DEFINE obj  == [Obj EXCEPT !.data = Append(Obj.data, w.spec.data)]
           next == [Done EXCEPT !.version = Len(Obj.data) + 1]
<1>1. /\ ~At("idle") /\ DOMAIN w = WorkerFields /\ At("plan") /\ w.mode = "update"
      /\ w.id \in Ids /\ IsPlan(w.plan, TemplateOps) /\ w.plan # <<>> /\ DOMAIN ec2 = Ids
      /\ HandOK /\ Doing("newVersion")
  BY DoingIs
     DEF Templates, TemplateInv, StageOK, CreateLaunchTemplateVersion, Doing, Frame,
         WellFormedAll, EC2WellFormed
<1> DEFINE plan == w.plan
           n == Len(plan)
           rest == SubSeq(plan, 1 + 1, n)
           tail == Tail(plan)
<1>2. /\ 1 \in DOMAIN plan /\ plan[1][1] = "newVersion" /\ Arg = plan[1][2]
      /\ n \in Nat /\ DOMAIN plan = 1 .. n
      /\ tail = rest /\ IsPlan(rest, TemplateOps) /\ DOMAIN rest = 1 .. n - 1
      /\ \A i \in 1 .. n - 1 : rest[i] = plan[i + 1]
  <2>1. 1 \in 1 .. n /\ tail = rest /\ Head(plan) = plan[1] /\ n \in Nat /\ DOMAIN plan = 1 .. n
    BY <1>1, TailIsRest, PlansAreSequences
  <2>2. IsPlan(rest, TemplateOps) /\ DOMAIN rest = 1 .. n - 1
        /\ \A i \in 1 .. n - 1 : rest[i] = plan[i + 1]
    BY <1>1, <2>1, RestIsPlan
  <2>3. Head(plan)[1] = "newVersion" /\ Arg = Head(plan)[2]
    BY <1>1 DEF Doing, Arg
  <2> QED BY <2>1, <2>2, <2>3
<1> HIDE DEF rest, tail, n, plan
<1>3. w.id \in Live => Arg = w.spec.data /\ \A i \in DOMAIN tail : tail[i][1] = "defaultVersion"
  <2> SUFFICES ASSUME w.id \in Live
               PROVE  Arg = w.spec.data /\ \A i \in DOMAIN tail : tail[i][1] = "defaultVersion"
    OBVIOUS
  <2>1. NewVersionIsLast(plan)
    BY <1>1, <1>2 DEF HandOK, plan
  <2>2. Arg = w.spec.data /\ \A m \in DOMAIN plan : m > 1 => plan[m][1] = "defaultVersion"
    BY <1>2, <2>1 DEF NewVersionIsLast
  <2>3. \A i \in DOMAIN tail : i + 1 \in DOMAIN plan /\ i + 1 > 1 /\ tail[i] = plan[i + 1]
    BY <1>2
  <2> QED BY <2>2, <2>3
<1>4. /\ DOMAIN next = WorkerFields /\ next.pc = "plan" /\ next.mode = w.mode /\ next.id = w.id
      /\ next.spec = w.spec /\ next.version = Len(Obj.data) + 1 /\ next.plan = tail
  <2> DEFINE d == Done
  <2>1. /\ DOMAIN d = WorkerFields /\ d.pc = "plan" /\ d.mode = w.mode /\ d.id = w.id
        /\ d.spec = w.spec /\ d.plan = tail
    BY <1>1 DEF Done, WorkerFields, At, tail, plan
  <2> HIDE DEF d
  <2>2. next = [d EXCEPT !.version = Len(Obj.data) + 1]
    BY DEF d
  <2> QED BY <2>1, <2>2 DEF WorkerFields
<1>5. PICK made : /\ Call(made, next, orDeferred)
                  /\ w.id \in Live => made = obj
                  /\ w.id \notin Live => ~made.live
  <2> DEFINE made == [Obj EXCEPT !.data = newLaunchTemplateVersion(Arg)]
  <2>1. Call(made, next, orDeferred)
    BY DEF CreateLaunchTemplateVersion
  <2>2. w.id \in Live => made = obj
    BY <1>3 DEF newLaunchTemplateVersion
  <2>3. w.id \notin Live => ~made.live
    <3>1. w.id \notin Live => ~Obj.live /\ "live" \in DOMAIN Obj
      BY <1>1, DoingIs DEF Live, Obj, Templates, WellFormed
    <3> QED BY <3>1
  <2> QED BY <2>1, <2>2, <2>3
<1> HIDE DEF next
<1>6. /\ UNCHANGED <<cr, drifts>> /\ ec2' \in {ec2, [ec2 EXCEPT ![w.id] = made]}
      /\ \/ w' = next /\ faults' = faults /\ ec2' = [ec2 EXCEPT ![w.id] = made]
         \/ w' = orDeferred /\ faults' = faults + 1
  BY <1>5 DEF Call, env
<1>7. CASE w.id \notin Live
  <2>1. w.id \notin Live'
    <3>1. ec2'[w.id] \in {Obj, made}
      BY <1>1, <1>6 DEF Obj
    <3> QED BY <1>1, <1>5, <1>7, <3>1 DEF Live, Obj
  <2>2. DataKept
    BY <1>1, <1>5, <1>6, <1>7, CalledKeeps
  <2>3. TemplatesOK' /\ VersionOK'
    BY <1>6, <2>2, KeptAffords
  <2>4. /\ w'.id = w.id
        /\ \/ w'.pc \in Ends
           \/ w'.pc = "plan" /\ w'.mode = "update" /\ IsPlan(w'.plan, TemplateOps)
    <3>1. CASE w' = next
      BY <1>1, <1>2, <1>4, <3>1
    <3>2. CASE w' = onError
      BY <1>1, <3>2, onErrorIs DEF Templates, Ends
    <3>3. CASE w' = [w EXCEPT !.plan = <<<<"defaultVersion", w.spec.default>>, <<"nothing", {}>>>>,
                              !.blind = TRUE]
      <4> DEFINE p == <<<<"defaultVersion", w.spec.default>>, <<"nothing", {}>>>>
      <4>1. IsPlan(p, TemplateOps)
        <5> DEFINE a == <<"defaultVersion", w.spec.default>>
                   b == <<"nothing", {}>>
        <5>1. a[1] = "defaultVersion" /\ b[1] = "nothing"
          OBVIOUS
        <5> HIDE DEF a, b
        <5> DEFINE q == <<a, b>>
        <5>2. q \in Seq({a, b}) /\ Len(q) = 2 /\ q[1] = a /\ q[2] = b
          OBVIOUS
        <5> HIDE DEF q
        <5>3. \A i \in 1 .. Len(q) : q[i][1] \in TemplateOps
          BY <5>1, <5>2 DEF TemplateOps
        <5>4. IsPlan(q, TemplateOps)
          BY <5>2, <5>3, SequencesArePlans
        <5> QED BY <5>4 DEF q, a, b
      <4> HIDE DEF p
      <4>2. w' = [w EXCEPT !.plan = p, !.blind = TRUE]
        BY <3>3 DEF p
      <4> QED BY <1>1, <4>1, <4>2 DEF WorkerFields, At
    <3> QED BY <1>6, <3>1, <3>2, <3>3 DEF orDeferred
  <2> QED BY <2>1, <2>3, <2>4
          DEF Correct, StageOK, RecordOK, HandOK, TemplateStages, Ends, At
<1>8. CASE w.id \in Live
  <2>0. ec2' \in {ec2, [ec2 EXCEPT ![w.id] = obj]} /\ faults' \in {faults, faults + 1}
    BY <1>5, <1>6, <1>8
  <2>1. /\ TemplatesOK'
        /\ w.id \in Live' =>
             /\ ec2'[w.id].data \in {Obj.data, obj.data}
             /\ IsSequence(ec2'[w.id].data) /\ ec2'[w.id].data # <<>>
             /\ Paid(ec2'[w.id].data, Budget)
             /\ w.version \in DOMAIN ec2'[w.id].data /\ cr.version \in DOMAIN ec2'[w.id].data
             /\ Len(Obj.data) + 1 = Len(obj.data)
    BY <1>1, <1>6, <2>0, VersionMade
  <2>5. VersionOK'
    <3>1. w.id = cr.id /\ UNCHANGED cr
      BY <1>1, <1>6, WorkerIs DEF Templates
    <3> QED BY <2>1, <3>1 DEF VersionOK
  <2> HIDE DEF obj
  <2>2. CASE w' = next /\ faults' = faults /\ ec2' = [ec2 EXCEPT ![w.id] = obj]
    <3>1. Budget' = Budget /\ Budget \in Nat
      BY <1>6, <2>2, BudgetIs DEF Budget
    <3>2. w.id \in Live' => Affords(Obj'.data, w'.version, Budget')
      <4>1. Obj' = obj
        BY <1>1, <1>4, <2>2 DEF Obj
      <4>2. ASSUME w.id \in Live'
            PROVE  Affords(obj.data, Len(obj.data), Budget)
        <5>1. obj = ec2'[w.id]
          BY <1>1, <2>2
        <5>2. IsSequence(obj.data) /\ obj.data # <<>> /\ Paid(obj.data, Budget)
          BY <2>1, <4>2, <5>1
        <5> QED BY <3>1, <5>2, MoreBudget
      <4> QED BY <1>4, <2>1, <2>2, <3>1, <4>1, <4>2
    <3>3. StageOK' /\ RecordOK'
      BY <1>1, <1>2, <1>4, <2>2 DEF StageOK, RecordOK, TemplateStages, At
    <3>4. \A i \in DOMAIN w'.plan : w'.plan[i][1] = "defaultVersion"
      BY <1>3, <1>4, <1>8, <2>2
    <3>5. HandOK'
      BY <1>4, <2>2, <3>2, <3>4 DEF HandOK, OnRecord, Returning, NewVersionIsLast, At, Updating
    <3> QED BY <2>1, <2>5, <3>3, <3>5 DEF Correct
  <2>3. CASE w' = orDeferred /\ faults' = faults + 1
    <3>1. ASSUME w.id \in Live'
          PROVE  \A v \in {w.version, cr.version} : Affords(ec2'[w.id].data, v, Budget')
      <4>1. Budget \in Nat /\ Budget' \in Nat /\ Budget < Budget' /\ Budget <= Budget'
        <5>1. faults \in Nat /\ drifts \in Nat /\ Budget \in Nat
          BY BudgetIs
        <5>2. Budget' = faults + 1 + drifts /\ Budget = faults + drifts
          BY <1>6, <2>3 DEF Budget
        <5> QED BY <5>1, <5>2
      <4> QED BY <2>1, <3>1, <4>1, MoreBudget
    <3>2. CASE w' = onError
      <4>1. w'.pc \in Ends /\ w'.id = w.id /\ w'.version = w.version
        BY <1>1, <3>2, onErrorIs DEF Templates, Ends
      <4>2. StageOK' /\ RecordOK'
        BY <4>1 DEF StageOK, RecordOK, TemplateStages, Ends, At
      <4>3. HandOK'
        BY <3>1, <4>1 DEF HandOK, OnRecord, Ends, At, Updating, Obj
      <4> QED BY <2>1, <2>5, <4>2, <4>3 DEF Correct
    <3>3. CASE w' = [w EXCEPT !.plan = <<<<"defaultVersion", w.spec.default>>, <<"nothing", {}>>>>,
                              !.blind = TRUE]
      <4> DEFINE a == <<"defaultVersion", w.spec.default>>
                 b == <<"nothing", {}>>
                 p == <<a, b>>
      <4>1. a[1] = "defaultVersion" /\ b[1] = "nothing"
        OBVIOUS
      <4>2. w' = [w EXCEPT !.plan = p, !.blind = TRUE]
        BY <3>3
      <4> HIDE DEF a, b
      <4>3. p \in Seq({a, b}) /\ Len(p) = 2 /\ p[1] = a /\ p[2] = b /\ DOMAIN p = 1 .. 2
        OBVIOUS
      <4> HIDE DEF p
      <4>4. \A i \in 1 .. Len(p) : p[i][1] \in TemplateOps /\ p[i][1] # "newVersion"
        BY <4>1, <4>3 DEF TemplateOps
      <4>5. IsPlan(p, TemplateOps)
        BY <4>3, <4>4, SequencesArePlans
      <4>6. /\ w'.pc = "plan" /\ w'.mode = "update" /\ w'.id = w.id /\ w'.version = w.version
            /\ w'.plan = p
        BY <1>1, <4>2 DEF WorkerFields, At
      <4>7. StageOK' /\ RecordOK'
        BY <4>5, <4>6 DEF StageOK, RecordOK, TemplateStages, At
      <4>8. \A i \in DOMAIN w'.plan : w'.plan[i][1] # "newVersion"
        BY <4>3, <4>4, <4>6
      <4>9. HandOK'
        BY <1>6, <3>1, <4>6, <4>8 DEF HandOK, NewVersionIsLast, At, Updating, Obj
      <4> QED BY <2>1, <2>5, <4>7, <4>9 DEF Correct
    <3> QED BY <2>3, <3>2, <3>3 DEF orDeferred
  <2> QED BY <1>5, <1>6, <1>8, <2>2, <2>3
<1> QED BY <1>7, <1>8

----------------------------------------------------------------------------
(* The other steps of a pass.                                              *)

LEMMA CallOK ==
  ASSUME Templates, At("plan"), w.plan # <<>>, NEW obj,
         Call(obj, Done, onError) \/ Go(onError),
         obj.live => w.id \in Live /\ DOMAIN obj = DOMAIN Obj /\ obj.data = Obj.data
  PROVE  Correct'
<1>1. ~At("idle") /\ w.id \in Ids
  BY DoingIs DEF Templates
<1>2. /\ UNCHANGED <<cr, drifts>> /\ faults' \in {faults, faults + 1}
      /\ ec2' \in {ec2, [ec2 EXCEPT ![w.id] = obj]} /\ w' \in {Done, onError}
  BY DEF Call, Go, env
<1>3. DataKept
  BY <1>1, <1>2, CalledKeeps
<1>4. TemplatesOK' /\ VersionOK'
  BY <1>2, <1>3, KeptAffords
<1>5. CASE w' = Done
  BY <1>2, <1>3, <1>5, DoneOK
<1>6. CASE w' = onError
  BY <1>1, <1>2, <1>3, <1>4, <1>6, FailedOK DEF Correct
<1> QED BY <1>2, <1>5, <1>6

\* An object that changes in its tags or its default version only.
LEMMA SameVersions ==
  ASSUME Templates, At("plan"), NEW x
  PROVE  /\ LET obj == [Obj EXCEPT !.tags = x]
            IN  obj.live => w.id \in Live /\ DOMAIN obj = DOMAIN Obj /\ obj.data = Obj.data
         /\ LET obj == [Obj EXCEPT !.default = x]
            IN  obj.live => w.id \in Live /\ DOMAIN obj = DOMAIN Obj /\ obj.data = Obj.data
<1>1. w.id \in Ids /\ "live" \in DOMAIN Obj
  BY DoingIs DEF Templates, WellFormed
<1>2. w.id \in Live => DOMAIN Obj = TemplateFields
  BY DEF Templates, TemplateInv, TemplatesOK, Obj
<1> QED BY <1>1, <1>2 DEF Live, Obj, TemplateFields

LEMMA DefaultVersionOK ==
  ASSUME Templates, updateDefaultVersion
  PROVE  Correct'
<1> DEFINE obj == [Obj EXCEPT !.default = Arg]
<1>1. At("plan") /\ w.plan # <<>> /\ (Call(obj, Done, onError) \/ Go(onError))
  BY DEF updateDefaultVersion, Doing
<1>2. obj.live => w.id \in Live /\ DOMAIN obj = DOMAIN Obj /\ obj.data = Obj.data
  BY <1>1, SameVersions
<1> HIDE DEF obj
<1> QED BY <1>1, <1>2, CallOK

LEMMA TagsOK ==
  ASSUME Templates, syncTags
  PROVE  Correct'
<1> DEFINE removed == Obj.tags \ (w.seen.tags \ w.spec.tags)
           synced  == removed \cup (w.spec.tags \ w.seen.tags)
           obj(tags) == [Obj EXCEPT !.tags = tags]
<1>1. At("plan") /\ w.plan # <<>> /\ ~At("idle") /\ w.id \in Ids
  BY DoingIs DEF Templates, syncTags, Doing
<1>2. \A tags : obj(tags).live =>
        w.id \in Live /\ DOMAIN obj(tags) = DOMAIN Obj /\ obj(tags).data = Obj.data
  BY <1>1, SameVersions
<1>3. CASE Call(obj(synced), Done, onError) \/ Go(onError)
  <2> HIDE DEF obj
  <2> QED BY <1>1, <1>2, <1>3, CallOK
<1>4. CASE /\ faults' = faults + 1 /\ w' = onError
           /\ ec2' = [ec2 EXCEPT ![w.id].tags = removed] /\ UNCHANGED <<cr, env>>
  <2>1. ec2' = [ec2 EXCEPT ![w.id] = obj(removed)]
    BY <1>4 DEF Obj
  <2>2. DataKept
    <3> DEFINE less == obj(removed)
    <3>1. ec2' \in {ec2, [ec2 EXCEPT ![w.id] = less]}
      BY <2>1
    <3>2. less.live => w.id \in Live /\ DOMAIN less = DOMAIN Obj /\ less.data = Obj.data
      BY <1>2
    <3> HIDE DEF less
    <3> QED BY <1>1, <3>1, <3>2, CalledKeeps
  <2>3. UNCHANGED <<cr, drifts>> /\ faults' \in {faults, faults + 1} /\ w' = onError
    BY <1>4 DEF env
  <2> QED BY <1>1, <2>2, <2>3, KeptAffords, FailedOK DEF Correct
<1> QED BY <1>3, <1>4 DEF syncTags

LEMMA DesiredOK ==
  ASSUME Templates, returnDesired
  PROVE  Correct'
BY UntouchedKeeps, DoneOK DEF returnDesired, Go, Doing, env

LEMMA FinishOK ==
  ASSUME Templates, finish
  PROVE  Correct'
<1>1. /\ ~At("idle") /\ DOMAIN w = WorkerFields /\ w.end \in Ends
      /\ UNCHANGED <<cr, ec2, drifts, faults>> /\ w' = Over(w.end)
  BY DoingIs DEF Templates, finish, Go, env
<1>2. w'.pc \in Ends /\ w'.id = w.id /\ w'.version = w.version
  BY <1>1 DEF Over, WorkerFields
<1>3. DataKept /\ TemplatesOK' /\ VersionOK'
  BY <1>1, UntouchedKeeps, KeptAffords
<1>4. StageOK' /\ RecordOK' /\ HandOK'
  BY <1>1, <1>2, <1>3, HandIs, EndOK
<1> QED BY <1>3, <1>4 DEF Correct

LEMMA DeleteOK ==
  ASSUME Templates, sdkDeleteLaunchTemplate
  PROVE  Correct'
<1> DEFINE next == [w EXCEPT !.pc = "release"]
<1>1. /\ ~At("idle") /\ w.id \in Ids /\ DOMAIN w = WorkerFields /\ DOMAIN ec2 = Ids
      /\ Call(Gone, next, onError) \/ Go(onError)
  BY InHand DEF Templates, sdkDeleteLaunchTemplate, Deleting, Delete, At, Working, Frame,
                WellFormedAll, EC2WellFormed
<1>2. /\ UNCHANGED <<cr, drifts>> /\ faults' \in {faults, faults + 1}
      /\ ec2' \in {ec2, [ec2 EXCEPT ![w.id] = Gone]}
      /\ w' = onError \/ (w' = next /\ ec2' = [ec2 EXCEPT ![w.id] = Gone])
  BY <1>1 DEF Call, Go, env
<1>3. DataKept
  BY <1>1, <1>2, CalledKeeps, GoneIsDead
<1>4. TemplatesOK' /\ VersionOK'
  BY <1>2, <1>3, KeptAffords
<1>5. CASE w' = onError
  BY <1>1, <1>2, <1>3, <1>4, <1>5, FailedOK DEF Correct
<1>6. CASE w' = next /\ ec2' = [ec2 EXCEPT ![w.id] = Gone]
  <2>1. w'.pc = "release" /\ w'.id = w.id
    BY <1>1, <1>6 DEF WorkerFields
  <2>2. w'.id \notin Live'
    BY <1>1, <1>6, <2>1, GoneIsDead DEF Live
  <2> QED BY <1>4, <2>1, <2>2 DEF Correct, StageOK, RecordOK, HandOK, TemplateStages, At
<1> QED BY <1>2, <1>5, <1>6

\* Nobody works on the CR any more; the version on record is affordable.
LEMMA IdleOK ==
  ASSUME TemplatesOK', w'.pc = "idle",
         cr'.id \in Live' => Affords(ec2'[cr'.id].data, cr'.version, Budget')
  PROVE  Correct'
<1>1. VersionOK'
  BY DEF VersionOK, Affords
<1>2. StageOK' /\ RecordOK' /\ HandOK'
  BY DEF StageOK, RecordOK, HandOK, TemplateStages, At
<1> QED BY <1>1, <1>2 DEF Correct

LEMMA ReturnNothingOK ==
  ASSUME Templates, returnNothing
  PROVE  Correct'
<1>1. /\ ~At("idle") /\ At("plan") /\ UNCHANGED <<cr, ec2, drifts, faults>> /\ w'.pc = "idle"
      /\ HandOK /\ w.mode = "update" /\ IsPlan(w.plan, TemplateOps) /\ w.plan # <<>>
  BY IdleIs, DoingIs
     DEF Templates, TemplateInv, StageOK, returnNothing, Doing, Go, env
<1>2. w.id = cr.id
  BY <1>1, WorkerIs DEF Templates
<1>3. OnRecord
  <2>1. 1 \in DOMAIN w.plan /\ Head(w.plan) = w.plan[1]
    BY <1>1, TailIsRest, PlansAreSequences
  <2> QED BY <1>1, <2>1 DEF OnRecord, Returning, returnNothing, Doing
<1>4. DataKept /\ Live' = Live /\ TemplatesOK'
  BY <1>1, UntouchedKeeps, KeptAffords
<1>5. cr.id \in Live => Affords(ec2[cr.id].data, cr.version, Budget)
  BY <1>1, <1>2, <1>3 DEF HandOK, Obj
<1>6. cr'.id \in Live' => Affords(ec2'[cr'.id].data, cr'.version, Budget')
  BY <1>1, <1>4, <1>5 DEF Budget
<1> QED BY <1>1, <1>4, <1>6, IdleOK

LEMMA BeginOK ==
  ASSUME Templates, Begin
  PROVE  Correct'
<1>1. /\ At("idle") /\ RecordOK /\ UNCHANGED <<cr, ec2, drifts, faults>>
      /\ w'.pc = "describe" /\ w'.id = cr.id /\ w'.version = cr.version
  BY DEF Templates, TemplateInv, Begin, Go, env, IdleWorker
<1>2. DataKept /\ Live' = Live /\ TemplatesOK' /\ VersionOK' /\ Budget' = Budget
  BY <1>1, UntouchedKeeps, KeptAffords DEF Budget
<1>3. StageOK' /\ RecordOK'
  BY <1>1 DEF StageOK, RecordOK, TemplateStages, At
<1>4. cr.id \in Live => Affords(ec2[cr.id].data, cr.version, Budget)
  BY <1>1 DEF RecordOK
<1>5. HandOK'
  BY <1>1, <1>2, <1>4 DEF HandOK, OnRecord, At, Updating, Obj
<1> QED BY <1>2, <1>3, <1>5 DEF Correct

LEMMA ManagedOK ==
  ASSUME Templates, setResourceManaged
  PROVE  Correct'
<1>1. /\ ~At("idle") /\ w.pc = "manage" /\ UNCHANGED <<ec2, drifts, faults>>
      /\ DOMAIN w = WorkerFields /\ DOMAIN cr = CRFields
  BY WorkerIs
     DEF Templates, setResourceManaged, At, env, Frame, WellFormedAll, CRWellFormed
<1>2. cr.id \notin Live /\ w.id \notin Live
  BY <1>1, NothingOnRecord DEF Templates
<1>3. cr'.id = cr.id /\ cr'.version = cr.version
  BY <1>1 DEF setResourceManaged, CRFields
<1>4. DataKept /\ Live' = Live /\ TemplatesOK' /\ VersionOK'
  BY <1>1, <1>3, UntouchedKeeps, KeptAffords
<1>5. CASE w' = IdleWorker
  BY <1>2, <1>3, <1>4, <1>5, IdleIs, IdleOK
<1>6. CASE w' = [w EXCEPT !.pc = "create", !.mode = "create"]
  <2>1. w'.pc = "create" /\ w'.id = w.id
    BY <1>1, <1>6 DEF WorkerFields
  <2> QED BY <1>2, <1>4, <2>1 DEF Correct, StageOK, RecordOK, HandOK, TemplateStages, At
<1> QED BY <1>5, <1>6 DEF setResourceManaged

LEMMA UnmanagedOK ==
  ASSUME Templates, setResourceUnmanaged
  PROVE  Correct'
<1>1. /\ ~At("idle") /\ w.pc = "release" /\ UNCHANGED <<ec2, drifts, faults>> /\ w'.pc = "idle"
      /\ cr'.id = cr.id
  BY IdleIs DEF Templates, setResourceUnmanaged, At, env, Frame, WellFormedAll, CRWellFormed,
                CRFields
<1>2. cr.id \notin Live
  BY <1>1, NothingOnRecord DEF Templates
<1>3. Live' = Live /\ TemplatesOK'
  BY <1>1, UntouchedKeeps, KeptAffords
<1> QED BY <1>1, <1>2, <1>3, IdleOK

LEMMA PatchStatusOK ==
  ASSUME Templates, PatchStatus
  PROVE  Correct'
<1>1. /\ ~At("idle") /\ UNCHANGED <<ec2, drifts, faults>> /\ w'.pc = "idle"
      /\ DOMAIN cr = CRFields
  BY IdleIs DEF Templates, PatchStatus, At, Frame, WellFormedAll, CRWellFormed
<1>2. Live' = Live /\ 0 \notin Live /\ TemplatesOK' /\ Budget' = Budget
  BY <1>1, UntouchedKeeps, KeptAffords, IdsArePositive DEF Live, Budget
<1>3. CASE cr.phase = "gone"
  <2>1. cr'.id = 0
    BY <1>1, <1>3 DEF PatchStatus, Templates, Frame, Ownership, PassOK
  <2> QED BY <1>1, <1>2, <2>1, IdleOK
<1>4. CASE cr.phase # "gone"
  <2>1. cr'.id = w.id /\ cr'.version = w.version
    BY <1>1, <1>4 DEF PatchStatus, CRFields
  <2>2. w.id \in Live => Affords(ec2[w.id].data, w.version, Budget)
    BY <1>1, HandIs DEF Obj
  <2> QED BY <1>1, <1>2, <2>1, <2>2, IdleOK
<1> QED BY <1>3, <1>4

LEMMA TemplateRuntimeOK ==
  ASSUME Templates, RuntimeStep
  PROVE  Correct'
BY BeginOK, ManagedOK, TagsOK, DesiredOK, FinishOK, UnmanagedOK, PatchStatusOK DEF RuntimeStep

LEMMA TemplateStepOK ==
  ASSUME Templates, LaunchTemplateStep
  PROVE  Correct'
BY FindOK, ReadOK, CreateOK, PatchSpecOK, UpdateOK, NewVersionOK, DefaultVersionOK,
   ReturnNothingOK, DeleteOK
   DEF LaunchTemplateStep

----------------------------------------------------------------------------
(* The rest of the world.                                                  *)

LEMMA CrashOK ==
  ASSUME Templates, Crash
  PROVE  Correct'
<1>1. /\ UNCHANGED <<cr, ec2, drifts>> /\ faults' = faults + 1 /\ w'.pc = "idle" /\ VersionOK
  BY IdleIs DEF Templates, TemplateInv, Crash, Unread, env
<1>2. DataKept /\ Live' = Live /\ TemplatesOK'
  BY <1>1, UntouchedKeeps, KeptAffords
<1>3. faults' # faults
  BY <1>1, BudgetIs
<1>4. cr'.id \in Live' => Affords(ec2'[cr'.id].data, cr'.version, Budget')
  BY <1>1, <1>2, <1>3, KeptAffords DEF VersionOK
<1> QED BY <1>1, <1>2, <1>4, IdleOK

LEMMA EditOK ==
  ASSUME Templates, EditSpec \/ DeleteCR \/ RecreateCR
  PROVE  Correct'
<1>1. /\ UNCHANGED <<ec2, w, faults, drifts>> /\ Live' = Live /\ 0 \notin Live
      /\ DOMAIN cr = CRFields
  BY IdsArePositive
     DEF EditSpec, DeleteCR, RecreateCR, env, Live, Templates, Frame, WellFormedAll, CRWellFormed
<1>2. TemplatesOK' /\ VersionOK /\ StageOK' /\ RecordOK /\ HandOK /\ Budget' = Budget
  BY <1>1, UntouchedKeeps, KeptAffords
     DEF Templates, TemplateInv, StageOK, At, Budget
<1>3. CASE cr'.id = cr.id /\ cr'.version = cr.version
  <2>1. VersionOK' /\ RecordOK'
    BY <1>1, <1>2, <1>3 DEF VersionOK, RecordOK, At
  <2>2. HandOK'
    BY <1>1, <1>2, <1>3 DEF HandOK, OnRecord, NewVersionIsLast, Updating, At, Obj
  <2> QED BY <1>2, <2>1, <2>2 DEF Correct
<1>4. CASE RecreateCR
  <2>1. cr'.id = 0 /\ cr.phase = "gone"
    BY <1>4 DEF RecreateCR, NewCR
  <2>2. ~At("idle") => w.id \notin Live
    <3>1. ~At("idle") => cr.id = 0 /\ ~cr.managed
      BY <2>1 DEF Templates, Frame, Ownership, PassOK, PhaseOK
    <3>2. ~At("idle") => w.id = cr.id
      BY <3>1, WorkerIs DEF Templates, Frame, Ownership, PassOK
    <3> QED BY <1>1, <3>1, <3>2
  <2>3. VersionOK' /\ RecordOK' /\ HandOK'
    BY <1>1, <2>1, <2>2 DEF VersionOK, RecordOK, HandOK, At
  <2> QED BY <1>2, <2>3 DEF Correct
<1>5. EditSpec \/ DeleteCR => cr'.id = cr.id /\ cr'.version = cr.version
  BY <1>1 DEF EditSpec, DeleteCR, CRFields
<1> QED BY <1>3, <1>4, <1>5

\* Another client's version costs what it may repeat.
LEMMA TemplateDriftOK ==
  ASSUME Templates, NEW i \in Live, LaunchTemplateDrift(i)
  PROVE  Correct'
<1> DEFINE more  == [ec2[i] EXCEPT !.data = Append(ec2[i].data, "foreign")]
           first == [ec2[i] EXCEPT !.default = 1]
<1>1. /\ TemplatesOK /\ VersionOK /\ StageOK /\ RecordOK /\ HandOK
      /\ DOMAIN ec2 = Ids /\ i \in Ids /\ DOMAIN w = WorkerFields
  BY DEF Templates, TemplateInv, Frame, WellFormedAll, EC2WellFormed, WorkerWellFormed, Live
<1>2. OtherClient(i, more) \/ OtherClient(i, first)
  BY DEF LaunchTemplateDrift
<1>3. /\ UNCHANGED <<cr, faults>> /\ drifts' = drifts + 1
      /\ ec2' = [ec2 EXCEPT ![i] = more] \/ ec2' = [ec2 EXCEPT ![i] = first]
      /\ w' = w \/ w' = [w EXCEPT !.interfered = TRUE]
  BY <1>2 DEF OtherClient
<1>4. Budget \in Nat /\ Budget' \in Nat /\ Budget' = Budget + 1 /\ Budget <= Budget'
  <2>1. faults \in Nat /\ drifts \in Nat /\ Budget \in Nat
    BY BudgetIs
  <2>2. Budget' = faults + (drifts + 1) /\ Budget = faults + drifts
    BY <1>3 DEF Budget
  <2> QED BY <2>1, <2>2
<1>5. /\ w'.pc = w.pc /\ w'.mode = w.mode /\ w'.id = w.id /\ w'.version = w.version
      /\ w'.spec = w.spec /\ w'.plan = w.plan /\ w'.seen = w.seen
  BY <1>1, <1>3 DEF WorkerFields
<1>6. ASSUME NEW j \in Live'
      PROVE  /\ j \in Live /\ DOMAIN ec2'[j] = TemplateFields
             /\ IsSequence(ec2'[j].data) /\ ec2'[j].data # <<>> /\ Paid(ec2'[j].data, Budget')
             /\ \A v : Affords(ec2[j].data, v, Budget) => Affords(ec2'[j].data, v, Budget')
             /\ \A v \in DOMAIN ec2[j].data :
                  v \in DOMAIN ec2'[j].data /\ ec2'[j].data[v] = ec2[j].data[v]
  <2>1. CASE ec2'[j] = ec2[j] \/ (j = i /\ ec2' = [ec2 EXCEPT ![i] = first])
    <3>1. DOMAIN ec2[i] = TemplateFields
      BY <1>1 DEF TemplatesOK
    <3>2. j \in Live /\ DOMAIN ec2'[j] = DOMAIN ec2[j] /\ ec2'[j].data = ec2[j].data
      BY <1>1, <2>1, <3>1 DEF Live, TemplateFields
    <3>3. /\ DOMAIN ec2[j] = TemplateFields /\ IsSequence(ec2[j].data)
          /\ ec2[j].data # <<>> /\ Paid(ec2[j].data, Budget)
      BY <1>1, <3>2 DEF TemplatesOK
    <3> QED BY <1>4, <3>2, <3>3, MoreBudget
  <2>2. CASE j = i /\ ec2' = [ec2 EXCEPT ![i] = more]
    <3> DEFINE data == ec2[i].data
               x == "foreign"
               longer == Append(data, x)
    <3>1. /\ DOMAIN ec2[i] = TemplateFields /\ IsSequence(data) /\ data # <<>>
          /\ Paid(data, Budget)
      BY <1>1 DEF TemplatesOK
    <3>2. ec2'[j].data = longer /\ DOMAIN ec2'[j] = TemplateFields
      BY <1>1, <2>2, <3>1 DEF TemplateFields
    <3> HIDE DEF data, x
    <3>3. /\ IsSequence(longer) /\ longer # <<>>
          /\ \A v \in DOMAIN data : v \in DOMAIN longer /\ longer[v] = data[v]
      BY <3>1, AppendIs
    <3>4. /\ Paid(longer, Budget + 1)
          /\ \A v \in DOMAIN data : Affords(data, v, Budget) => Affords(longer, v, Budget + 1)
      BY <1>4, <3>1, AppendPays
    <3>5. \A v : Affords(data, v, Budget) => v \in DOMAIN data
      BY DEF Affords
    <3> QED BY <1>4, <2>2, <3>2, <3>3, <3>4, <3>5 DEF data
  <2>3. j # i => ec2'[j] = ec2[j]
    BY <1>1, <1>3 DEF Live
  <2> QED BY <1>3, <2>1, <2>2, <2>3
<1>7. TemplatesOK' /\ VersionOK' /\ RecordOK'
  BY <1>1, <1>3, <1>5, <1>6 DEF TemplatesOK, VersionOK, RecordOK, At
<1>8. StageOK'
  BY <1>1, <1>5 DEF StageOK, At
<1>9. ASSUME ~At("idle"), w.id \in Live'
      PROVE  /\ w.id \in Live
             /\ \A v : Affords(Obj.data, v, Budget) => Affords(Obj'.data, v, Budget')
             /\ OnRecord => Obj'.data[cr.version] = Obj.data[cr.version]
  <2>1. /\ w.id \in Live
        /\ \A v : Affords(ec2[w.id].data, v, Budget) => Affords(ec2'[w.id].data, v, Budget')
        /\ \A v \in DOMAIN ec2[w.id].data : ec2'[w.id].data[v] = ec2[w.id].data[v]
    BY <1>6, <1>9
  <2>2. OnRecord => cr.version \in DOMAIN ec2[w.id].data
    BY <1>1, <1>9, <2>1 DEF HandOK, Affords, Obj
  <2> QED BY <1>5, <2>1, <2>2 DEF Obj
<1>10. /\ Updating => OnRecord
       /\ \A n \in DOMAIN w.plan : At("plan") /\ w.plan[n][1] = "newVersion" => OnRecord
  BY DEF OnRecord, Returning, Updating
<1>11. (OnRecord' <=> OnRecord) /\ (Updating' <=> Updating) /\ (NewVersionIsLast(w.plan)' <=> NewVersionIsLast(w.plan))
  BY <1>5 DEF OnRecord, Updating, NewVersionIsLast, At
<1>12. HandOK'
  BY <1>1, <1>3, <1>5, <1>9, <1>10, <1>11 DEF HandOK, At
<1> QED BY <1>7, <1>8, <1>12 DEF Correct

\* A pass over a launch template takes no step of another kind.
LEMMA TemplateStepsAre ==
  ASSUME Templates, Reconcile
  PROVE  RuntimeStep \/ LaunchTemplateStep
<1>1. ASSUME ~At("idle") PROVE w.spec.kind = "launch_template"
  BY <1>1, WorkerIs DEF Templates
<1>2. ~At("associations") /\ ~At("entries")
  BY DEF Templates, TemplateInv, StageOK, TemplateStages, Ends, At
<1>3. ASSUME NEW op, Doing(op) PROVE op \in TemplateOps
  <2>1. At("plan") /\ w.plan # <<>> /\ IsPlan(w.plan, TemplateOps)
    BY <1>3 DEF Doing, Templates, TemplateInv, StageOK
  <2>2. Head(w.plan) = w.plan[1] /\ 1 \in 1 .. Len(w.plan)
    BY <2>1, TailIsRest
  <2> QED BY <1>3, <2>1, <2>2, PlansAreSequences DEF Doing
<1>5. ASSUME NEW kind, kind # "launch_template", ~At("idle") PROVE ~Kind(kind)
  BY <1>1, <1>5 DEF Kind
<1>6. \A op : op \notin TemplateOps => ~Doing(op)
  BY <1>3
<1>4. ~RouteTableAssociationStep
  BY <1>2, <1>6
     DEF RouteTableAssociationStep, readRouteTables, updateRouteTableAssociations,
         disassociateRouteTable, associateRouteTable, TemplateOps
<1>7. ~SubnetStep
  BY <1>5, <1>6
     DEF SubnetStep, sdkFindSubnet, Describe, sdkCreateSubnet, customUpdateSubnet, Updating,
         updateSubnetAttribute, sdkDeleteSubnet, Deleting, At, TemplateOps
<1>8. ~InternetGatewayStep
  BY <1>5, <1>6
     DEF InternetGatewayStep, sdkFindInternetGateway, Describe, sdkCreateInternetGateway,
         customUpdateInternetGateway, Updating, detachFromVPC, attachToVPC,
         sdkDeleteInternetGateway, Deleting, At, Doing, TemplateOps
<1>9. ~DHCPOptionsStep
  BY <1>5, <1>6
     DEF DHCPOptionsStep, sdkFindDHCPOptions, Describe, sdkCreateDHCPOptions,
         customUpdateDHCPOptions, Updating, findAfterUpdate, attachVPC, detachVPC,
         sdkDeleteDHCPOptions, Deleting, At, Doing, TemplateOps
<1>10. ~NetworkACLStep
  <2>1. ~(\/ createEntry \/ deleteEntry \/ updateEntry \/ upsertNewAssociations
          \/ describeDefaultACL \/ deleteOldAssociations \/ findACLAfterUpdate
          \/ refuseEntries)
    BY <1>6 DEF createEntry, deleteEntry, updateEntry, upsertNewAssociations,
                describeDefaultACL, deleteOldAssociations, findACLAfterUpdate, refuseEntries, TemplateOps
  <2>2. ~(\/ sdkFindNetworkACL \/ sdkCreateNetworkACL \/ customUpdateNetworkAcl
          \/ sdkDeleteNetworkACL)
    BY <1>5 DEF sdkFindNetworkACL, Describe, sdkCreateNetworkACL, customUpdateNetworkAcl,
                Updating, sdkDeleteNetworkACL, Deleting, At, Doing
  <2> QED BY <2>1, <2>2 DEF NetworkACLStep
<1>11. ~InstanceStep
  BY <1>5, <1>6
     DEF InstanceStep, sdkFindInstance, Describe, sdkCreateInstance, customUpdateInstance,
         Updating, modifyInstanceAttributes, sdkDeleteInstance, Deleting, At, TemplateOps
<1>12. ~ManagedPrefixListStep
  BY <1>2, <1>5, <1>6
     DEF ManagedPrefixListStep, sdkFindManagedPrefixList, Describe,
         getManagedPrefixListEntries, sdkCreateManagedPrefixList,
         customUpdateManagedPrefixList, Updating, ModifyManagedPrefixList,
         sdkDeleteManagedPrefixList, Deleting, At, TemplateOps
<1>13. ~CapacityReservationStep
  BY <1>5, <1>6
     DEF CapacityReservationStep, sdkFindCapacityReservation, Describe,
         sdkCreateCapacityReservation, sdkUpdateCapacityReservation, Updating,
         modifyCapacityReservation, findReservationAfterUpdate,
         sdkDeleteCapacityReservation, Deleting, At, TemplateOps
<1> QED BY <1>4, <1>7, <1>8, <1>9, <1>10, <1>11, <1>12, <1>13 DEF Reconcile

----------------------------------------------------------------------------
(* The invariant, and what it is for.                                      *)

LEMMA TemplateInvInit == Init => TemplateInv
<1> SUFFICES ASSUME Init PROVE TemplateInv
  OBVIOUS
<1>1. w.pc = "idle" /\ cr.id = 0 /\ Live = {}
  <2>1. \A i \in Ids : ~ec2[i].live
    BY GoneIsDead DEF Init
  <2> QED BY <2>1, IdleIs DEF Init, NewCR, Live
<1> QED BY <1>1 DEF TemplateInv, TemplatesOK, VersionOK, StageOK, RecordOK, HandOK, TemplateStages, At

LEMMA TemplateInvStep ==
  ASSUME Frame, Counted, TemplateInv, [Next]_vars
  PROVE  TemplateInv'
<1> SUFFICES ASSUME cr'.spec.kind = "launch_template"
             PROVE  Correct'
  BY DEF TemplateInv, Correct
<1>1. Templates /\ cr.spec.kind = "launch_template"
  BY KindStays DEF Templates
<1>2. CASE UNCHANGED vars
  <2>1. UNCHANGED <<cr, ec2, w, faults, drifts>>
    BY <1>2 DEF vars, env
  <2>2. Live' = Live /\ Budget' = Budget
    BY <2>1 DEF Live, Budget
  <2> QED BY <1>1, <2>1, <2>2
          DEF Templates, TemplateInv, Correct, TemplatesOK, VersionOK, StageOK, RecordOK, HandOK,
              OnRecord, NewVersionIsLast, Updating, At, Obj
<1>3. CASE Reconcile
  BY <1>1, <1>3, TemplateStepsAre, TemplateRuntimeOK, TemplateStepOK
<1>4. CASE WorldStep
  BY <1>1, <1>4, CrashOK, EditOK DEF WorldStep
<1>5. CASE Drift
  <2>1. PICK i \in Live : LaunchTemplateDrift(i)
    BY <1>1, <1>5 DEF Drift
  <2> QED BY <1>1, <2>1, TemplateDriftOK
<1>6. ~(\E i \in Ids : Settle(i)) /\ ~Fails
  BY <1>1 DEF Settle, Fails
<1> QED BY <1>2, <1>3, <1>4, <1>5, <1>6 DEF Next

\* A version of a launch template that repeats the one before has cost a fault or
\* another client's change, however many passes there are: sdkFind reads back the
\* version that sdkUpdate wrote and the status recorded, and the version in hand when
\* an update returns is the latest, or one that differs from it at a price already
\* paid (sdkFind, setLatestLaunchTemplateAttributes, sdkUpdate, its deferred call, and
\* the status patch).
THEOREM NoNeedlessVersionCorrect == Spec => []NoNeedlessVersion
<1>1. Frame /\ Counted /\ TemplateInv /\ [Next]_vars => Counted' /\ TemplateInv'
  BY TemplateInvStep, CountedStep
<1>2. TemplateInv => NoNeedlessVersion
  BY DEF TemplateInv, TemplatesOK, Paid, Repeats, Budget, NoNeedlessVersion
<1>3. Init => Counted
  BY DEF Init, Counted
<1> QED BY <1>1, <1>2, <1>3, FrameCorrect, TemplateInvInit, PTL DEF Spec

----------------------------------------------------------------------------
(* The version of a managed prefix list.  While EC2 makes the list the     *)
(* version is no lock; from then on it grows with every change of the      *)
(* entries, and what was read of both belongs together.                    *)

ListFields == {"live", "state", "version", "entries", "next", "max", "tags"}
ListStages ==
  {"idle", "describe", "entries", "found", "plan", "manage", "create", "release"} \cup Ends
ListOps == {"tags", "modifyList", "desired"}

ListsOK == \A i \in Live : DOMAIN ec2[i] = ListFields /\ ec2[i].version \in Nat

ListStageOK ==
  /\ w.pc \in ListStages
  /\ At("plan") => w.mode = "update" /\ IsPlan(w.plan, ListOps)

\* A later state of a list, as far as a reader of the earlier one can tell.
Later(new, old) ==
  old.state # "create-in-progress" =>
    /\ new.state # "create-in-progress" /\ old.version <= new.version
    /\ old.version = new.version => new.entries = old.entries

LockOK ==
  w.pc \in {"entries", "found", "plan"} /\ w.id \in Live =>
    DOMAIN w.seen = ListFields /\ w.seen.version \in Nat /\ Later(Obj, w.seen)

ListInv == cr.spec.kind = "managed_prefix_list" => ListsOK /\ ListStageOK /\ LockOK

Lists == Frame /\ ListInv /\ cr.spec.kind = "managed_prefix_list"
Locked == ListsOK /\ ListStageOK /\ LockOK

\* Every list that lives on is as it was, or later.
Advance ==
  \A i \in Live' :
    /\ i \in Live /\ DOMAIN ec2'[i] = ListFields /\ ec2'[i].version \in Nat
    /\ Later(ec2'[i], ec2[i])

LEMMA AdvanceIs ==
  ASSUME Lists, NEW i \in Ids, NEW obj, ec2' \in {ec2, [ec2 EXCEPT ![i] = obj]},
         obj.live => /\ i \in Live /\ DOMAIN obj = ListFields /\ obj.version \in Nat
                     /\ Later(obj, ec2[i])
  PROVE  Advance /\ ListsOK'
<1>1. DOMAIN ec2 = Ids /\ ListsOK
  BY DEF Lists, ListInv, Frame, WellFormedAll, EC2WellFormed
<1>2. ASSUME NEW j \in Live, ec2'[j] = ec2[j]
      PROVE  DOMAIN ec2'[j] = ListFields /\ ec2'[j].version \in Nat /\ Later(ec2'[j], ec2[j])
  BY <1>1, <1>2 DEF ListsOK, Later
<1>3. CASE ec2' = ec2
  BY <1>2, <1>3 DEF Advance, ListsOK, Live
<1>4. CASE ec2' = [ec2 EXCEPT ![i] = obj]
  <2>1. ec2'[i] = obj /\ \A j \in Ids : j # i => ec2'[j] = ec2[j]
    BY <1>1, <1>4
  <2>2. ASSUME NEW j \in Live'
        PROVE  /\ j \in Live /\ DOMAIN ec2'[j] = ListFields /\ ec2'[j].version \in Nat
               /\ Later(ec2'[j], ec2[j])
    <3>1. CASE j = i
      BY <2>1, <2>2, <3>1 DEF Live
    <3>2. CASE j # i
      <4>1. j \in Live /\ ec2'[j] = ec2[j]
        BY <2>1, <2>2, <3>2 DEF Live
      <4> QED BY <1>2, <4>1
    <3> QED BY <3>1, <3>2
  <2> QED BY <2>2 DEF Advance, ListsOK
<1> QED BY <1>3, <1>4

LEMMA SameLists ==
  ASSUME Lists, UNCHANGED ec2
  PROVE  Advance /\ ListsOK' /\ Live' = Live
<1>1. ListsOK
  BY DEF Lists, ListInv
<1> QED BY <1>1 DEF ListsOK, Advance, Later, Live

\* The worker has read nothing, or forgotten it.
LEMMA NothingRead ==
  ASSUME ListsOK',
         w'.pc \in {"idle", "describe", "manage", "create", "release"} \cup Ends
  PROVE  Locked'
BY DEF Locked, ListStageOK, LockOK, ListStages, Ends, At

\* The worker goes on with what it has read, and, perhaps, the entries of today.
LEMMA LockStays ==
  ASSUME Lists, w.pc \in {"entries", "found", "plan"}, Advance, ListsOK', w'.id = w.id,
         \/ w'.seen = w.seen
         \/ w'.seen = [w.seen EXCEPT !.entries = Obj.entries] /\ UNCHANGED ec2,
         w'.pc \in {"found", "plan"} \/ (w'.pc = "entries" /\ w.pc = "entries"),
         w'.pc = "plan" => w'.mode = "update" /\ IsPlan(w'.plan, ListOps)
  PROVE  Locked'
<1>1. ListStageOK'
  BY DEF ListStageOK, ListStages, At
<1>2. ASSUME w.id \in Live'
      PROVE  DOMAIN w'.seen = ListFields /\ w'.seen.version \in Nat /\ Later(Obj', w'.seen)
  <2>1. w.id \in Live /\ Obj' = ec2'[w.id] /\ Obj'.version \in Nat /\ Later(Obj', Obj)
    BY <1>2 DEF Advance, Obj
  <2>2. /\ DOMAIN w.seen = ListFields /\ w.seen.version \in Nat /\ Later(Obj, w.seen)
        /\ Obj.version \in Nat
    BY <2>1 DEF Lists, ListInv, ListsOK, LockOK, Obj
  <2>3. CASE w'.seen = w.seen
    BY <2>1, <2>2, <2>3 DEF Later
  <2>4. CASE w'.seen = [w.seen EXCEPT !.entries = Obj.entries] /\ UNCHANGED ec2
    <3>1. /\ DOMAIN w'.seen = ListFields /\ w'.seen.version = w.seen.version
          /\ w'.seen.state = w.seen.state /\ w'.seen.entries = Obj.entries
      BY <2>2, <2>4 DEF ListFields
    <3>2. Obj' = Obj
      BY <2>1, <2>4 DEF Obj
    <3> QED BY <2>2, <3>1, <3>2 DEF Later
  <2> QED BY <2>3, <2>4
<1>3. LockOK'
  BY <1>2 DEF LockOK
<1> QED BY <1>1, <1>3 DEF Locked

\* A call of the plan that leaves the list as it was, or later.
LEMMA ListCallOK ==
  ASSUME Lists, At("plan"), w.plan # <<>>, NEW obj, NEW next,
         Call(obj, next, onError) \/ Go(onError) \/ Go(next),
         obj.live => DOMAIN obj = DOMAIN Obj /\ obj.version = Obj.version /\ Later(obj, Obj)
                     /\ Obj.live,
         next.pc = "plan", next.mode = w.mode, next.id = w.id, next.seen = w.seen,
         next.plan = Tail(w.plan)
  PROVE  Locked'
<1>1. /\ ~At("idle") /\ w.id \in Ids /\ w.mode = "update" /\ IsPlan(w.plan, ListOps)
      /\ ListsOK
  BY DoingIs DEF Lists, ListInv, ListStageOK
<1>2. ec2' \in {ec2, [ec2 EXCEPT ![w.id] = obj]} /\ w' \in {next, onError}
  BY DEF Call, Go
<1>3. Advance /\ ListsOK'
  <2>1. obj.live => /\ w.id \in Live /\ DOMAIN obj = ListFields /\ obj.version \in Nat
                    /\ Later(obj, ec2[w.id])
    BY <1>1 DEF ListsOK, Live, Obj
  <2> QED BY <1>1, <1>2, <2>1, AdvanceIs
<1>4. CASE w' = onError
  <2>1. w'.pc = "failed"
    BY <1>1, <1>4, onErrorIs DEF Lists
  <2> QED BY <1>3, <2>1, NothingRead DEF Ends
<1>5. CASE w' = next
  <2>1. IsPlan(w'.plan, ListOps)
    BY <1>1, <1>5, TailIsPlan
  <2> QED BY <1>1, <1>3, <1>5, <2>1, LockStays DEF At
<1> QED BY <1>2, <1>4, <1>5

LEMMA DoneIs ==
  ASSUME Frame, At("plan"), NEW v
  PROVE  \A next \in {Done, [Done EXCEPT !.version = v]} :
           /\ next.pc = "plan" /\ next.mode = w.mode /\ next.id = w.id /\ next.seen = w.seen
           /\ next.plan = Tail(w.plan)
<1> DEFINE d == Done
<1>1. /\ DOMAIN d = WorkerFields /\ d.pc = "plan" /\ d.mode = w.mode /\ d.id = w.id
      /\ d.seen = w.seen /\ d.plan = Tail(w.plan)
  BY DoingIs DEF Done, WorkerFields, At
<1> HIDE DEF d
<1>2. \A next \in {d, [d EXCEPT !.version = v]} :
        /\ next.pc = "plan" /\ next.mode = w.mode /\ next.id = w.id /\ next.seen = w.seen
        /\ next.plan = Tail(w.plan)
  BY <1>1 DEF WorkerFields
<1> QED BY <1>2 DEF d

LEMMA ListTagsOK ==
  ASSUME Lists, syncTags
  PROVE  Locked'
<1> DEFINE removed == Obj.tags \ (w.seen.tags \ w.spec.tags)
           synced  == removed \cup (w.spec.tags \ w.seen.tags)
           obj(tags) == [Obj EXCEPT !.tags = tags]
<1>1. /\ At("plan") /\ w.plan # <<>> /\ ~At("idle") /\ w.id \in Ids /\ "live" \in DOMAIN Obj
      /\ Frame /\ ListsOK
  BY DoingIs DEF Lists, ListInv, syncTags, Doing, WellFormed
<1>2. \A tags : obj(tags).live =>
        /\ DOMAIN obj(tags) = DOMAIN Obj /\ obj(tags).version = Obj.version
        /\ Later(obj(tags), Obj) /\ Obj.live
  <2>1. Obj.live => DOMAIN Obj = ListFields /\ Obj.version \in Nat
    BY <1>1 DEF ListsOK, Live, Obj
  <2> QED BY <1>1, <2>1 DEF ListFields, Later
<1>3. CASE Call(obj(synced), Done, onError) \/ Go(onError)
  <2> DEFINE o == obj(synced)
             d == Done
  <2>1. o.live => /\ DOMAIN o = DOMAIN Obj /\ o.version = Obj.version /\ Later(o, Obj)
                  /\ Obj.live
    BY <1>2
  <2>2. /\ d.pc = "plan" /\ d.mode = w.mode /\ d.id = w.id /\ d.seen = w.seen
        /\ d.plan = Tail(w.plan)
    BY <1>1, DoneIs
  <2>3. Call(o, d, onError) \/ Go(onError)
    BY <1>3
  <2> HIDE DEF o, d
  <2> QED BY <1>1, <2>1, <2>2, <2>3, ListCallOK
<1>4. CASE w' = onError /\ ec2' = [ec2 EXCEPT ![w.id].tags = removed]
  <2> DEFINE o == obj(removed)
  <2>1. ec2' \in {ec2, [ec2 EXCEPT ![w.id] = o]}
    BY <1>4 DEF Obj
  <2>2. o.live => /\ w.id \in Live /\ DOMAIN o = ListFields /\ o.version \in Nat
                  /\ Later(o, ec2[w.id])
    BY <1>1, <1>2 DEF ListsOK, Live, Obj
  <2> HIDE DEF o
  <2>3. ListsOK'
    BY <1>1, <2>1, <2>2, AdvanceIs
  <2>4. w'.pc = "failed"
    BY <1>1, <1>4, onErrorIs
  <2> QED BY <2>3, <2>4, NothingRead DEF Ends
<1> QED BY <1>3, <1>4 DEF syncTags

LEMMA ListRuntimeOK ==
  ASSUME Lists, RuntimeStep
  PROVE  Locked'
<1>1. CASE syncTags
  BY <1>1, ListTagsOK
<1>2. CASE returnDesired
  <2> DEFINE next == [Done EXCEPT !.version = cr.version]
  <2>1. At("plan") /\ w.plan # <<>> /\ Go(next)
    BY <1>2 DEF returnDesired, Doing
  <2>2. /\ next.pc = "plan" /\ next.mode = w.mode /\ next.id = w.id /\ next.seen = w.seen
        /\ next.plan = Tail(w.plan)
    BY <2>1, DoneIs DEF Lists
  <2> HIDE DEF next
  <2>3. ~Gone.live
    BY GoneIsDead
  <2> QED BY <2>1, <2>2, <2>3, ListCallOK
<1>3. CASE ~syncTags /\ ~returnDesired
  <2>1. UNCHANGED ec2
    BY <1>3 DEF RuntimeStep, Begin, setResourceManaged, finish, setResourceUnmanaged,
                PatchStatus, Go
  <2>2. w'.pc \in {"idle", "describe", "create"} \cup Ends
    <3>1. CASE Begin \/ setResourceUnmanaged \/ PatchStatus
      BY <3>1, IdleIs DEF Begin, setResourceUnmanaged, PatchStatus, Go, IdleWorker
    <3>2. CASE setResourceManaged
      BY <3>2, IdleIs, WorkerIs DEF setResourceManaged, At, Lists, WorkerFields
    <3>3. CASE finish
      BY <3>3, DoingIs DEF finish, Go, Over, Lists, WorkerFields
    <3> QED BY <1>3, <3>1, <3>2, <3>3 DEF RuntimeStep
  <2> QED BY <2>1, <2>2, SameLists, NothingRead
<1> QED BY <1>1, <1>2, <1>3

LEMMA ListFindOK ==
  ASSUME Lists, sdkFindManagedPrefixList
  PROVE  Locked'
<1> DEFINE read == [Found EXCEPT !.pc = "entries"]
<1>1. ~At("idle") /\ DOMAIN w = WorkerFields /\ UNCHANGED ec2
  BY WorkerIs DEF Lists, sdkFindManagedPrefixList, Describe, At, Go, Unread
<1>2. ListsOK /\ ListsOK' /\ Live' = Live
  BY <1>1, SameLists DEF Lists, ListInv
<1>3. CASE w' = onError \/ w' = NotFound
  <2>1. w'.pc \in {"failed", "manage", "release"}
    BY <1>1, <1>3, onErrorIs DEF Lists, NotFound, WorkerFields
  <2> QED BY <1>2, <2>1, NothingRead DEF Ends
<1>4. CASE w' = read
  <2>1. w'.pc = "entries" /\ w'.id = w.id /\ w'.seen = Obj
    <3> DEFINE f == Found
    <3>1. DOMAIN f = WorkerFields /\ f.id = w.id /\ f.seen = Obj
      BY <1>1 DEF Found, WorkerFields
    <3> HIDE DEF f
    <3>2. w' = [f EXCEPT !.pc = "entries"]
      BY <1>4 DEF f
    <3> QED BY <3>1, <3>2 DEF WorkerFields
  <2>2. w.id \in Live => /\ DOMAIN Obj = ListFields /\ Obj.version \in Nat
                         /\ Later(Obj, Obj) /\ Obj' = Obj
    BY <1>1, <1>2, <2>1 DEF ListsOK, Later, Obj
  <2>3. LockOK'
    BY <1>2, <2>1, <2>2 DEF LockOK
  <2>4. ListStageOK'
    BY <2>1 DEF ListStageOK, ListStages, At
  <2> QED BY <1>2, <2>3, <2>4 DEF Locked
<1> QED BY <1>3, <1>4 DEF sdkFindManagedPrefixList, Describe, Go, Unread

LEMMA ReportedGoesOn ==
  ASSUME Frame, ~At("idle"), NEW final
  PROVE  LET r == Reported(final)
         IN  /\ DOMAIN r = WorkerFields /\ r.pc = w.pc /\ r.mode = w.mode /\ r.id = w.id
             /\ r.seen = w.seen /\ r.plan = w.plan
BY WorkerIs DEF Reported, WorkerFields

LEMMA ListEntriesOK ==
  ASSUME Lists, getManagedPrefixListEntries
  PROVE  Locked'
<1> DEFINE r == Reported(Final(w.seen))
           read == [r EXCEPT !.pc = "found", !.seen.entries = Obj.entries]
<1>1. ~At("idle") /\ At("entries") /\ UNCHANGED ec2 /\ (w' = read \/ w' = onError)
  BY DEF getManagedPrefixListEntries, At, Go, Unread
<1>2. Advance /\ ListsOK'
  BY <1>1, SameLists
<1>3. CASE w' = onError
  <2>1. w'.pc = "failed"
    BY <1>1, <1>3, onErrorIs DEF Lists
  <2> QED BY <1>2, <2>1, NothingRead DEF Ends
<1>4. CASE w' = read
  <2>1. DOMAIN r = WorkerFields /\ r.id = w.id /\ r.seen = w.seen
    BY <1>1, ReportedGoesOn DEF Lists
  <2> HIDE DEF r
  <2>2. /\ w'.pc = "found" /\ w'.id = w.id
        /\ w'.seen = [w.seen EXCEPT !.entries = Obj.entries]
    BY <1>4, <2>1 DEF WorkerFields
  <2> QED BY <1>1, <1>2, <2>2, LockStays DEF At
<1> QED BY <1>1, <1>3, <1>4

LEMMA ListCreateOK ==
  ASSUME Lists, sdkCreateManagedPrefixList
  PROVE  Locked'
<1> DEFINE next == [w EXCEPT !.pc = "requeue", !.version = 0]
<1>1. /\ ~At("idle") /\ DOMAIN w = WorkerFields /\ w.mode = "create" /\ DOMAIN ec2 = Ids
      /\ ListsOK
  BY WorkerIs DEF Lists, ListInv, sdkCreateManagedPrefixList, At, Frame, WellFormedAll,
                  EC2WellFormed
<1>2. CreateFailed.pc = "failed"
  BY <1>1, onErrorIs DEF Lists, onError
<1>3. w'.pc \in Ends
  <2> DEFINE n == next
  <2>1. DOMAIN n = WorkerFields /\ n.pc = "requeue"
    BY <1>1 DEF WorkerFields
  <2>2. w' = CreateFailed \/ w' = [n EXCEPT !.id = nextId]
    BY DEF sdkCreateManagedPrefixList, CreateObject
  <2> HIDE DEF n
  <2> QED BY <1>2, <2>1, <2>2 DEF Ends, WorkerFields
<1>4. ec2' = ec2 \/ (nextId \in Ids /\ ec2' = [ec2 EXCEPT ![nextId] = newManagedPrefixList])
  BY DEF sdkCreateManagedPrefixList, CreateObject
<1>5. DOMAIN newManagedPrefixList = ListFields /\ newManagedPrefixList.version = 1
  BY DEF newManagedPrefixList, ListFields
<1>6. ListsOK'
  BY <1>1, <1>4, <1>5 DEF ListsOK, Live
<1> QED BY <1>3, <1>6, NothingRead

LEMMA ListUpdateOK ==
  ASSUME Lists, customUpdateManagedPrefixList
  PROVE  Locked'
<1> DEFINE tags   == "tags" \in newManagedPrefixListDelta
           modify == newManagedPrefixListDelta \cap {"entries", "max"} # {}
           a == When(tags, "tags", {})
           b == When(modify, "modifyList", {})
           c == When(tags /\ ~modify, "desired", {})
           calls == a \o b \o c
<1>1. /\ ~At("idle") /\ DOMAIN w = WorkerFields /\ w.pc = "found" /\ w.mode = "update"
      /\ UNCHANGED ec2
  BY WorkerIs DEF Lists, customUpdateManagedPrefixList, Updating, At, Go
<1>2. Advance /\ ListsOK'
  BY <1>1, SameLists
<1>3. PICK end, blind : w' = [Plan(calls) EXCEPT !.end = end, !.blind = blind]
  BY DEF customUpdateManagedPrefixList, Go
<1>7. IsPlan(a, {"tags"}) /\ IsPlan(b, {"modifyList"}) /\ IsPlan(c, {"desired"})
  BY WhenIsPlan
<1> HIDE DEF a, b, c
<1>4. IsPlan(a, ListOps) /\ IsPlan(b, ListOps) /\ IsPlan(c, ListOps)
  BY <1>7, SubPlan DEF ListOps
<1>5. IsPlan(calls, ListOps)
  BY <1>4, ConcatIsPlan
<1> HIDE DEF calls
<1>6. w'.pc = "plan" /\ w'.mode = "update" /\ w'.id = w.id /\ w'.seen = w.seen /\ w'.plan = calls
  <2> DEFINE p == Plan(calls)
  <2>1. /\ DOMAIN p = WorkerFields /\ p.pc = "plan" /\ p.mode = "update" /\ p.id = w.id
        /\ p.seen = w.seen /\ p.plan = calls
    BY <1>1 DEF Plan, WorkerFields
  <2> HIDE DEF p
  <2>2. w' = [p EXCEPT !.end = end, !.blind = blind]
    BY <1>3 DEF p
  <2> QED BY <2>1, <2>2 DEF WorkerFields
<1> QED BY <1>1, <1>2, <1>5, <1>6, LockStays

LEMMA ListModifyOK ==
  ASSUME Lists, ModifyManagedPrefixList
  PROVE  Locked'
<1> DEFINE changed(entries) ==
             [Obj EXCEPT !.state = "modify-in-progress", !.max = w.spec.max, !.next = entries]
           entries == (Obj.entries \ computeEntriesToRemove(w.spec.entries, w.seen.entries))
                        \cup computeEntriesToAdd(w.spec.entries, w.seen.entries)
           obj  == changed(entries)
           r    == Reported(FALSE)
           next == [r EXCEPT !.plan = Tail(@)]
<1>1. /\ At("plan") /\ w.plan # <<>> /\ ~At("idle") /\ w.id \in Ids /\ "live" \in DOMAIN Obj
      /\ Frame /\ ListsOK
  BY DoingIs DEF Lists, ListInv, ModifyManagedPrefixList, Doing, WellFormed
<1>2. Call(obj, next, onError) \/ Go(onError)
  BY DEF ModifyManagedPrefixList
<1>3. obj.live => /\ DOMAIN obj = DOMAIN Obj /\ obj.version = Obj.version /\ Later(obj, Obj)
                  /\ Obj.live
  <2> HIDE DEF entries
  <2>1. Obj.live => DOMAIN Obj = ListFields /\ Obj.version \in Nat
    BY <1>1 DEF ListsOK, Live, Obj
  <2> QED BY <1>1, <2>1 DEF ListFields, Later
<1>4. /\ next.pc = "plan" /\ next.mode = w.mode /\ next.id = w.id /\ next.seen = w.seen
      /\ next.plan = Tail(w.plan)
  <2>1. /\ DOMAIN r = WorkerFields /\ r.pc = "plan" /\ r.mode = w.mode /\ r.id = w.id
        /\ r.seen = w.seen /\ r.plan = w.plan
    BY <1>1, ReportedGoesOn DEF At
  <2> HIDE DEF r
  <2> QED BY <2>1 DEF WorkerFields
<1> HIDE DEF obj, next
<1> QED BY <1>1, <1>2, <1>3, <1>4, ListCallOK

LEMMA ListDeleteOK ==
  ASSUME Lists, sdkDeleteManagedPrefixList
  PROVE  Locked'
<1> DEFINE next == [w EXCEPT !.pc = "release"]
<1>1. /\ ~At("idle") /\ w.id \in Ids /\ DOMAIN w = WorkerFields
      /\ Call(Gone, next, onError) \/ Go(onError)
  BY InHand DEF Lists, sdkDeleteManagedPrefixList, Deleting, Delete, At, Working
<1>2. ec2' \in {ec2, [ec2 EXCEPT ![w.id] = Gone]} /\ w' \in {next, onError}
  BY <1>1 DEF Call, Go
<1>3. ListsOK'
  BY <1>1, <1>2, AdvanceIs, GoneIsDead
<1>4. w'.pc \in {"release", "failed"}
  BY <1>1, <1>2, onErrorIs DEF Lists, WorkerFields
<1> QED BY <1>3, <1>4, NothingRead DEF Ends

\* What EC2, the user and other clients do meanwhile.
LEMMA MeanwhileOK ==
  ASSUME Lists, Advance, ListsOK', w'.pc = w.pc, w'.mode = w.mode, w'.id = w.id,
         w'.seen = w.seen, w'.plan = w.plan
  PROVE  Locked'
<1>1. ListStageOK
  BY DEF Lists, ListInv
<1>2. CASE w.pc \in {"entries", "found", "plan"}
  BY <1>1, <1>2, LockStays DEF ListStageOK, At
<1>3. CASE w.pc \notin {"entries", "found", "plan"}
  BY <1>1, <1>3, NothingRead DEF ListStageOK, ListStages
<1> QED BY <1>2, <1>3

LEMMA ListWorldOK ==
  ASSUME Lists, WorldStep
  PROVE  Locked'
<1>1. UNCHANGED ec2
  BY DEF WorldStep, Crash, Unread, EditSpec, DeleteCR, RecreateCR
<1>2. CASE Crash
  <2>1. w'.pc = "idle"
    BY <1>2, IdleIs DEF Crash, Unread
  <2> QED BY <1>1, <2>1, SameLists, NothingRead
<1>3. CASE ~Crash
  <2>1. UNCHANGED w
    BY <1>3 DEF WorldStep, EditSpec, DeleteCR, RecreateCR
  <2> QED BY <1>1, <2>1, SameLists, MeanwhileOK
<1> QED BY <1>2, <1>3

LEMMA ListDriftOK ==
  ASSUME Lists, NEW i \in Live, ManagedPrefixListDrift(i)
  PROVE  Locked'
<1>1. PICK e : OtherClient(i, [ec2[i] EXCEPT !.state = "modify-in-progress", !.next = @ \ {e}])
  BY DEF ManagedPrefixListDrift
<1> DEFINE next == ec2[i].next \ {e}
           obj  == [ec2[i] EXCEPT !.state = "modify-in-progress", !.next = next]
<1>2. /\ OtherClient(i, obj) /\ i \in Ids /\ DOMAIN w = WorkerFields
      /\ DOMAIN ec2[i] = ListFields /\ ec2[i].version \in Nat
  BY <1>1 DEF Lists, ListInv, ListsOK, Live, Frame, WellFormedAll, WorkerWellFormed
<1> HIDE DEF next
<1>3. DOMAIN obj = ListFields /\ obj.version \in Nat /\ Later(obj, ec2[i])
  BY <1>2 DEF ListFields, Later
<1> HIDE DEF obj
<1>6. ec2' \in {ec2, [ec2 EXCEPT ![i] = obj]}
  BY <1>2 DEF OtherClient
<1>4. Advance /\ ListsOK'
  BY <1>2, <1>3, <1>6, AdvanceIs
<1>5. /\ w'.pc = w.pc /\ w'.mode = w.mode /\ w'.id = w.id /\ w'.seen = w.seen
      /\ w'.plan = w.plan
  BY <1>2 DEF OtherClient, WorkerFields
<1> QED BY <1>4, <1>5, MeanwhileOK

\* A change that is completed makes a new version, unless it changes nothing.
LEMMA ListSettlesOK ==
  ASSUME Lists, NEW i \in Live, ManagedPrefixListSettles(i) \/ ManagedPrefixListFails(i)
  PROVE  Locked'
<1>1. i \in Ids /\ DOMAIN ec2[i] = ListFields /\ ec2[i].version \in Nat /\ DOMAIN ec2 = Ids
  BY DEF Lists, ListInv, ListsOK, Live, Frame, WellFormedAll, EC2WellFormed
<1> DEFINE made    == [ec2[i] EXCEPT !.state = "create-complete", !.entries = ec2[i].next]
           version == ec2[i].version + (IF ec2[i].next # ec2[i].entries THEN 1 ELSE 0)
           changed == [ec2[i] EXCEPT !.state = "modify-complete", !.entries = ec2[i].next,
                                     !.version = version]
           failed  == [ec2[i] EXCEPT !.state = "modify-failed", !.next = ec2[i].entries]
<1>2. /\ UNCHANGED w
      /\ \/ ec2' = [ec2 EXCEPT ![i] = made] /\ ec2[i].state = "create-in-progress"
         \/ ec2' = [ec2 EXCEPT ![i] = changed]
         \/ ec2' = [ec2 EXCEPT ![i] = failed]
  <2>1. CASE ManagedPrefixListSettles(i)
    BY <1>1, <2>1 DEF ManagedPrefixListSettles, Background, ListFields
  <2>2. CASE ManagedPrefixListFails(i)
    BY <1>1, <2>2 DEF ManagedPrefixListFails
  <2> QED BY <2>1, <2>2
<1>3. /\ version \in Nat /\ ec2[i].version <= version
      /\ ec2[i].version = version => ec2[i].next = ec2[i].entries
  <2>1. CASE ec2[i].next = ec2[i].entries
    BY <1>1, <2>1
  <2>2. CASE ec2[i].next # ec2[i].entries
    <3>1. version = ec2[i].version + 1
      BY <2>2
    <3> HIDE DEF version
    <3> QED BY <1>1, <3>1
  <2> QED BY <2>1, <2>2
<1> HIDE DEF version
<1>4. DOMAIN made = ListFields /\ made.version \in Nat
  BY <1>1 DEF ListFields
<1>5. DOMAIN changed = ListFields /\ changed.version \in Nat /\ Later(changed, ec2[i])
  BY <1>1, <1>3 DEF ListFields, Later
<1>6. DOMAIN failed = ListFields /\ failed.version \in Nat /\ Later(failed, ec2[i])
  BY <1>1 DEF ListFields, Later
<1> HIDE DEF made, changed, failed
<1>7. Advance /\ ListsOK'
  <2>1. CASE ec2' = [ec2 EXCEPT ![i] = made] /\ ec2[i].state = "create-in-progress"
    <3>1. Later(made, ec2[i])
      BY <2>1 DEF Later
    <3>2. ec2' \in {ec2, [ec2 EXCEPT ![i] = made]}
      BY <2>1
    <3> QED BY <1>1, <1>4, <3>1, <3>2, AdvanceIs
  <2>2. CASE ec2' = [ec2 EXCEPT ![i] = changed]
    <3>1. ec2' \in {ec2, [ec2 EXCEPT ![i] = changed]}
      BY <2>2
    <3> QED BY <1>1, <1>5, <3>1, AdvanceIs
  <2>3. CASE ec2' = [ec2 EXCEPT ![i] = failed]
    <3>1. ec2' \in {ec2, [ec2 EXCEPT ![i] = failed]}
      BY <2>3
    <3> QED BY <1>1, <1>6, <3>1, AdvanceIs
  <2> QED BY <1>2, <2>1, <2>2, <2>3
<1> QED BY <1>2, <1>7, MeanwhileOK

\* A pass over a prefix list takes no step of another kind.
LEMMA ListStepsAre ==
  ASSUME Lists, Reconcile
  PROVE  RuntimeStep \/ ManagedPrefixListStep
<1>1. ASSUME ~At("idle") PROVE w.spec.kind = "managed_prefix_list"
  BY <1>1, WorkerIs DEF Lists
<1>2. ~At("associations") /\ ~At("version")
  BY DEF Lists, ListInv, ListStageOK, ListStages, Ends, At
<1>3. ASSUME NEW op, Doing(op) PROVE op \in ListOps
  <2>1. At("plan") /\ w.plan # <<>> /\ IsPlan(w.plan, ListOps)
    BY <1>3 DEF Doing, Lists, ListInv, ListStageOK
  <2>2. Head(w.plan) = w.plan[1] /\ 1 \in 1 .. Len(w.plan)
    BY <2>1, TailIsRest
  <2> QED BY <1>3, <2>1, <2>2, PlansAreSequences DEF Doing
<1>4. ASSUME NEW kind, kind # "managed_prefix_list", ~At("idle") PROVE ~Kind(kind)
  BY <1>1, <1>4 DEF Kind
<1>5. \A op : op \notin ListOps => ~Doing(op)
  BY <1>3
<1>6. ~RouteTableAssociationStep
  BY <1>2, <1>5
     DEF RouteTableAssociationStep, readRouteTables, updateRouteTableAssociations,
         disassociateRouteTable, associateRouteTable, ListOps
<1>7. ~SubnetStep
  BY <1>4, <1>5
     DEF SubnetStep, sdkFindSubnet, Describe, sdkCreateSubnet, customUpdateSubnet, Updating,
         updateSubnetAttribute, sdkDeleteSubnet, Deleting, At, ListOps
<1>8. ~InternetGatewayStep
  BY <1>4, <1>5
     DEF InternetGatewayStep, sdkFindInternetGateway, Describe, sdkCreateInternetGateway,
         customUpdateInternetGateway, Updating, detachFromVPC, attachToVPC,
         sdkDeleteInternetGateway, Deleting, At, Doing, ListOps
<1>9. ~DHCPOptionsStep
  BY <1>4, <1>5
     DEF DHCPOptionsStep, sdkFindDHCPOptions, Describe, sdkCreateDHCPOptions,
         customUpdateDHCPOptions, Updating, findAfterUpdate, attachVPC, detachVPC,
         sdkDeleteDHCPOptions, Deleting, At, Doing, ListOps
<1>10. ~NetworkACLStep
  <2>1. ~(\/ createEntry \/ deleteEntry \/ updateEntry \/ upsertNewAssociations
          \/ describeDefaultACL \/ deleteOldAssociations \/ findACLAfterUpdate
          \/ refuseEntries)
    BY <1>5 DEF createEntry, deleteEntry, updateEntry, upsertNewAssociations,
                describeDefaultACL, deleteOldAssociations, findACLAfterUpdate, refuseEntries, ListOps
  <2>2. ~(\/ sdkFindNetworkACL \/ sdkCreateNetworkACL \/ customUpdateNetworkAcl
          \/ sdkDeleteNetworkACL)
    BY <1>4 DEF sdkFindNetworkACL, Describe, sdkCreateNetworkACL, customUpdateNetworkAcl,
                Updating, sdkDeleteNetworkACL, Deleting, At, Doing
  <2> QED BY <2>1, <2>2 DEF NetworkACLStep
<1>11. ~InstanceStep
  BY <1>4, <1>5
     DEF InstanceStep, sdkFindInstance, Describe, sdkCreateInstance, customUpdateInstance,
         Updating, modifyInstanceAttributes, sdkDeleteInstance, Deleting, At, ListOps
<1>12. ~LaunchTemplateStep
  <2>1. ~(\/ setLatestLaunchTemplateAttributes \/ CreateLaunchTemplateVersion
          \/ updateDefaultVersion \/ returnNothing)
    BY <1>2, <1>5 DEF setLatestLaunchTemplateAttributes, CreateLaunchTemplateVersion,
                      updateDefaultVersion, returnNothing, ListOps
  <2>2. ~(\/ sdkFindLaunchTemplate \/ sdkCreateLaunchTemplate \/ patchSpec
          \/ sdkUpdateLaunchTemplate \/ sdkDeleteLaunchTemplate)
    BY <1>4 DEF sdkFindLaunchTemplate, Describe, sdkCreateLaunchTemplate, patchSpec,
                sdkUpdateLaunchTemplate, Updating, sdkDeleteLaunchTemplate, Deleting, At
  <2> QED BY <2>1, <2>2 DEF LaunchTemplateStep
<1>13. ~CapacityReservationStep
  BY <1>4, <1>5
     DEF CapacityReservationStep, sdkFindCapacityReservation, Describe,
         sdkCreateCapacityReservation, sdkUpdateCapacityReservation, Updating,
         modifyCapacityReservation, findReservationAfterUpdate,
         sdkDeleteCapacityReservation, Deleting, At, ListOps
<1> QED BY <1>6, <1>7, <1>8, <1>9, <1>10, <1>11, <1>12, <1>13 DEF Reconcile

LEMMA ListInvInit == Init => ListInv
<1> SUFFICES ASSUME Init PROVE ListInv
  OBVIOUS
<1>1. w.pc = "idle" /\ \A i \in Ids : ~ec2[i].live
  BY IdleIs, GoneIsDead DEF Init
<1> QED BY <1>1 DEF ListInv, ListsOK, ListStageOK, ListStages, LockOK, Live, At

LEMMA ListInvStep ==
  ASSUME Frame, ListInv, [Next]_vars
  PROVE  ListInv'
<1> SUFFICES ASSUME cr'.spec.kind = "managed_prefix_list"
             PROVE  Locked'
  BY DEF ListInv, Locked
<1>1. Lists /\ cr.spec.kind = "managed_prefix_list"
  BY KindStays DEF Lists
<1>2. CASE UNCHANGED vars
  BY <1>1, <1>2, SameLists, MeanwhileOK DEF vars
<1>3. CASE Reconcile
  BY <1>1, <1>3, ListStepsAre, ListRuntimeOK, ListFindOK, ListEntriesOK, ListCreateOK,
     ListUpdateOK, ListModifyOK, ListDeleteOK
     DEF ManagedPrefixListStep
<1>4. CASE WorldStep
  BY <1>1, <1>4, ListWorldOK
<1>5. CASE Drift
  <2>1. PICK i \in Live : ManagedPrefixListDrift(i)
    BY <1>1, <1>5 DEF Drift
  <2> QED BY <1>1, <2>1, ListDriftOK
<1>6. CASE (\E i \in Ids : Settle(i)) \/ Fails
  <2>1. PICK i \in Live : ManagedPrefixListSettles(i) \/ ManagedPrefixListFails(i)
    BY <1>1, <1>6 DEF Settle, Fails, Live
  <2> QED BY <1>1, <2>1, ListSettlesOK
<1> QED BY <1>2, <1>3, <1>4, <1>5, <1>6 DEF Next

\* The only step that may make a change of a list, and is none of another client's.
LEMMA ModifyingIs ==
  ASSUME Doing("modifyList"), Reconcile
  PROVE  ModifyManagedPrefixList
<1>1. /\ ~At("idle") /\ ~At("describe") /\ ~At("associations") /\ ~At("version")
      /\ ~At("entries") /\ ~At("found") /\ ~At("manage") /\ ~At("create")
      /\ ~At("patchSpec") /\ ~At("release") /\ w.pc \notin Ends /\ w.plan # <<>>
  BY DEF Doing, At, Ends
<1>2. \A op : op # "modifyList" => ~Doing(op)
  BY DEF Doing
<1>3. ~RuntimeStep
  BY <1>1, <1>2 DEF RuntimeStep, Begin, setResourceManaged, syncTags, returnDesired, finish,
                    setResourceUnmanaged, PatchStatus, Ends
<1>4. ~RouteTableAssociationStep
  BY <1>1, <1>2 DEF RouteTableAssociationStep, readRouteTables, updateRouteTableAssociations,
                    disassociateRouteTable, associateRouteTable
<1>5. ~SubnetStep
  BY <1>1, <1>2 DEF SubnetStep, sdkFindSubnet, Describe, sdkCreateSubnet, customUpdateSubnet,
                    Updating, updateSubnetAttribute, sdkDeleteSubnet, Deleting
<1>6. ~InternetGatewayStep
  BY <1>1, <1>2 DEF InternetGatewayStep, sdkFindInternetGateway, Describe,
                    sdkCreateInternetGateway, customUpdateInternetGateway, Updating,
                    detachFromVPC, attachToVPC, sdkDeleteInternetGateway, Deleting
<1>7. ~DHCPOptionsStep
  BY <1>1, <1>2 DEF DHCPOptionsStep, sdkFindDHCPOptions, Describe, sdkCreateDHCPOptions,
                    customUpdateDHCPOptions, Updating, findAfterUpdate, attachVPC,
                    detachVPC, sdkDeleteDHCPOptions, Deleting
<1>8. ~NetworkACLStep
  BY <1>1, <1>2 DEF NetworkACLStep, sdkFindNetworkACL, Describe, sdkCreateNetworkACL,
                    customUpdateNetworkAcl, Updating, createEntry, deleteEntry, updateEntry,
                    upsertNewAssociations, describeDefaultACL, deleteOldAssociations,
                    findACLAfterUpdate, refuseEntries, sdkDeleteNetworkACL, Deleting
<1>9. ~InstanceStep
  BY <1>1, <1>2 DEF InstanceStep, sdkFindInstance, Describe, sdkCreateInstance,
                    customUpdateInstance, Updating, modifyInstanceAttributes,
                    sdkDeleteInstance, Deleting
<1>10. ~LaunchTemplateStep
  BY <1>1, <1>2 DEF LaunchTemplateStep, sdkFindLaunchTemplate, Describe,
                    setLatestLaunchTemplateAttributes, sdkCreateLaunchTemplate, patchSpec,
                    sdkUpdateLaunchTemplate, Updating, CreateLaunchTemplateVersion,
                    updateDefaultVersion, returnNothing, sdkDeleteLaunchTemplate, Deleting
<1>11. ~CapacityReservationStep
  BY <1>1, <1>2 DEF CapacityReservationStep, sdkFindCapacityReservation, Describe,
                    sdkCreateCapacityReservation, sdkUpdateCapacityReservation, Updating,
                    modifyCapacityReservation, findReservationAfterUpdate,
                    sdkDeleteCapacityReservation, Deleting
<1>12. ManagedPrefixListStep => ModifyManagedPrefixList
  BY <1>1 DEF ManagedPrefixListStep, sdkFindManagedPrefixList, Describe,
              getManagedPrefixListEntries, sdkCreateManagedPrefixList,
              customUpdateManagedPrefixList, Updating, sdkDeleteManagedPrefixList, Deleting
<1> QED BY <1>3, <1>4, <1>5, <1>6, <1>7, <1>8, <1>9, <1>10, <1>11, <1>12 DEF Reconcile

\* What EC2 is about with a list ends in a state at rest.
LEMMA SettledIs ==
  ASSUME Lists, (\E i \in Ids : Settle(i)) \/ Fails, w.id \in Ids,
         Obj.state # "modify-in-progress"
  PROVE  ec2'[w.id].state # "modify-in-progress"
<1>1. DOMAIN ec2 = Ids
  BY DEF Lists, Frame, WellFormedAll, EC2WellFormed
<1>2. PICK i \in Live : ManagedPrefixListSettles(i) \/ ManagedPrefixListFails(i)
  BY DEF Settle, Fails, Live, Lists
<1>3. i \in Ids /\ DOMAIN ec2[i] = ListFields
  BY DEF Lists, ListInv, ListsOK, Live
<1>4. \A o : ec2' = [ec2 EXCEPT ![i] = o] /\ o.state # "modify-in-progress"
             => ec2'[w.id].state # "modify-in-progress"
  BY <1>1, <1>3 DEF Obj
<1>5. CASE ManagedPrefixListSettles(i)
  <2> DEFINE made    == [ec2[i] EXCEPT !.state = "create-complete", !.entries = ec2[i].next]
             changed == [ec2[i] EXCEPT !.state = "modify-complete", !.entries = ec2[i].next,
                           !.version = @ + (IF ec2[i].next # ec2[i].entries THEN 1 ELSE 0)]
  <2>1. made.state = "create-complete" /\ changed.state = "modify-complete"
    BY <1>3 DEF ListFields
  <2>2. ec2' = [ec2 EXCEPT ![i] = made] \/ ec2' = [ec2 EXCEPT ![i] = changed]
    BY <1>5 DEF ManagedPrefixListSettles, Background
  <2> HIDE DEF made, changed
  <2> QED BY <2>1, <2>2, <1>4
<1>6. CASE ManagedPrefixListFails(i)
  <2> DEFINE failed == [ec2[i] EXCEPT !.state = "modify-failed", !.next = ec2[i].entries]
  <2>1. failed.state = "modify-failed"
    BY <1>3 DEF ListFields
  <2>2. ec2' = [ec2 EXCEPT ![i] = failed]
    BY <1>1, <1>3, <1>6 DEF ManagedPrefixListFails
  <2> HIDE DEF failed
  <2> QED BY <2>1, <2>2, <1>4
<1> QED BY <1>2, <1>5, <1>6

\* What is sent of the change of a list that has the version read is what is declared.
LEMMA AcceptedIs ==
  ASSUME Lists, Reconcile, Doing("modifyList"), w.seen.state # "create-in-progress",
         Kind("managed_prefix_list"), Obj.state # "modify-in-progress",
         ec2'[w.id].state = "modify-in-progress"
  PROVE  ec2'[w.id].next = w.spec.entries
<1> DEFINE entries == (Obj.entries \ computeEntriesToRemove(w.spec.entries, w.seen.entries))
                        \cup computeEntriesToAdd(w.spec.entries, w.seen.entries)
           obj == [Obj EXCEPT !.state = "modify-in-progress", !.max = w.spec.max,
                              !.next = entries]
<1>1. ModifyManagedPrefixList
  BY ModifyingIs
<1>2. modifyAccepted
  <2> SUFFICES ASSUME ~modifyAccepted PROVE FALSE
    OBVIOUS
  <2>1. ec2' = ec2
    BY <1>1 DEF ModifyManagedPrefixList, Go
  <2> QED BY <2>1 DEF Obj
<1>3. ec2' = [ec2 EXCEPT ![w.id] = obj] \/ ec2' = ec2
  BY <1>1, <1>2 DEF ModifyManagedPrefixList, Call, Go
<1>4. ec2' # ec2
  BY DEF Obj
<1>5. w.id \in Live /\ w.id \in Ids /\ DOMAIN ec2 = Ids /\ w.pc = "plan"
  BY <1>2, DoingIs DEF Lists, Frame, WellFormedAll, EC2WellFormed, Live, Obj,
                       modifyAccepted, Doing, At
<1>6. DOMAIN Obj = ListFields
  BY <1>5 DEF Lists, ListInv, ListsOK, Obj
<1>7. obj.next = entries
  BY <1>6 DEF ListFields
<1>8. Later(Obj, w.seen)
  BY <1>5 DEF Lists, ListInv, LockOK
<1>9. Obj.entries = w.seen.entries
  BY <1>2, <1>8 DEF Later, modifyAccepted
<1>10. entries = w.spec.entries
  BY <1>9 DEF computeEntriesToRemove, computeEntriesToAdd
<1> HIDE DEF entries, obj
<1> QED BY <1>3, <1>4, <1>5, <1>7, <1>10

LEMMA LockStep ==
  ASSUME Frame, Counted, ListInv, [Next]_vars,
         Kind("managed_prefix_list"), Doing("modifyList"),
         w.seen.state # "create-in-progress", drifts' = drifts,
         Obj.state # "modify-in-progress", ec2'[w.id].state = "modify-in-progress"
  PROVE  ec2'[w.id].next = w.spec.entries
<1>1. cr.spec.kind = "managed_prefix_list" /\ w.id \in Ids
  BY DoingIs, WorkerIs DEF Kind, Doing
<1>2. ec2' # ec2
  BY DEF Obj
<1>3. ~Drift
  BY <1>2, DriftCounts DEF Counted
<1>4. ~WorldStep
  BY <1>2 DEF WorldStep, Crash, EditSpec, DeleteCR, RecreateCR, Unread
<1>5. ~((\E i \in Ids : Settle(i)) \/ Fails)
  BY <1>1, SettledIs DEF Lists
<1>6. Reconcile
  BY <1>2, <1>3, <1>4, <1>5 DEF Next, vars
<1> QED BY <1>1, <1>6, AcceptedIs DEF Lists

\* The version read locks a prefix list: a change of the controller that EC2 accepts
\* leads to exactly the declared entries, whatever other clients did to the list
\* between the two reads of sdkFind and the call, and however often
\* (customUpdateManagedPrefixList, ModifyManagedPrefixList and its CurrentVersion).
THEOREM ChangeIsLockedCorrect == Spec => ChangeIsLocked
<1>1. Init => Counted
  BY DEF Init, Counted
<1>2. Frame /\ Counted /\ ListInv /\ [Next]_vars
        => (/\ Kind("managed_prefix_list") /\ Doing("modifyList")
            /\ w.seen.state # "create-in-progress" /\ drifts' = drifts
            /\ Obj.state # "modify-in-progress" /\ ec2'[w.id].state = "modify-in-progress"
            => ec2'[w.id].next = w.spec.entries)
  BY LockStep
<1>3. Counted /\ [Next]_vars => Counted'
  BY CountedStep
<1>4. Frame /\ ListInv /\ [Next]_vars => ListInv'
  BY ListInvStep
<1> QED BY <1>1, <1>2, <1>3, <1>4, ListInvInit, FrameCorrect, PTL DEF Spec, ChangeIsLocked

----------------------------------------------------------------------------
(* What an update that reports success leaves: the invariant.  A pass is   *)
(* followed from what sdkFind read, through the calls that are left of its *)
(* plan, to its end: whatever is not yet as declared has its call left.    *)

ObjectFields(kind) ==
  {"live", "tags"} \cup
  CASE kind = "subnet"               -> {"tables", "attrs"}
    [] kind = "internet_gateway"     -> {"tables", "vpc"}
    [] kind = "dhcp_options"         -> {"vpcs"}
    [] kind = "network_acl"          -> {"entries", "subnets"}
    [] kind = "instance"             -> {"state", "attrs"}
    [] kind = "launch_template"      -> {"data", "default"}
    [] kind = "managed_prefix_list"  -> {"state", "version", "entries", "next", "max"}
    [] kind = "capacity_reservation" -> {"count", "info"}
    [] OTHER                         -> {}

Attributes == {InstanceAttributes[i] : i \in DOMAIN InstanceAttributes}

ObjectIs(obj, kind) ==
  /\ DOMAIN obj = ObjectFields(kind)
  /\ kind \notin {"instance", "capacity_reservation"} => obj.live
  /\ kind = "subnet" => obj.attrs \subseteq SubnetAttributes
  /\ kind = "instance" =>
       /\ DOMAIN obj.attrs = Attributes
       /\ obj.live <=> obj.state \in {"pending", "running", "stopping", "stopped"}

ObjectsAre == \A i \in Ids : ec2[i] = Gone \/ ObjectIs(ec2[i], cr.spec.kind)

\* The calls of a plan, and those that a plan of this kind may hold.  A call that
\* puts something in place puts in place what is declared.
Calls(plan) == {plan[i] : i \in DOMAIN plan}

KindOps(kind) ==
  CASE kind = "subnet" -> {"routeTables", "disassociate", "associate", "tags", "attribute"}
    [] kind = "internet_gateway" ->
         {"detach", "attach", "routeTables", "disassociate", "associate", "tags", "delete"}
    [] kind = "dhcp_options" -> {"attachVPC", "detachVPC", "find", "tags", "delete"}
    [] kind = "network_acl" ->
         {"tags", "refuse", "createEntry", "deleteEntry", "updateEntry", "upsert",
          "defaultACL", "deleteOld", "findACL", "delete"}
    [] kind = "instance" -> {"tags", "modifyInstance"}
    [] kind = "launch_template" -> {"tags", "newVersion", "desired", "defaultVersion", "nothing"}
    [] kind = "managed_prefix_list" -> {"tags", "modifyList", "desired"}
    [] kind = "capacity_reservation" -> {"tags", "modifyInfo", "modifyCount", "findReservation"}
    [] OTHER -> {}

Fits(call, spec) ==
  /\ call[1] = "associate"      => call[2] \in spec.tables
  /\ call[1] = "attribute"      => call[2] \in SubnetAttributes
  /\ call[1] = "attach"         => call[2] = spec.vpc
  /\ call[1] = "attachVPC"      => call[2] \in spec.vpcs
  /\ call[1] = "upsert"         => call[2] \in spec.subnets
  /\ call[1] \in {"createEntry", "updateEntry"} => call[2] \in spec.entries
  /\ call[1] = "newVersion"     => call[2] = spec.data
  /\ call[1] = "defaultVersion" => call[2] = spec.default
  /\ call[1] = "modifyCount"    => call[2] = spec.count

Fitting(plan, spec) ==
  IsPlan(plan, KindOps(spec.kind)) /\ \A call \in Calls(plan) : Fits(call, spec)

IsListed(seen, kind) ==
  /\ kind = "dhcp_options" => IsFiniteSet(seen.vpcs)
  /\ kind = "network_acl" => IsFiniteSet(seen.entries) /\ IsFiniteSet(seen.subnets)

PassFits ==
  /\ At("associations") => w.spec.kind \in {"subnet", "internet_gateway"}
  /\ At("version") => Kind("launch_template")
  /\ At("entries") => Kind("managed_prefix_list")
  /\ At("plan") => Fitting(w.plan, w.spec)
  /\ w.pc \in {"describe", "entries"} \/ (At("found") /\ Kind("managed_prefix_list")) => ~w.blind
  /\ At("patchSpec") => w.mode = "create"
  /\ At("found") => IsListed(w.seen, w.spec.kind)

\* Between the reads: what has been read is there.
ReadIsThere ==
  /\ w.pc \in {"associations", "version"} /\ ~w.interfered => Obj # Gone /\ w.seen = Obj
  /\ At("entries") /\ ~w.interfered =>
       /\ Obj # Gone /\ "entries" \in DOMAIN w.seen
       /\ w.seen.tags = Obj.tags /\ w.seen.max = Obj.max
       /\ Final(w.seen) => Final(Obj)

\* The latest object, as the worker r has it, is what there is, field by field.
IsLatest(obj, r) ==
  LET kind == r.spec.kind
      seen == r.seen
  IN  /\ obj.tags = seen.tags
      /\ kind \in {"subnet", "internet_gateway"} /\ ~r.blind => obj.tables = seen.tables
      /\ kind = "subnet" => obj.attrs = seen.attrs
      /\ kind = "internet_gateway" => obj.vpc = seen.vpc
      /\ kind = "dhcp_options" => obj.vpcs = seen.vpcs
      /\ kind = "network_acl" => obj.entries = seen.entries /\ obj.subnets = seen.subnets
      /\ kind = "instance" =>
           /\ isRunning(obj) /\ isRunning(seen)
           /\ \A a \in Attributes \ {"DisableAPITermination"} : obj.attrs[a] = seen.attrs[a]
      /\ kind = "launch_template" =>
           obj.default = seen.default /\ (~r.blind => obj.data[Len(obj.data)] = seen.data)
      /\ kind = "managed_prefix_list" =>
           /\ r.end = "synced" => Final(seen)
           /\ obj.max = seen.max
           /\ Final(seen) => Final(obj) /\ obj.entries = seen.entries
      /\ kind = "capacity_reservation" => obj.count = seen.count

FoundIsThere ==
  At("found") /\ ~w.interfered /\ (Kind("instance") => w.end = "synced") =>
    Obj # Gone /\ IsLatest(Obj, w)

\* What is declared comes to be, by the calls that are left.  An instance is as
\* declared from the start: the pass that changes an attribute ends with an error.
SetComes(want, have, add, remove, left) ==
  /\ \A x \in want \ have : <<add, x>> \in left
  /\ \A x \in have \ want : <<remove, x>> \in left

TagsCome(obj, left, spec, seen) ==
  obj.tags = spec.tags \/ (obj.tags = seen.tags /\ <<"tags", {}>> \in left)

TablesCome(obj, left, spec) ==
  \/ <<"routeTables", {}>> \in left
  \/ SetComes(spec.tables, obj.tables, "associate", "disassociate", left)

AttrsCome(obj, left, spec) ==
  \A a \in SubnetAttributes : (a \in obj.attrs <=> a \in spec.attrs) \/ <<"attribute", a>> \in left

VPCComes(obj, left, spec) ==
  \/ obj.vpc = spec.vpc
  \/ spec.vpc = NoVPC /\ <<"detach", obj.vpc>> \in left
  \/ <<"attach", spec.vpc>> \in left

EntriesCome(obj, left, spec) ==
  \/ <<"refuse", {}>> \in left
  \/ /\ \A e \in spec.entries \ obj.entries :
          <<"createEntry", e>> \in left \/ <<"updateEntry", e>> \in left
     /\ \A e \in obj.entries \ spec.entries : <<"deleteEntry", e>> \in left

SubnetsCome(obj, left, spec) ==
  /\ \A s \in spec.subnets \ obj.subnets : <<"upsert", s>> \in left
  /\ \A s \in obj.subnets \ spec.subnets : <<"deleteOld", <<s, "SubnetID">>>> \in left

DataCome(obj, left, spec) ==
  obj.data[Len(obj.data)] = spec.data \/ <<"newVersion", spec.data>> \in left

DefaultComes(obj, left, spec) ==
  obj.default = spec.default \/ <<"defaultVersion", spec.default>> \in left

Runs(obj, spec) ==
  /\ isRunning(obj)
  /\ \A a \in Attributes \ {"DisableAPITermination"} : obj.attrs[a] = spec.attrs[a]

ListComes(obj, left, spec) ==
  /\ Final(obj)
  /\ <<"modifyList", {}>> \in left \/ (obj.entries = spec.entries /\ obj.max = spec.max)

CountComes(obj, left, spec) ==
  obj.count = spec.count \/ <<"modifyCount", spec.count>> \in left

ComesTo(obj, left, spec, seen) ==
  /\ KindOps(spec.kind) # {}
  /\ TagsCome(obj, left, spec, seen)
  /\ spec.kind \in {"subnet", "internet_gateway"} => TablesCome(obj, left, spec)
  /\ spec.kind = "subnet" => AttrsCome(obj, left, spec)
  /\ spec.kind = "internet_gateway" => VPCComes(obj, left, spec)
  /\ spec.kind = "dhcp_options" => SetComes(spec.vpcs, obj.vpcs, "attachVPC", "detachVPC", left)
  /\ spec.kind = "network_acl" => EntriesCome(obj, left, spec) /\ SubnetsCome(obj, left, spec)
  /\ spec.kind = "instance" => Runs(obj, spec) /\ \A call \in left : call[1] # "modifyInstance"
  /\ spec.kind = "launch_template" => DataCome(obj, left, spec) /\ DefaultComes(obj, left, spec)
  /\ spec.kind = "managed_prefix_list" => ListComes(obj, left, spec)
  /\ spec.kind = "capacity_reservation" => CountComes(obj, left, spec)

Unbiased == w.mode = "update" /\ ~w.interfered /\ ~w.blind

PlanComes ==
  At("plan") /\ Unbiased /\ w.end = "synced" =>
    Obj # Gone /\ ComesTo(Obj, Calls(w.plan), w.spec, w.seen)

\* EC2 is not about to change a list that an update leaves.
SyncedIsFinal ==
  At("synced") /\ Unbiased /\ Kind("managed_prefix_list") => Final(Obj)

PassFollows ==
  PassFits /\ ReadIsThere /\ FoundIsThere /\ PlanComes /\ SyncedIsExact /\ SyncedIsFinal
Following   == ObjectsAre /\ PassFollows


----------------------------------------------------------------------------
(* The calls of plans put together, and of what is left of one.            *)

LEMMA CallsOfTail ==
  ASSUME NEW calls, NEW ops, IsPlan(calls, ops), calls # <<>>
  PROVE  /\ Calls(calls) = {Head(calls)} \cup Calls(Tail(calls))
         /\ Head(calls) \in Calls(calls) /\ IsPlan(Tail(calls), ops)
<1> DEFINE rest == SubSeq(calls, 1 + 1, Len(calls))
<1>1. 1 \in 1 .. Len(calls) /\ Tail(calls) = rest /\ Head(calls) = calls[1]
  BY TailIsRest
<1>2. Len(calls) \in Nat /\ DOMAIN calls = 1 .. Len(calls)
  BY PlansAreSequences
<1>3. /\ DOMAIN rest = 1 .. Len(calls) - 1
      /\ \A i \in 1 .. Len(calls) - 1 : rest[i] = calls[i + 1]
  BY <1>1, RestIsPlan
<1> HIDE DEF rest
<1>4. ASSUME NEW i \in DOMAIN calls, i # 1
      PROVE  i - 1 \in DOMAIN rest /\ rest[i - 1] = calls[i]
  BY <1>2, <1>3, <1>4
<1>5. \A i \in DOMAIN rest : i + 1 \in DOMAIN calls /\ rest[i] = calls[i + 1]
  BY <1>2, <1>3
<1>6. IsPlan(rest, ops)
  BY <1>1, TailIsPlan
<1>7. Head(calls) \in Calls(calls)
  BY <1>1, <1>2 DEF Calls
<1>8. Calls(rest) \subseteq Calls(calls)
  BY <1>5 DEF Calls
<1>9. Calls(calls) \subseteq {Head(calls)} \cup Calls(rest)
  BY <1>1, <1>4 DEF Calls
<1> QED BY <1>1, <1>6, <1>7, <1>8, <1>9

LEMMA CallsOfRest ==
  ASSUME NEW calls, NEW ops, IsPlan(calls, ops), NEW n \in 1 .. Len(calls)
  PROVE  LET rest == SubSeq(calls, n + 1, Len(calls))
         IN  IsPlan(rest, ops) /\ Calls(rest) \subseteq Calls(calls)
<1> DEFINE rest == SubSeq(calls, n + 1, Len(calls))
<1>1. /\ IsPlan(rest, ops) /\ DOMAIN rest = 1 .. Len(calls) - n
      /\ \A i \in 1 .. Len(calls) - n : rest[i] = calls[i + n]
  BY RestIsPlan
<1>2. Len(calls) \in Nat /\ DOMAIN calls = 1 .. Len(calls)
  BY PlansAreSequences
<1> HIDE DEF rest
<1>3. \A i \in DOMAIN rest : i + n \in DOMAIN calls /\ rest[i] = calls[i + n]
  BY <1>1, <1>2
<1> QED BY <1>1, <1>3 DEF Calls, rest

LEMMA CallsOfConcat ==
  ASSUME NEW s, NEW t, NEW opsS, NEW opsT, IsPlan(s, opsS), IsPlan(t, opsT)
  PROVE  Calls(s \o t) = Calls(s) \cup Calls(t)
<1>1. /\ Len(s) \in Nat /\ Len(t) \in Nat
      /\ DOMAIN s = 1 .. Len(s) /\ DOMAIN t = 1 .. Len(t)
      /\ DOMAIN (s \o t) = 1 .. Len(s) + Len(t)
      /\ \A i \in 1 .. Len(s) + Len(t) :
           (s \o t)[i] = IF i <= Len(s) THEN s[i] ELSE t[i - Len(s)]
  BY ConcatIs
<1> DEFINE r == s \o t
<1> HIDE DEF r
<1>2. /\ DOMAIN r = 1 .. Len(s) + Len(t)
      /\ \A i \in 1 .. Len(s) : i \in DOMAIN r /\ r[i] = s[i]
      /\ \A i \in 1 .. Len(t) : i + Len(s) \in DOMAIN r /\ r[i + Len(s)] = t[i]
      /\ \A i \in DOMAIN r : \/ i \in 1 .. Len(s) /\ r[i] = s[i]
                             \/ i - Len(s) \in 1 .. Len(t) /\ r[i] = t[i - Len(s)]
  BY <1>1 DEF r
<1>3. Calls(r) \subseteq Calls(s) \cup Calls(t)
  BY <1>1, <1>2 DEF Calls
<1>4. Calls(s) \subseteq Calls(r)
  BY <1>1, <1>2 DEF Calls
<1>5. Calls(t) \subseteq Calls(r)
  BY <1>1, <1>2 DEF Calls
<1> QED BY <1>3, <1>4, <1>5 DEF r

LEMMA CallsOfNone == Calls(<<>>) = {}
BY DEF Calls

LEMMA CallsOfWhen ==
  ASSUME NEW condition \in BOOLEAN, NEW op, NEW x
  PROVE  Calls(When(condition, op, x)) = IF condition THEN {<<op, x>>} ELSE {}
<1>1. CASE condition
  <2> DEFINE call == <<op, x>>
             calls == <<call>>
  <2>1. When(condition, op, x) = calls
    BY <1>1 DEF When
  <2> HIDE DEF call
  <2>2. DOMAIN calls = {1} /\ calls[1] = call
    OBVIOUS
  <2> HIDE DEF calls
  <2>3. Calls(calls) = {call}
    BY <2>2 DEF Calls
  <2> QED BY <1>1, <2>1, <2>3 DEF call
<1>2. CASE ~condition
  BY <1>2, CallsOfNone DEF When
<1> QED BY <1>1, <1>2

LEMMA CallsOfForEach ==
  ASSUME NEW op, NEW S, IsFiniteSet(S), NEW calls \in ForEach(op, S)
  PROVE  Calls(calls) = {<<op, x>> : x \in S}
<1> DEFINE n == Cardinality(S)
<1>1. n \in Nat
  BY FS_CardinalityType
<1>2. PICK order \in [1 .. n -> S] :
        /\ calls = [i \in 1 .. n |-> <<op, order[i]>>]
        /\ \A x \in S : \E i \in DOMAIN order : order[i] = x
  BY DEF ForEach
<1> HIDE DEF n
<1>3. DOMAIN calls = 1 .. n /\ DOMAIN order = 1 .. n
      /\ \A i \in 1 .. n : calls[i] = <<op, order[i]>> /\ order[i] \in S
  BY <1>2
<1>4. \A x \in S : \E i \in DOMAIN calls : calls[i] = <<op, x>>
  BY <1>2, <1>3
<1> DEFINE made == {<<op, x>> : x \in S}
<1>5. Calls(calls) \subseteq made
  BY <1>3 DEF Calls
<1>6. made \subseteq Calls(calls)
  BY <1>4 DEF Calls
<1> QED BY <1>5, <1>6

\* Plans of the calls that fit.
LEMMA FittingIs ==
  ASSUME NEW calls, NEW spec, Fitting(calls, spec)
  PROVE  /\ IsPlan(calls, KindOps(spec.kind)) /\ \A call \in Calls(calls) : Fits(call, spec)
         /\ calls # <<>> =>
              /\ Fitting(Tail(calls), spec)
              /\ Calls(calls) = {Head(calls)} \cup Calls(Tail(calls))
              /\ Head(calls)[1] \in KindOps(spec.kind) /\ Fits(Head(calls), spec)
<1>1. IsPlan(calls, KindOps(spec.kind)) /\ \A call \in Calls(calls) : Fits(call, spec)
  BY DEF Fitting
<1>2. ASSUME calls # <<>>
      PROVE  /\ Fitting(Tail(calls), spec)
             /\ Calls(calls) = {Head(calls)} \cup Calls(Tail(calls))
             /\ Head(calls)[1] \in KindOps(spec.kind) /\ Fits(Head(calls), spec)
  <2>1. /\ Calls(calls) = {Head(calls)} \cup Calls(Tail(calls))
        /\ Head(calls) \in Calls(calls) /\ IsPlan(Tail(calls), KindOps(spec.kind))
    BY <1>1, <1>2, CallsOfTail
  <2>2. Head(calls)[1] \in KindOps(spec.kind)
    BY <1>1, <2>1 DEF IsPlan, Ops, Calls
  <2> QED BY <1>1, <2>1, <2>2 DEF Fitting
<1> QED BY <1>1, <1>2

LEMMA ConcatFits ==
  ASSUME NEW s, NEW t, NEW spec, Fitting(s, spec), Fitting(t, spec)
  PROVE  Fitting(s \o t, spec) /\ Calls(s \o t) = Calls(s) \cup Calls(t)
<1>1. IsPlan(s, KindOps(spec.kind)) /\ IsPlan(t, KindOps(spec.kind))
  BY DEF Fitting
<1>2. Calls(s \o t) = Calls(s) \cup Calls(t) /\ IsPlan(s \o t, KindOps(spec.kind))
  BY <1>1, CallsOfConcat, ConcatIsPlan
<1> QED BY <1>2 DEF Fitting

LEMMA NoneFits ==
  ASSUME NEW spec
  PROVE  Fitting(<<>>, spec) /\ Calls(<<>>) = {}
BY NoCalls, CallsOfNone DEF Fitting

LEMMA WhenFits ==
  ASSUME NEW condition \in BOOLEAN, NEW op, NEW x, NEW spec, op \in KindOps(spec.kind),
         condition => Fits(<<op, x>>, spec)
  PROVE  /\ Fitting(When(condition, op, x), spec)
         /\ Calls(When(condition, op, x)) = IF condition THEN {<<op, x>>} ELSE {}
<1>1. IsPlan(When(condition, op, x), {op})
  BY WhenIsPlan
<1>2. IsPlan(When(condition, op, x), KindOps(spec.kind))
  BY <1>1 DEF IsPlan
<1>3. Calls(When(condition, op, x)) = IF condition THEN {<<op, x>>} ELSE {}
  BY CallsOfWhen
<1> DEFINE call == <<op, x>>
<1>4. condition => Fits(call, spec)
  OBVIOUS
<1> HIDE DEF call
<1>5. \A c \in Calls(When(condition, op, x)) : Fits(c, spec)
  BY <1>3, <1>4 DEF call
<1> QED BY <1>2, <1>3, <1>5 DEF Fitting

LEMMA ForEachFits ==
  ASSUME NEW op, NEW S, IsFiniteSet(S), NEW calls \in ForEach(op, S), NEW spec,
         op \in KindOps(spec.kind), \A x \in S : Fits(<<op, x>>, spec)
  PROVE  Fitting(calls, spec) /\ Calls(calls) = {<<op, x>> : x \in S}
<1>1. IsPlan(calls, KindOps(spec.kind)) /\ Calls(calls) = {<<op, x>> : x \in S}
  BY ForEachIsPlan, CallsOfForEach
<1>2. \A c \in Calls(calls) : Fits(c, spec)
  BY <1>1
<1> QED BY <1>1, <1>2 DEF Fitting

----------------------------------------------------------------------------
(* What the worker leaves behind.                                          *)

Tracked == TieInv /\ TemplateInv /\ Following

LEMMA TrackedIs ==
  ASSUME Tracked
  PROVE  /\ TieInv /\ Frame /\ Following /\ TemplateInv
         /\ DOMAIN ec2 = Ids /\ DOMAIN w = WorkerFields
         /\ ~At("idle") => w.spec.kind = cr.spec.kind
         /\ \A i \in Ids : ec2[i] = Gone \/ ObjectIs(ec2[i], cr.spec.kind)
BY TieInvIs DEF Tracked, Following, ObjectsAre

\* The pass is over, or it has read nothing yet.
Quiet == {"idle", "manage", "create", "release", "requeue", "failed"}

LEMMA QuietFollows ==
  ASSUME \/ w'.pc \in Quiet
         \/ w'.pc = "patchSpec" /\ w'.mode = "create"
         \/ w'.pc = "synced" /\ w'.mode # "update"
         \/ w'.pc = "describe" /\ ~w'.blind
  PROVE  PassFollows'
BY DEF Quiet, PassFollows, PassFits, ReadIsThere, FoundIsThere, PlanComes, SyncedIsExact,
       SyncedIsFinal, Unbiased, At

LEMMA ObjectsStay ==
  ASSUME Tracked, cr'.spec.kind = cr.spec.kind, NEW i \in Ids, NEW obj,
         obj = Gone \/ ObjectIs(obj, cr.spec.kind),
         ec2' \in {ec2, [ec2 EXCEPT ![i] = obj]}
  PROVE  ObjectsAre'
BY TrackedIs DEF ObjectsAre

LEMMA PlanFollows ==
  ASSUME w'.pc = "plan", Fitting(w'.plan, w'.spec),
         w'.mode = "update" /\ ~w'.interfered /\ ~w'.blind /\ w'.end = "synced" =>
           Obj' # Gone /\ ComesTo(Obj', Calls(w'.plan), w'.spec, w'.seen)
  PROVE  PassFollows'
<1>1. PlanComes'
  BY DEF PlanComes, Unbiased
<1>2. PassFits' /\ ReadIsThere' /\ FoundIsThere' /\ SyncedIsExact' /\ SyncedIsFinal'
  BY DEF PassFits, ReadIsThere, FoundIsThere, SyncedIsExact, SyncedIsFinal, At
<1> QED BY <1>1, <1>2 DEF PassFollows

\* An end of the pass that promises nothing, or calls whose result nothing is said of.
Stray(r) ==
  \/ r.pc \in Quiet
  \/ /\ r.pc = "plan" /\ Fitting(r.plan, r.spec)
     /\ r.mode # "update" \/ r.blind \/ r.end # "synced" \/ r.interfered

\* The worker that makes the next call.
GoesOn(r) ==
  /\ r.pc = "plan" /\ r.plan = Tail(w.plan)
  /\ r.mode = w.mode /\ r.id = w.id /\ r.spec = w.spec /\ r.seen = w.seen
  /\ r.interfered = w.interfered /\ r.blind = w.blind /\ r.end = w.end

LEMMA StrayFollows ==
  ASSUME Stray(w')
  PROVE  PassFollows'
BY QuietFollows, PlanFollows DEF Stray

LEMMA PlanIs ==
  ASSUME Tracked, NEW op, Doing(op)
  PROVE  /\ At("plan") /\ ~At("idle") /\ Frame /\ w.id \in Ids /\ w.id # 0
         /\ w.spec.kind = cr.spec.kind /\ DOMAIN ec2 = Ids /\ DOMAIN w = WorkerFields
         /\ Obj = Gone \/ ObjectIs(Obj, w.spec.kind)
         /\ w.plan # <<>> /\ Fitting(w.plan, w.spec) /\ Fitting(Tail(w.plan), w.spec)
         /\ Calls(w.plan) = {Head(w.plan)} \cup Calls(Tail(w.plan))
         /\ op \in KindOps(w.spec.kind) /\ Fits(Head(w.plan), w.spec)
         /\ Head(w.plan)[1] = op /\ Head(w.plan)[2] = Arg
<1>1. /\ At("plan") /\ w.plan # <<>> /\ Fitting(w.plan, w.spec) /\ Head(w.plan)[1] = op
  BY DEF Doing, Tracked, Following, PassFollows, PassFits
<1>2. Frame /\ ~At("idle") /\ w.id \in Ids /\ w.id # 0 /\ w.spec.kind = cr.spec.kind
  BY <1>1, TrackedIs, DoingIs, WorkerIs
<1>3. Obj = Gone \/ ObjectIs(Obj, w.spec.kind)
  BY <1>2, TrackedIs DEF Obj
<1>4. DOMAIN ec2 = Ids /\ DOMAIN w = WorkerFields
  BY TrackedIs
<1>5. /\ Fitting(Tail(w.plan), w.spec)
      /\ Calls(w.plan) = {Head(w.plan)} \cup Calls(Tail(w.plan))
      /\ Head(w.plan)[1] \in KindOps(w.spec.kind) /\ Fits(Head(w.plan), w.spec)
  BY <1>1, FittingIs
<1> QED BY <1>1, <1>2, <1>3, <1>4, <1>5 DEF Arg

\* What the object becomes, if the calls that are left would have made it as declared.
Arrives(obj) ==
  w.mode = "update" /\ Obj # Gone
      /\ ComesTo(Obj, {Head(w.plan)} \cup Calls(Tail(w.plan)), w.spec, w.seen) =>
    obj # Gone /\ ComesTo(obj, Calls(Tail(w.plan)), w.spec, w.seen)

LEMMA CallComes ==
  ASSUME Tracked, NEW op, Doing(op), UNCHANGED cr, NEW obj,
         obj = Gone \/ ObjectIs(obj, w.spec.kind),
         ec2' \in {ec2, [ec2 EXCEPT ![w.id] = obj]},
         Stray(w') \/ (GoesOn(w') /\ ec2'[w.id] = obj /\ Arrives(obj))
  PROVE  Following'
<1>1. ObjectsAre'
  BY PlanIs, ObjectsStay
<1>2. CASE Stray(w')
  BY <1>1, <1>2, StrayFollows DEF Following
<1>3. CASE GoesOn(w') /\ ec2'[w.id] = obj /\ Arrives(obj)
  <2>1. /\ w'.pc = "plan" /\ w'.plan = Tail(w.plan)
        /\ w'.mode = w.mode /\ w'.id = w.id /\ w'.spec = w.spec /\ w'.seen = w.seen
        /\ w'.interfered = w.interfered /\ w'.blind = w.blind /\ w'.end = w.end
        /\ Obj' = obj
    BY <1>3 DEF GoesOn, Obj
  <2>2. Fitting(w'.plan, w'.spec)
    BY <2>1, PlanIs
  <2>3. w'.mode = "update" /\ ~w'.interfered /\ ~w'.blind /\ w'.end = "synced" =>
          Obj' # Gone /\ ComesTo(Obj', Calls(w'.plan), w'.spec, w'.seen)
    <3> SUFFICES ASSUME w'.mode = "update", ~w'.interfered, ~w'.blind, w'.end = "synced"
                 PROVE  obj # Gone /\ ComesTo(obj, Calls(Tail(w.plan)), w.spec, w.seen)
      BY <2>1
    <3>1. Obj # Gone /\ ComesTo(Obj, Calls(w.plan), w.spec, w.seen)
      BY <2>1, PlanIs DEF Tracked, Following, PassFollows, PlanComes, Unbiased
    <3>2. Calls(w.plan) = {Head(w.plan)} \cup Calls(Tail(w.plan))
      BY PlanIs
    <3> QED BY <1>3, <2>1, <3>1, <3>2 DEF Arrives
  <2> QED BY <1>1, <2>1, <2>2, <2>3, PlanFollows DEF Following
<1> QED BY <1>2, <1>3

\* The workers after a call, and after its error.
LEMMA WorkersAre ==
  ASSUME Tracked, NEW op, Doing(op)
  PROVE  /\ GoesOn(Done) /\ Stray(onError) /\ Stray(Unnoticed)
         /\ Stray([Reported(FALSE) EXCEPT !.plan = Tail(w.plan)])
         /\ \A v : GoesOn([Done EXCEPT !.version = v])
<1>1. DOMAIN w = WorkerFields /\ At("plan") /\ Frame /\ ~At("idle")
      /\ Fitting(Tail(w.plan), w.spec)
  BY PlanIs
<1> DEFINE d == Done
           r == Reported(FALSE)
<1>2. GoesOn(d) /\ DOMAIN d = WorkerFields
  BY <1>1 DEF GoesOn, Done, WorkerFields, At
<1>3. /\ DOMAIN r = WorkerFields /\ r.pc = "plan" /\ r.mode = w.mode /\ r.spec = w.spec
      /\ r.end = "requeue"
  BY <1>1 DEF Reported, WorkerFields, At
<1>4. Stray(onError)
  BY <1>1, onErrorIs DEF Stray, Quiet
<1> HIDE DEF d, r
<1>5. Stray([d EXCEPT !.blind = TRUE])
  <2> DEFINE u == [d EXCEPT !.blind = TRUE]
  <2>1. u.pc = "plan" /\ u.plan = Tail(w.plan) /\ u.spec = w.spec /\ u.blind
    BY <1>2 DEF GoesOn, WorkerFields
  <2> HIDE DEF u
  <2>2. Stray(u)
    BY <1>1, <2>1 DEF Stray
  <2> QED BY <2>2 DEF u
<1>6. Stray([r EXCEPT !.plan = Tail(w.plan)])
  <2> DEFINE u == [r EXCEPT !.plan = Tail(w.plan)]
  <2>1. u.pc = "plan" /\ u.plan = Tail(w.plan) /\ u.spec = w.spec /\ u.end = "requeue"
    BY <1>3 DEF WorkerFields
  <2> HIDE DEF u
  <2>2. Stray(u)
    BY <1>1, <2>1 DEF Stray
  <2> QED BY <2>2 DEF u
<1>7. \A v : GoesOn([d EXCEPT !.version = v])
  BY <1>2 DEF GoesOn, WorkerFields
<1> QED BY <1>2, <1>4, <1>5, <1>6, <1>7 DEF d, r, Unnoticed

\* The call of a plan that changes the object in hand, or its refusal.
LEMMA CallFollows ==
  ASSUME Tracked, NEW op, Doing(op), NEW obj, obj = Gone \/ ObjectIs(obj, w.spec.kind),
         NEW next, NEW failed, Stray(failed), Stray(next) \/ (GoesOn(next) /\ Arrives(obj)),
         Call(obj, next, failed) \/ Go(failed)
  PROVE  Following'
<1>1. UNCHANGED cr /\ ec2' \in {ec2, [ec2 EXCEPT ![w.id] = obj]}
  BY DEF Call, Go
<1>2. w.id \in DOMAIN ec2
  BY PlanIs
<1>3. w' = failed \/ (w' = next /\ ec2' = [ec2 EXCEPT ![w.id] = obj])
  BY DEF Call, Go
<1>4. Stray(w') \/ (GoesOn(w') /\ ec2'[w.id] = obj /\ Arrives(obj))
  BY <1>2, <1>3
<1> QED BY <1>1, <1>4, CallComes

\* A call of a plan that changes nothing.
LEMMA ReadFollows ==
  ASSUME Tracked, NEW op, Doing(op), NEW next, Go(next) \/ Unread(next),
         Stray(next) \/ (GoesOn(next) /\ Arrives(Obj))
  PROVE  Following'
<1>1. UNCHANGED <<cr, ec2>> /\ w' = next
  BY DEF Go, Unread
<1>2. /\ ec2' \in {ec2, [ec2 EXCEPT ![w.id] = Obj]} /\ ec2'[w.id] = Obj
      /\ Obj = Gone \/ ObjectIs(Obj, w.spec.kind)
  BY <1>1, PlanIs DEF Obj
<1> QED BY <1>1, <1>2, CallComes

----------------------------------------------------------------------------
(* What one call does to what is still to come.                            *)

\* An object in which one field is changed.
Changed(from, to, field, x, kind) ==
  /\ ObjectIs(to, kind) /\ to # Gone /\ to[field] = x
  /\ \A f \in ObjectFields(kind) \ {field} : to[f] = from[f]

LEMMA FieldIs ==
  ASSUME NEW from, NEW kind, ObjectIs(from, kind),
         NEW field \in ObjectFields(kind) \ {"live", "state"}, NEW x,
         field = "attrs" => kind = "subnet" /\ x \subseteq SubnetAttributes,
         NEW to, to = [from EXCEPT ![field] = x]
  PROVE  Changed(from, to, field, x, kind)
<1>1. /\ DOMAIN from = ObjectFields(kind) /\ "tags" \in ObjectFields(kind)
      /\ "tags" \notin DOMAIN Gone /\ "live" \in ObjectFields(kind)
      /\ kind = "instance" => "state" \in ObjectFields(kind) /\ "attrs" \in ObjectFields(kind)
      /\ kind = "subnet" => "attrs" \in ObjectFields(kind)
  BY DEF ObjectIs, ObjectFields, Gone
<1>2. /\ DOMAIN to = ObjectFields(kind) /\ to[field] = x
      /\ \A f \in ObjectFields(kind) \ {field} : to[f] = from[f]
  BY <1>1
<1>3. to # Gone /\ to.live = from.live
  BY <1>1, <1>2
<1>4. kind = "subnet" => to.attrs = from.attrs \/ to.attrs \subseteq SubnetAttributes
  BY <1>1, <1>2
<1>5. kind = "instance" => to.attrs = from.attrs /\ to.state = from.state
  BY <1>1, <1>2
<1>6. ObjectIs(to, kind)
  BY <1>2, <1>3, <1>4, <1>5 DEF ObjectIs
<1> QED BY <1>2, <1>3, <1>6 DEF Changed

\* What a call leaves alone is still to come by the calls after it.
LEMMA Untouched ==
  ASSUME NEW from, NEW to, NEW call, NEW rest, NEW spec, NEW seen
  PROVE  LET left == {call} \cup rest
         IN  /\ TagsCome(from, left, spec, seen) /\ call[1] # "tags" /\ to.tags = from.tags
                  => TagsCome(to, rest, spec, seen)
             /\ TablesCome(from, left, spec) /\ to.tables = from.tables
                  /\ call[1] \notin {"routeTables", "associate", "disassociate"}
                  => TablesCome(to, rest, spec)
             /\ AttrsCome(from, left, spec) /\ call[1] # "attribute" /\ to.attrs = from.attrs
                  => AttrsCome(to, rest, spec)
             /\ VPCComes(from, left, spec) /\ call[1] \notin {"attach", "detach"}
                  /\ to.vpc = from.vpc
                  => VPCComes(to, rest, spec)
             /\ SetComes(spec.vpcs, from.vpcs, "attachVPC", "detachVPC", left)
                  /\ call[1] \notin {"attachVPC", "detachVPC"} /\ to.vpcs = from.vpcs
                  => SetComes(spec.vpcs, to.vpcs, "attachVPC", "detachVPC", rest)
             /\ EntriesCome(from, left, spec) /\ to.entries = from.entries
                  /\ call[1] \notin {"refuse", "createEntry", "updateEntry", "deleteEntry"}
                  => EntriesCome(to, rest, spec)
             /\ SubnetsCome(from, left, spec) /\ to.subnets = from.subnets
                  /\ call[1] # "upsert" /\ (call[1] = "deleteOld" => call[2][2] # "SubnetID")
                  => SubnetsCome(to, rest, spec)
             /\ Runs(from, spec) /\ to.state = from.state /\ to.attrs = from.attrs
                  => Runs(to, spec)
             /\ DataCome(from, left, spec) /\ call[1] # "newVersion" /\ to.data = from.data
                  => DataCome(to, rest, spec)
             /\ DefaultComes(from, left, spec) /\ call[1] # "defaultVersion"
                  /\ to.default = from.default
                  => DefaultComes(to, rest, spec)
             /\ ListComes(from, left, spec) /\ call[1] # "modifyList" /\ to.state = from.state
                  /\ to.entries = from.entries /\ to.max = from.max
                  => ListComes(to, rest, spec)
             /\ CountComes(from, left, spec) /\ call[1] # "modifyCount" /\ to.count = from.count
                  => CountComes(to, rest, spec)
<1> DEFINE left == {call} \cup rest
<1>1. \A op, x : call[1] # op /\ <<op, x>> \in left => <<op, x>> \in rest
  OBVIOUS
<1>2. \A s : call[1] = "deleteOld" /\ call[2][2] # "SubnetID"
               /\ <<"deleteOld", <<s, "SubnetID">>>> \in left
               => <<"deleteOld", <<s, "SubnetID">>>> \in rest
  OBVIOUS
<1> HIDE DEF left
<1>3. /\ TagsCome(from, left, spec, seen) /\ call[1] # "tags" /\ to.tags = from.tags
           => TagsCome(to, rest, spec, seen)
      /\ AttrsCome(from, left, spec) /\ call[1] # "attribute" /\ to.attrs = from.attrs
           => AttrsCome(to, rest, spec)
      /\ VPCComes(from, left, spec) /\ call[1] \notin {"attach", "detach"} /\ to.vpc = from.vpc
           => VPCComes(to, rest, spec)
  BY <1>1 DEF TagsCome, AttrsCome, VPCComes
<1>4. /\ TablesCome(from, left, spec) /\ to.tables = from.tables
           /\ call[1] \notin {"routeTables", "associate", "disassociate"}
           => TablesCome(to, rest, spec)
      /\ SetComes(spec.vpcs, from.vpcs, "attachVPC", "detachVPC", left)
           /\ call[1] \notin {"attachVPC", "detachVPC"} /\ to.vpcs = from.vpcs
           => SetComes(spec.vpcs, to.vpcs, "attachVPC", "detachVPC", rest)
  BY <1>1 DEF TablesCome, SetComes
<1>5. EntriesCome(from, left, spec) /\ to.entries = from.entries
           /\ call[1] \notin {"refuse", "createEntry", "updateEntry", "deleteEntry"}
           => EntriesCome(to, rest, spec)
  BY <1>1 DEF EntriesCome
<1>6. SubnetsCome(from, left, spec) /\ to.subnets = from.subnets
           /\ call[1] # "upsert" /\ (call[1] = "deleteOld" => call[2][2] # "SubnetID")
           => SubnetsCome(to, rest, spec)
  BY <1>1, <1>2 DEF SubnetsCome
<1>7. /\ Runs(from, spec) /\ to.state = from.state /\ to.attrs = from.attrs => Runs(to, spec)
      /\ DataCome(from, left, spec) /\ call[1] # "newVersion" /\ to.data = from.data
           => DataCome(to, rest, spec)
      /\ DefaultComes(from, left, spec) /\ call[1] # "defaultVersion"
           /\ to.default = from.default
           => DefaultComes(to, rest, spec)
  BY <1>1 DEF Runs, isRunning, DataCome, DefaultComes
<1>8. /\ ListComes(from, left, spec) /\ call[1] # "modifyList" /\ to.state = from.state
           /\ to.entries = from.entries /\ to.max = from.max
           => ListComes(to, rest, spec)
      /\ CountComes(from, left, spec) /\ call[1] # "modifyCount" /\ to.count = from.count
           => CountComes(to, rest, spec)
  BY <1>1 DEF ListComes, Final, CountComes
<1> QED BY <1>3, <1>4, <1>5, <1>6, <1>7, <1>8 DEF left

\* All but one field of an object come to be as declared, by the calls after `op`.
Others(to, rest, spec, seen, op, field) ==
  /\ op # "tags" /\ field # "tags" => TagsCome(to, rest, spec, seen)
  /\ spec.kind \in {"subnet", "internet_gateway"} /\ field # "tables"
       /\ op \notin {"routeTables", "associate", "disassociate"}
       => TablesCome(to, rest, spec)
  /\ spec.kind = "subnet" /\ field # "attrs" /\ op # "attribute"
       => AttrsCome(to, rest, spec)
  /\ spec.kind = "internet_gateway" /\ field # "vpc" /\ op \notin {"attach", "detach"}
       => VPCComes(to, rest, spec)
  /\ spec.kind = "dhcp_options" /\ field # "vpcs"
       /\ op \notin {"attachVPC", "detachVPC"}
       => SetComes(spec.vpcs, to.vpcs, "attachVPC", "detachVPC", rest)
  /\ spec.kind = "network_acl" /\ field # "entries"
       /\ op \notin {"refuse", "createEntry", "updateEntry", "deleteEntry"}
       => EntriesCome(to, rest, spec)
  /\ spec.kind = "network_acl" /\ field # "subnets" /\ op \notin {"upsert", "deleteOld"}
       => SubnetsCome(to, rest, spec)
  /\ spec.kind = "instance" /\ field \notin {"state", "attrs"} => Runs(to, spec)
  /\ spec.kind = "instance" => op # "modifyInstance" /\ \A c \in rest : c[1] # "modifyInstance"
  /\ spec.kind = "launch_template" /\ field # "data" /\ op # "newVersion"
       => DataCome(to, rest, spec)
  /\ spec.kind = "launch_template" /\ field # "default" /\ op # "defaultVersion"
       => DefaultComes(to, rest, spec)
  /\ spec.kind = "managed_prefix_list" /\ field \notin {"state", "entries", "max"}
       /\ op # "modifyList"
       => ListComes(to, rest, spec)
  /\ spec.kind = "capacity_reservation" /\ field # "count" /\ op # "modifyCount"
       => CountComes(to, rest, spec)

\* A call that changes one field of an object: the rest is still to come.
LEMMA OthersCome ==
  ASSUME NEW from, NEW to, NEW call, NEW rest, NEW spec, NEW seen, NEW field,
         \A f \in ObjectFields(spec.kind) \ {field} : to[f] = from[f],
         ComesTo(from, {call} \cup rest, spec, seen)
  PROVE  Others(to, rest, spec, seen, call[1], field)
<1> DEFINE left == {call} \cup rest
           kind == spec.kind
<1>1. /\ TagsCome(from, left, spec, seen)
      /\ kind \in {"subnet", "internet_gateway"} => TablesCome(from, left, spec)
      /\ kind = "subnet" => AttrsCome(from, left, spec)
      /\ kind = "internet_gateway" => VPCComes(from, left, spec)
      /\ kind = "dhcp_options" => SetComes(spec.vpcs, from.vpcs, "attachVPC", "detachVPC", left)
      /\ kind = "network_acl" => EntriesCome(from, left, spec) /\ SubnetsCome(from, left, spec)
      /\ kind = "instance" => Runs(from, spec) /\ \A c \in left : c[1] # "modifyInstance"
      /\ kind = "launch_template" => DataCome(from, left, spec) /\ DefaultComes(from, left, spec)
      /\ kind = "managed_prefix_list" => ListComes(from, left, spec)
      /\ kind = "capacity_reservation" => CountComes(from, left, spec)
  BY DEF ComesTo
<1>2. /\ field # "tags" => to.tags = from.tags
      /\ kind \in {"subnet", "internet_gateway"} /\ field # "tables" => to.tables = from.tables
      /\ kind = "subnet" /\ field # "attrs" => to.attrs = from.attrs
      /\ kind = "internet_gateway" /\ field # "vpc" => to.vpc = from.vpc
      /\ kind = "dhcp_options" /\ field # "vpcs" => to.vpcs = from.vpcs
      /\ kind = "network_acl" /\ field # "entries" => to.entries = from.entries
      /\ kind = "network_acl" /\ field # "subnets" => to.subnets = from.subnets
      /\ kind = "instance" /\ field \notin {"state", "attrs"}
           => to.state = from.state /\ to.attrs = from.attrs
      /\ kind = "launch_template" /\ field # "data" => to.data = from.data
      /\ kind = "launch_template" /\ field # "default" => to.default = from.default
      /\ kind = "managed_prefix_list" /\ field \notin {"state", "entries", "max"}
           => to.state = from.state /\ to.entries = from.entries /\ to.max = from.max
      /\ kind = "capacity_reservation" /\ field # "count" => to.count = from.count
  BY DEF ObjectFields
<1>5. call \in left /\ rest \subseteq left
  OBVIOUS
<1> HIDE DEF left
<1>3. /\ TagsCome(from, left, spec, seen) /\ call[1] # "tags" /\ to.tags = from.tags
           => TagsCome(to, rest, spec, seen)
      /\ TablesCome(from, left, spec) /\ to.tables = from.tables
           /\ call[1] \notin {"routeTables", "associate", "disassociate"}
           => TablesCome(to, rest, spec)
      /\ AttrsCome(from, left, spec) /\ call[1] # "attribute" /\ to.attrs = from.attrs
           => AttrsCome(to, rest, spec)
      /\ VPCComes(from, left, spec) /\ call[1] \notin {"attach", "detach"} /\ to.vpc = from.vpc
           => VPCComes(to, rest, spec)
      /\ SetComes(spec.vpcs, from.vpcs, "attachVPC", "detachVPC", left)
           /\ call[1] \notin {"attachVPC", "detachVPC"} /\ to.vpcs = from.vpcs
           => SetComes(spec.vpcs, to.vpcs, "attachVPC", "detachVPC", rest)
  BY Untouched DEF left
<1>4. /\ EntriesCome(from, left, spec) /\ to.entries = from.entries
           /\ call[1] \notin {"refuse", "createEntry", "updateEntry", "deleteEntry"}
           => EntriesCome(to, rest, spec)
      /\ SubnetsCome(from, left, spec) /\ to.subnets = from.subnets
           /\ call[1] # "upsert" /\ (call[1] = "deleteOld" => call[2][2] # "SubnetID")
           => SubnetsCome(to, rest, spec)
      /\ Runs(from, spec) /\ to.state = from.state /\ to.attrs = from.attrs => Runs(to, spec)
      /\ DataCome(from, left, spec) /\ call[1] # "newVersion" /\ to.data = from.data
           => DataCome(to, rest, spec)
      /\ DefaultComes(from, left, spec) /\ call[1] # "defaultVersion"
           /\ to.default = from.default
           => DefaultComes(to, rest, spec)
      /\ ListComes(from, left, spec) /\ call[1] # "modifyList" /\ to.state = from.state
           /\ to.entries = from.entries /\ to.max = from.max
           => ListComes(to, rest, spec)
      /\ CountComes(from, left, spec) /\ call[1] # "modifyCount" /\ to.count = from.count
           => CountComes(to, rest, spec)
  BY Untouched DEF left
<1> QED BY <1>1, <1>2, <1>3, <1>4, <1>5 DEF Others

\* DeleteTags and CreateTags bring the declared tags, whether they were there or not.
LEMMA TagsArrive ==
  ASSUME NEW from, NEW to, NEW call, NEW rest, NEW spec, NEW seen, call[1] = "tags",
         \A f \in ObjectFields(spec.kind) \ {"tags"} : to[f] = from[f],
         to.tags = (from.tags \ (seen.tags \ spec.tags)) \cup (spec.tags \ seen.tags),
         ComesTo(from, {call} \cup rest, spec, seen)
  PROVE  ComesTo(to, rest, spec, seen)
<1>1. call[1] = "tags" /\ ComesTo(from, {call} \cup rest, spec, seen)
  OBVIOUS
<1>2. from.tags \in {spec.tags, seen.tags}
  BY <1>1 DEF ComesTo, TagsCome
<1>3. to.tags = spec.tags
  BY <1>2
<1>4. TagsCome(to, rest, spec, seen)
  BY <1>3 DEF TagsCome
<1>8. Others(to, rest, spec, seen, call[1], "tags")
  BY <1>1, OthersCome
<1> QED BY <1>1, <1>4, <1>8 DEF Others, ComesTo

\* A call that only reads.
LEMMA NothingArrives ==
  ASSUME NEW obj, NEW call, NEW rest, NEW spec, NEW seen,
         ComesTo(obj, {call} \cup rest, spec, seen),
         call[1] \in {"find", "findACL", "defaultACL", "desired", "findReservation"}
  PROVE  ComesTo(obj, rest, spec, seen)
<1>1. Others(obj, rest, spec, seen, call[1], "none")
  BY OthersCome
<1> QED BY <1>1 DEF Others, ComesTo

\* The calls that take something away that is not declared, and those that put
\* something in place that is.
LEMMA TablesArrive ==
  ASSUME NEW from, NEW to, NEW x, NEW rest, NEW spec, NEW seen, NEW op, NEW call,
         \A f \in ObjectFields(spec.kind) \ {"tables"} : to[f] = from[f],
         spec.kind \in {"subnet", "internet_gateway"}, call[1] = op, call[2] = x,
         \/ op = "disassociate" /\ x \notin spec.tables /\ to.tables = from.tables \ {x}
         \/ op = "associate" /\ x \in spec.tables /\ from.tables = {} /\ to.tables = {x},
         ComesTo(from, {call} \cup rest, spec, seen)
  PROVE  ComesTo(to, rest, spec, seen)
<1>1. call[1] = op /\ TablesCome(from, {call} \cup rest, spec)
  BY DEF ComesTo
<1>2. TablesCome(to, rest, spec)
  BY <1>1 DEF TablesCome, SetComes
<1>8. Others(to, rest, spec, seen, call[1], "tables")
  BY <1>1, OthersCome
<1> QED BY <1>1, <1>2, <1>8 DEF Others, ComesTo

LEMMA AttributeArrives ==
  ASSUME NEW from, NEW to, NEW x, NEW rest, NEW spec, NEW seen, NEW call,
         \A f \in ObjectFields(spec.kind) \ {"attrs"} : to[f] = from[f],
         spec.kind = "subnet", call[1] = "attribute", call[2] = x,
         to.attrs = IF x \in spec.attrs THEN from.attrs \cup {x} ELSE from.attrs \ {x},
         ComesTo(from, {call} \cup rest, spec, seen)
  PROVE  ComesTo(to, rest, spec, seen)
<1>1. call[1] = "attribute" /\ AttrsCome(from, {call} \cup rest, spec)
  BY DEF ComesTo
<1>2. AttrsCome(to, rest, spec)
  <2>1. \A a : <<"attribute", a>> \in {call} \cup rest /\ a # x => <<"attribute", a>> \in rest
    OBVIOUS
  <2>2. \A a : a # x => (a \in to.attrs <=> a \in from.attrs)
    OBVIOUS
  <2>3. x \in to.attrs <=> x \in spec.attrs
    OBVIOUS
  <2> QED BY <1>1, <2>1, <2>2, <2>3 DEF AttrsCome
<1>8. Others(to, rest, spec, seen, call[1], "attrs")
  BY <1>1, OthersCome
<1> QED BY <1>1, <1>2, <1>8 DEF Others, ComesTo

LEMMA VPCArrives ==
  ASSUME NEW from, NEW to, NEW x, NEW rest, NEW spec, NEW seen, NEW op, NEW call,
         \A f \in ObjectFields(spec.kind) \ {"vpc"} : to[f] = from[f],
         spec.kind = "internet_gateway", call[1] = op, call[2] = x,
         \/ op = "detach" /\ x # spec.vpc /\ from.vpc = x /\ to.vpc = NoVPC
         \/ op = "attach" /\ x = spec.vpc /\ to.vpc = x,
         ComesTo(from, {call} \cup rest, spec, seen)
  PROVE  ComesTo(to, rest, spec, seen)
<1>1. call[1] = op /\ VPCComes(from, {call} \cup rest, spec)
  BY DEF ComesTo
<1>2. VPCComes(to, rest, spec)
  BY <1>1 DEF VPCComes
<1>8. Others(to, rest, spec, seen, call[1], "vpc")
  BY <1>1, OthersCome
<1> QED BY <1>1, <1>2, <1>8 DEF Others, ComesTo

LEMMA VPCsArrive ==
  ASSUME NEW from, NEW to, NEW x, NEW rest, NEW spec, NEW seen, NEW op, NEW call,
         \A f \in ObjectFields(spec.kind) \ {"vpcs"} : to[f] = from[f],
         spec.kind = "dhcp_options", call[1] = op, call[2] = x,
         \/ op = "detachVPC" /\ x \notin spec.vpcs /\ to.vpcs = from.vpcs \ {x}
         \/ op = "attachVPC" /\ x \in spec.vpcs /\ to.vpcs = from.vpcs \cup {x},
         ComesTo(from, {call} \cup rest, spec, seen)
  PROVE  ComesTo(to, rest, spec, seen)
<1>1. call[1] = op /\ SetComes(spec.vpcs, from.vpcs, "attachVPC", "detachVPC", {call} \cup rest)
  BY DEF ComesTo
<1>2. SetComes(spec.vpcs, to.vpcs, "attachVPC", "detachVPC", rest)
  BY <1>1 DEF SetComes
<1>8. Others(to, rest, spec, seen, call[1], "vpcs")
  BY <1>1, OthersCome
<1> QED BY <1>1, <1>2, <1>8 DEF Others, ComesTo

LEMMA EntryArrives ==
  ASSUME NEW from, NEW to, NEW x, NEW rest, NEW spec, NEW seen, NEW op, NEW call,
         \A f \in ObjectFields(spec.kind) \ {"entries"} : to[f] = from[f],
         spec.kind = "network_acl", call[1] = op, call[2] = x,
         \/ op = "createEntry" /\ x \in spec.entries /\ to.entries = from.entries \cup {x}
         \/ /\ op = "deleteEntry" /\ \A e \in from.entries \cap spec.entries : e[1] # x[1]
            /\ to.entries = {e \in from.entries : e[1] # x[1]}
         \/ /\ op = "updateEntry" /\ x \in spec.entries /\ Numbered(spec.entries)
            /\ to.entries = {e \in from.entries : e[1] # x[1]} \cup {x},
         ComesTo(from, {call} \cup rest, spec, seen)
  PROVE  ComesTo(to, rest, spec, seen)
<1>1. call[1] = op /\ EntriesCome(from, {call} \cup rest, spec)
  BY DEF ComesTo
<1>2. CASE <<"refuse", {}>> \in {call} \cup rest
  <2>1. <<"refuse", {}>> \in rest
    BY <1>1, <1>2
  <2>2. EntriesCome(to, rest, spec)
    BY <2>1 DEF EntriesCome
  <2>8. Others(to, rest, spec, seen, call[1], "entries")
    BY <1>1, OthersCome
  <2> QED BY <1>1, <2>2, <2>8 DEF Others, ComesTo
<1>3. CASE <<"refuse", {}>> \notin {call} \cup rest
  <2>1. /\ \A e \in spec.entries \ from.entries :
             <<"createEntry", e>> \in {call} \cup rest \/ <<"updateEntry", e>> \in {call} \cup rest
        /\ \A e \in from.entries \ spec.entries : <<"deleteEntry", e>> \in {call} \cup rest
    BY <1>1, <1>3 DEF EntriesCome
  <2>2. CASE op = "createEntry"
    <3>1. EntriesCome(to, rest, spec)
      BY <2>1, <2>2 DEF EntriesCome
    <3>8. Others(to, rest, spec, seen, call[1], "entries")
      BY <1>1, OthersCome
    <3> QED BY <1>1, <2>2, <3>1, <3>8 DEF Others, ComesTo
  <2>3. CASE op = "deleteEntry"
    <3>1. EntriesCome(to, rest, spec)
      BY <2>1, <2>3 DEF EntriesCome
    <3>8. Others(to, rest, spec, seen, call[1], "entries")
      BY <1>1, OthersCome
    <3> QED BY <1>1, <2>3, <3>1, <3>8 DEF Others, ComesTo
  <2>4. CASE op = "updateEntry"
    <3>1. EntriesCome(to, rest, spec)
      BY <2>1, <2>4 DEF EntriesCome, Numbered
    <3>8. Others(to, rest, spec, seen, call[1], "entries")
      BY <1>1, OthersCome
    <3> QED BY <1>1, <2>4, <3>1, <3>8 DEF Others, ComesTo
  <2> QED BY <2>2, <2>3, <2>4
<1> QED BY <1>2, <1>3

LEMMA SubnetArrives ==
  ASSUME NEW from, NEW to, NEW x, NEW rest, NEW spec, NEW seen, NEW op, NEW call,
         \A f \in ObjectFields(spec.kind) \ {"subnets"} : to[f] = from[f],
         spec.kind = "network_acl", call[1] = op, call[2] = x,
         \/ op = "upsert" /\ x \in spec.subnets /\ to.subnets = from.subnets \cup {x}
         \/ op = "deleteOld" /\ x[1] \notin spec.subnets /\ to.subnets = from.subnets \ {x[1]},
         ComesTo(from, {call} \cup rest, spec, seen)
  PROVE  ComesTo(to, rest, spec, seen)
<1>1. call[1] = op /\ SubnetsCome(from, {call} \cup rest, spec)
  BY DEF ComesTo
<1>2. CASE op = "upsert"
  <2>1. SubnetsCome(to, rest, spec)
    BY <1>1, <1>2 DEF SubnetsCome
  <2>8. Others(to, rest, spec, seen, call[1], "subnets")
    BY <1>1, OthersCome
  <2> QED BY <1>1, <1>2, <2>1, <2>8 DEF Others, ComesTo
<1>3. CASE op = "deleteOld"
  <2>1. \A s : s # x[1] => <<s, "SubnetID">> # x
    OBVIOUS
  <2>2. SubnetsCome(to, rest, spec)
    BY <1>1, <1>3, <2>1 DEF SubnetsCome
  <2>8. Others(to, rest, spec, seen, call[1], "subnets")
    BY <1>1, OthersCome
  <2> QED BY <1>1, <1>3, <2>2, <2>8 DEF Others, ComesTo
<1> QED BY <1>2, <1>3

LEMMA DataArrives ==
  ASSUME NEW from, NEW to, NEW rest, NEW spec, NEW seen, NEW call,
         \A f \in ObjectFields(spec.kind) \ {"data"} : to[f] = from[f],
         spec.kind = "launch_template", call[1] = "newVersion",
         to.data[Len(to.data)] = spec.data,
         ComesTo(from, {call} \cup rest, spec, seen)
  PROVE  ComesTo(to, rest, spec, seen)
<1>1. DataCome(to, rest, spec)
  BY DEF DataCome
<1>8. Others(to, rest, spec, seen, call[1], "data")
  BY OthersCome
<1> QED BY <1>1, <1>8 DEF Others, ComesTo

LEMMA DefaultArrives ==
  ASSUME NEW from, NEW to, NEW rest, NEW spec, NEW seen, NEW call,
         \A f \in ObjectFields(spec.kind) \ {"default"} : to[f] = from[f],
         spec.kind = "launch_template", call[1] = "defaultVersion", to.default = spec.default,
         ComesTo(from, {call} \cup rest, spec, seen)
  PROVE  ComesTo(to, rest, spec, seen)
<1>1. DefaultComes(to, rest, spec)
  BY DEF DefaultComes
<1>8. Others(to, rest, spec, seen, call[1], "default")
  BY OthersCome
<1> QED BY <1>1, <1>8 DEF Others, ComesTo

LEMMA InfoArrives ==
  ASSUME NEW from, NEW to, NEW rest, NEW spec, NEW seen, NEW call,
         \A f \in ObjectFields(spec.kind) \ {"info"} : to[f] = from[f],
         spec.kind = "capacity_reservation", call[1] = "modifyInfo",
         ComesTo(from, {call} \cup rest, spec, seen)
  PROVE  ComesTo(to, rest, spec, seen)
<1>8. Others(to, rest, spec, seen, call[1], "info")
  BY OthersCome
<1> QED BY <1>8 DEF Others, ComesTo

LEMMA CountArrives ==
  ASSUME NEW from, NEW to, NEW rest, NEW spec, NEW seen, NEW call,
         \A f \in ObjectFields(spec.kind) \ {"count"} : to[f] = from[f],
         spec.kind = "capacity_reservation", call[1] = "modifyCount", to.count = spec.count,
         ComesTo(from, {call} \cup rest, spec, seen)
  PROVE  ComesTo(to, rest, spec, seen)
<1>1. CountComes(to, rest, spec)
  BY DEF CountComes
<1>8. Others(to, rest, spec, seen, call[1], "count")
  BY OthersCome
<1> QED BY <1>1, <1>8 DEF Others, ComesTo

----------------------------------------------------------------------------
(* The calls of a plan.                                                    *)

\* What nothing is left to be done about is as declared.
LEMMA NothingLeft ==
  ASSUME NEW obj, NEW spec, NEW seen, ComesTo(obj, {}, spec, seen), ObjectIs(obj, spec.kind),
         spec.kind = "subnet" => spec.attrs \subseteq SubnetAttributes,
         spec.kind = "instance" => DOMAIN spec.attrs = Attributes
  PROVE  Exact(obj, spec)
<1>1. obj.tags = spec.tags
  BY DEF ComesTo, TagsCome
<1>2. ASSUME spec.kind \in {"subnet", "internet_gateway"}
      PROVE  obj.tables = spec.tables
  BY <1>2 DEF ComesTo, TablesCome, SetComes
<1>3. CASE spec.kind = "subnet"
  <2>1. AttrsCome(obj, {}, spec) /\ obj.attrs \subseteq SubnetAttributes
    BY <1>3 DEF ComesTo, ObjectIs
  <2>2. obj.attrs = spec.attrs
    BY <1>3, <2>1 DEF AttrsCome
  <2> QED BY <1>1, <1>2, <1>3, <2>2 DEF Exact, SubnetIs
<1>4. CASE spec.kind = "internet_gateway"
  <2>1. obj.vpc = spec.vpc
    BY <1>4 DEF ComesTo, VPCComes
  <2> QED BY <1>1, <1>2, <1>4, <2>1 DEF Exact, InternetGatewayIs
<1>5. CASE spec.kind = "dhcp_options"
  <2>1. obj.vpcs = spec.vpcs
    BY <1>5 DEF ComesTo, SetComes
  <2> QED BY <1>1, <1>5, <2>1 DEF Exact, DHCPOptionsAre
<1>6. CASE spec.kind = "network_acl"
  <2>1. obj.entries = spec.entries /\ obj.subnets = spec.subnets
    BY <1>6 DEF ComesTo, EntriesCome, SubnetsCome
  <2> QED BY <1>1, <1>6, <2>1 DEF Exact, NetworkACLIs
<1>7. CASE spec.kind = "instance"
  <2>1. Runs(obj, spec)
    BY <1>7 DEF ComesTo
  <2>2. obj.live
    BY <1>7, <2>1 DEF Runs, isRunning, ObjectIs
  <2> QED BY <1>1, <1>7, <2>1, <2>2 DEF Exact, InstanceIs, Runs
<1>8. CASE spec.kind = "launch_template"
  <2>1. obj.data[Len(obj.data)] = spec.data /\ obj.default = spec.default
    BY <1>8 DEF ComesTo, DataCome, DefaultComes
  <2>2. obj.live
    BY <1>8 DEF ObjectIs
  <2> QED BY <1>1, <1>8, <2>1, <2>2 DEF Exact, LaunchTemplateIs
<1>9. CASE spec.kind = "managed_prefix_list"
  <2>1. obj.entries = spec.entries /\ obj.max = spec.max
    BY <1>9 DEF ComesTo, ListComes
  <2>2. obj.live
    BY <1>9 DEF ObjectIs
  <2> QED BY <1>1, <1>9, <2>1, <2>2 DEF Exact, ManagedPrefixListIs
<1>10. CASE spec.kind = "capacity_reservation"
  <2>1. obj.count = spec.count
    BY <1>10 DEF ComesTo, CountComes
  <2> QED BY <1>1, <1>10, <2>1 DEF Exact, CapacityReservationIs
<1>11. KindOps(spec.kind) # {}
  BY DEF ComesTo
<1> QED BY <1>3, <1>4, <1>5, <1>6, <1>7, <1>8, <1>9, <1>10, <1>11 DEF KindOps

\* The attributes of a spec are those of its kind.
LEMMA AttributesAre ==
  ASSUME Tracked, ~At("idle")
  PROVE  /\ Kind("subnet") => w.spec.attrs \subseteq SubnetAttributes
         /\ Kind("instance") => DOMAIN w.spec.attrs = Attributes
BY ModificationAssumption DEF Tracked, TieInv, SpecsOK, Kind, Attributes

\* A call in an update of these kinds, and the ties it spares.
LEMMA HeadIs ==
  ASSUME Tracked, NEW op, Doing(op), w.mode = "update", w.spec.kind \in TieKinds
  PROVE  /\ op = "disassociate" => Arg \notin w.spec.tables
         /\ op = "detach" => Arg # w.spec.vpc
         /\ op = "detachVPC" => Arg \notin w.spec.vpcs
         /\ op = "deleteOld" => Arg[1] \notin w.spec.subnets
         /\ op = "updateEntry" => Numbered(w.spec.entries)
         /\ op = "deleteEntry" /\ Kind("network_acl") /\ Obj.live =>
              \A e \in Obj.entries \cap w.spec.entries : e[1] # Arg[1]
<1>1. /\ 1 \in DOMAIN w.plan /\ w.plan[1][1] = op /\ w.plan[1][2] = Arg
      /\ Spares(w.plan[1], w.spec)
      /\ Kind("network_acl") /\ Obj.live => Orderly(w.plan, Obj.entries, w.spec)
  BY TrackedIs, HeadSpares
<1> QED BY <1>1 DEF Spares, Orderly

LEMMA syncTagsFollows ==
  ASSUME Tracked, syncTags
  PROVE  Following'
<1> DEFINE removed == Obj.tags \ (w.seen.tags \ w.spec.tags)
           synced  == removed \cup (w.spec.tags \ w.seen.tags)
           between == [Obj EXCEPT !.tags = removed]
           to      == [Obj EXCEPT !.tags = synced]
<1>1. Doing("tags") /\ Head(w.plan)[1] = "tags"
  BY PlanIs DEF syncTags
<1>2. CASE Go(onError)
  BY <1>1, <1>2, WorkersAre, ReadFollows
<1>3. CASE Obj.live
  <2>1. ObjectIs(Obj, w.spec.kind) /\ Obj # Gone /\ "tags" \in ObjectFields(w.spec.kind)
    BY <1>1, <1>3, PlanIs DEF Gone, ObjectFields
  <2>2. Changed(Obj, to, "tags", synced, w.spec.kind)
    BY <2>1, FieldIs
  <2>3. Changed(Obj, between, "tags", removed, w.spec.kind)
    BY <2>1, FieldIs
  <2>4. CASE Call(to, Done, onError)
    <3>1. to.tags = synced
      BY <2>2 DEF Changed
    <3>2. Call(to, Done, onError) /\ Changed(Obj, to, "tags", to.tags, w.spec.kind)
      BY <2>2, <2>4, <3>1
    <3> HIDE DEF to
    <3>3. ObjectIs(to, w.spec.kind) /\ to # Gone
      BY <3>2 DEF Changed
    <3>4. Arrives(to)
      BY <1>1, <3>1, <3>2, TagsArrive DEF Arrives, Changed
    <3> QED BY <1>1, <3>2, <3>3, <3>4, WorkersAre, CallFollows
  <2>5. CASE w' = onError /\ UNCHANGED cr /\ ec2' = [ec2 EXCEPT ![w.id].tags = removed]
    <3>1. ec2' = [ec2 EXCEPT ![w.id] = between]
      BY <2>5 DEF Obj
    <3>2. ObjectIs(between, w.spec.kind)
      BY <2>3 DEF Changed
    <3> HIDE DEF between
    <3>3. ec2' \in {ec2, [ec2 EXCEPT ![w.id] = between]} /\ Stray(w') /\ UNCHANGED cr
      BY <1>1, <2>5, <3>1, WorkersAre
    <3> QED BY <1>1, <3>2, <3>3, CallComes
  <2> QED BY <1>2, <2>4, <2>5 DEF syncTags
<1> QED BY <1>2, <1>3 DEF syncTags

\* A read that may fail, or a call that is left out.
LEMMA NothingFollows ==
  ASSUME Tracked, NEW op \in {"find", "findACL", "defaultACL", "desired", "findReservation"},
         Doing(op), NEW next, next \in {Done, onError} \/ \E v : next = [Done EXCEPT !.version = v],
         Go(next) \/ Unread(next)
  PROVE  Following'
<1>1. Head(w.plan)[1] = op
  BY PlanIs
<1>2. Arrives(Obj)
  BY <1>1, NothingArrives DEF Arrives
<1> QED BY <1>2, WorkersAre, ReadFollows

LEMMA finishFollows ==
  ASSUME Tracked, finish
  PROVE  Following'
<1> DEFINE o == Over(w.end)
<1>1. /\ At("plan") /\ w.plan = <<>> /\ w' = o /\ UNCHANGED <<cr, ec2>>
      /\ DOMAIN w = WorkerFields /\ Frame /\ ~At("idle") /\ w.end \in Ends
      /\ w.id \in Ids /\ w.spec.kind = cr.spec.kind
  BY TrackedIs, DoingIs DEF finish, Go, At
<1>2. /\ o.pc = w.end /\ o.mode = w.mode /\ o.id = w.id /\ o.spec = w.spec
      /\ o.interfered = w.interfered /\ o.blind = w.blind
  BY <1>1 DEF Over, WorkerFields
<1> HIDE DEF o
<1>3. ObjectsAre'
  BY <1>1 DEF Tracked, Following, ObjectsAre
<1>4. CASE w.end # "synced" \/ w.mode # "update"
  BY <1>1, <1>2, <1>3, <1>4, QuietFollows DEF Following, Ends, Quiet
<1>5. CASE w.end = "synced" /\ w.mode = "update"
  <2>1. ASSUME ~w.interfered, ~w.blind
        PROVE  /\ Obj # Gone /\ Exact(Obj, w.spec)
               /\ Kind("managed_prefix_list") => Final(Obj)
    <3>1. Obj # Gone /\ ComesTo(Obj, Calls(w.plan), w.spec, w.seen)
      BY <1>1, <1>5, <2>1 DEF Tracked, Following, PassFollows, PlanComes, Unbiased
    <3>2. Calls(w.plan) = {}
      BY <1>1, CallsOfNone
    <3>3. ObjectIs(Obj, w.spec.kind)
      BY <1>1, <3>1, TrackedIs DEF Obj
    <3>4. Kind("managed_prefix_list") => Final(Obj)
      BY <3>1 DEF ComesTo, ListComes, Kind
    <3> QED BY <1>1, <3>1, <3>2, <3>3, <3>4, AttributesAre, NothingLeft DEF Kind
  <2>2. SyncedIsExact' /\ SyncedIsFinal'
    BY <1>1, <1>2, <2>1 DEF SyncedIsExact, SyncedIsFinal, Unbiased, Final, Kind, Obj
  <2>3. PassFits' /\ ReadIsThere' /\ FoundIsThere' /\ PlanComes'
    BY <1>1, <1>2, <1>5 DEF PassFits, ReadIsThere, FoundIsThere, PlanComes, At
  <2> QED BY <1>3, <2>2, <2>3 DEF Following, PassFollows
<1> QED BY <1>4, <1>5

\* The call that changes one field of the object in hand.
LEMMA ChangeFollows ==
  ASSUME Tracked, NEW op, Doing(op), Obj.live,
         NEW field \in ObjectFields(w.spec.kind) \ {"live", "state"}, NEW x,
         field = "attrs" => Kind("subnet") /\ x \subseteq SubnetAttributes,
         NEW to, to = [Obj EXCEPT ![field] = x],
         Changed(Obj, to, field, x, w.spec.kind) => Arrives(to),
         NEW next, Stray(next) \/ GoesOn(next), NEW failed, Stray(failed),
         Call(to, next, failed)
  PROVE  Following'
<1>1. ObjectIs(Obj, w.spec.kind)
  BY PlanIs DEF Gone
<1>2. Changed(Obj, to, field, x, w.spec.kind)
  BY <1>1, FieldIs DEF Kind
<1>3. ObjectIs(to, w.spec.kind) /\ Arrives(to)
  BY <1>2 DEF Changed
<1> QED BY <1>3, CallFollows

LEMMA RefusalFollows ==
  ASSUME Tracked, NEW op, Doing(op), NEW failed, Stray(failed), Go(failed)
  PROVE  Following'
BY ReadFollows

\* The calls of subnets and internet gateways.
LEMMA disassociateFollows ==
  ASSUME Tracked, disassociateRouteTable
  PROVE  Following'
<1> DEFINE x == Obj.tables \ {Arg}
           to == [Obj EXCEPT !.tables = x]
<1>1. Doing("disassociate")
  BY DEF disassociateRouteTable
<1>2. /\ Head(w.plan)[1] = "disassociate" /\ Head(w.plan)[2] = Arg
      /\ "disassociate" \in KindOps(w.spec.kind)
  BY <1>1, PlanIs
<1>3. w.spec.kind \in {"subnet", "internet_gateway"}
  BY <1>2 DEF KindOps
<1>4. w.mode = "update" => Arg \notin w.spec.tables
  BY <1>1, <1>3, HeadIs DEF TieKinds
<1>5. "tables" \in ObjectFields(w.spec.kind) \ {"live", "state"}
  BY <1>3 DEF ObjectFields
<1>6. CASE Go(onError)
  BY <1>1, <1>6, WorkersAre, RefusalFollows
<1>7. CASE Obj.live /\ Call(to, Done, onError)
  <2>1. to = [Obj EXCEPT !["tables"] = x] /\ Obj.live /\ Call(to, Done, onError)
    BY <1>7
  <2> HIDE DEF to
  <2>2. Changed(Obj, to, "tables", x, w.spec.kind) => Arrives(to)
    BY <1>2, <1>3, <1>4, TablesArrive DEF Changed, Arrives
  <2> QED BY <1>1, <1>5, <2>1, <2>2, WorkersAre, ChangeFollows
<1> QED BY <1>6, <1>7 DEF disassociateRouteTable

LEMMA associateFollows ==
  ASSUME Tracked, associateRouteTable
  PROVE  Following'
<1> DEFINE x == {Arg}
           to == [Obj EXCEPT !.tables = x]
<1>1. Doing("associate")
  BY DEF associateRouteTable
<1>2. /\ Head(w.plan)[1] = "associate" /\ Head(w.plan)[2] = Arg
      /\ "associate" \in KindOps(w.spec.kind) /\ Fits(Head(w.plan), w.spec)
  BY <1>1, PlanIs
<1>3. w.spec.kind \in {"subnet", "internet_gateway"}
  BY <1>2 DEF KindOps
<1>4. Arg \in w.spec.tables
  BY <1>2 DEF Fits
<1>5. "tables" \in ObjectFields(w.spec.kind) \ {"live", "state"}
  BY <1>3 DEF ObjectFields
<1>6. CASE Go(onError)
  BY <1>1, <1>6, WorkersAre, RefusalFollows
<1>7. CASE Obj.live /\ Obj.tables = {} /\ Call(to, Done, onError)
  <2>1. to = [Obj EXCEPT !["tables"] = x] /\ Obj.live /\ Call(to, Done, onError)
    BY <1>7
  <2> HIDE DEF to
  <2>2. Changed(Obj, to, "tables", x, w.spec.kind) => Arrives(to)
    BY <1>2, <1>3, <1>4, <1>7, TablesArrive DEF Changed, Arrives
  <2> QED BY <1>1, <1>5, <2>1, <2>2, WorkersAre, ChangeFollows
<1> QED BY <1>6, <1>7 DEF associateRouteTable

LEMMA attributeFollows ==
  ASSUME Tracked, updateSubnetAttribute
  PROVE  Following'
<1> DEFINE x  == IF Arg \in w.spec.attrs THEN Obj.attrs \cup {Arg} ELSE Obj.attrs \ {Arg}
           to == [Obj EXCEPT !.attrs = x]
<1>1. Doing("attribute")
  BY DEF updateSubnetAttribute
<1>2. /\ Head(w.plan)[1] = "attribute" /\ Head(w.plan)[2] = Arg
      /\ "attribute" \in KindOps(w.spec.kind) /\ Fits(Head(w.plan), w.spec)
      /\ Obj = Gone \/ ObjectIs(Obj, w.spec.kind)
  BY <1>1, PlanIs
<1>3. w.spec.kind = "subnet"
  BY <1>2 DEF KindOps
<1>4. Arg \in SubnetAttributes
  BY <1>2 DEF Fits
<1>5. "attrs" \in ObjectFields(w.spec.kind) \ {"live", "state"}
  BY <1>3 DEF ObjectFields
<1>6. CASE Go(onError)
  BY <1>1, <1>6, WorkersAre, RefusalFollows
<1>7. CASE Obj.live /\ Call(to, Done, onError)
  <2>1. to = [Obj EXCEPT !["attrs"] = x] /\ Obj.live /\ Call(to, Done, onError)
    BY <1>7
  <2>2. x \subseteq SubnetAttributes /\ Kind("subnet")
    BY <1>2, <1>3, <1>4, <2>1 DEF ObjectIs, Gone, Kind
  <2> HIDE DEF to
  <2>3. Changed(Obj, to, "attrs", x, w.spec.kind) => Arrives(to)
    <3> SUFFICES ASSUME Changed(Obj, to, "attrs", x, w.spec.kind),
                        ComesTo(Obj, {Head(w.plan)} \cup Calls(Tail(w.plan)), w.spec, w.seen)
                 PROVE  to # Gone /\ ComesTo(to, Calls(Tail(w.plan)), w.spec, w.seen)
      BY DEF Arrives
    <3>1. /\ to # Gone /\ \A f \in ObjectFields(w.spec.kind) \ {"attrs"} : to[f] = Obj[f]
          /\ to.attrs = IF Arg \in w.spec.attrs THEN Obj.attrs \cup {Arg} ELSE Obj.attrs \ {Arg}
      BY DEF Changed
    <3> HIDE DEF x
    <3> QED BY <1>2, <1>3, <3>1, AttributeArrives
  <2> QED BY <1>1, <1>5, <2>1, <2>2, <2>3, WorkersAre, ChangeFollows
<1> QED BY <1>6, <1>7 DEF updateSubnetAttribute

LEMMA detachFollows ==
  ASSUME Tracked, detachFromVPC
  PROVE  Following'
<1> DEFINE to == [Obj EXCEPT !.vpc = NoVPC]
<1>1. Doing("detach")
  BY DEF detachFromVPC
<1>2. /\ Head(w.plan)[1] = "detach" /\ Head(w.plan)[2] = Arg
      /\ "detach" \in KindOps(w.spec.kind)
  BY <1>1, PlanIs
<1>3. w.spec.kind = "internet_gateway"
  BY <1>2 DEF KindOps
<1>4. w.mode = "update" => Arg # w.spec.vpc
  BY <1>1, <1>3, HeadIs DEF TieKinds
<1>5. "vpc" \in ObjectFields(w.spec.kind) \ {"live", "state"}
  BY <1>3 DEF ObjectFields
<1>6. CASE Go(onError)
  BY <1>1, <1>6, WorkersAre, RefusalFollows
<1>7. CASE Obj.live /\ Obj.vpc = Arg /\ Call(to, Done, onError)
  <2>1. to = [Obj EXCEPT !["vpc"] = NoVPC] /\ Obj.live /\ Call(to, Done, onError)
    BY <1>7
  <2> HIDE DEF to
  <2>2. Changed(Obj, to, "vpc", NoVPC, w.spec.kind) => Arrives(to)
    BY <1>2, <1>3, <1>4, <1>7, VPCArrives DEF Changed, Arrives
  <2> QED BY <1>1, <1>5, <2>1, <2>2, WorkersAre, ChangeFollows
<1> QED BY <1>6, <1>7 DEF detachFromVPC

LEMMA attachFollows ==
  ASSUME Tracked, attachToVPC
  PROVE  Following'
<1> DEFINE to == [Obj EXCEPT !.vpc = Arg]
<1>1. Doing("attach")
  BY DEF attachToVPC
<1>2. /\ Head(w.plan)[1] = "attach" /\ Head(w.plan)[2] = Arg
      /\ "attach" \in KindOps(w.spec.kind) /\ Fits(Head(w.plan), w.spec)
  BY <1>1, PlanIs
<1>3. w.spec.kind = "internet_gateway"
  BY <1>2 DEF KindOps
<1>4. Arg = w.spec.vpc
  BY <1>2 DEF Fits
<1>5. "vpc" \in ObjectFields(w.spec.kind) \ {"live", "state"}
  BY <1>3 DEF ObjectFields
<1>6. CASE Go(onError)
  BY <1>1, <1>6, WorkersAre, RefusalFollows
<1>7. CASE Obj.live /\ Call(to, Done, onError)
  <2>1. to = [Obj EXCEPT !["vpc"] = Arg] /\ Obj.live /\ Call(to, Done, onError)
    BY <1>7
  <2> HIDE DEF to
  <2>2. Changed(Obj, to, "vpc", Arg, w.spec.kind) => Arrives(to)
    BY <1>2, <1>3, <1>4, VPCArrives DEF Changed, Arrives
  <2> QED BY <1>1, <1>5, <2>1, <2>2, WorkersAre, ChangeFollows
<1> QED BY <1>6, <1>7 DEF attachToVPC

\* Those of DHCP options.
LEMMA attachVPCFollows ==
  ASSUME Tracked, attachVPC
  PROVE  Following'
<1> DEFINE x  == Obj.vpcs \cup {Arg}
           to == [Obj EXCEPT !.vpcs = x]
<1>1. Doing("attachVPC")
  BY DEF attachVPC
<1>2. /\ Head(w.plan)[1] = "attachVPC" /\ Head(w.plan)[2] = Arg
      /\ "attachVPC" \in KindOps(w.spec.kind) /\ Fits(Head(w.plan), w.spec)
  BY <1>1, PlanIs
<1>3. w.spec.kind = "dhcp_options"
  BY <1>2 DEF KindOps
<1>4. Arg \in w.spec.vpcs
  BY <1>2 DEF Fits
<1>5. "vpcs" \in ObjectFields(w.spec.kind) \ {"live", "state"}
  BY <1>3 DEF ObjectFields
<1>6. CASE Go(Unnoticed)
  BY <1>1, <1>6, WorkersAre, RefusalFollows
<1>7. CASE Obj.live /\ Call(to, Done, Unnoticed)
  <2>1. to = [Obj EXCEPT !["vpcs"] = x] /\ Obj.live /\ Call(to, Done, Unnoticed)
    BY <1>7
  <2> HIDE DEF to
  <2>2. Changed(Obj, to, "vpcs", x, w.spec.kind) => Arrives(to)
    BY <1>2, <1>3, <1>4, VPCsArrive DEF Changed, Arrives
  <2> QED BY <1>1, <1>5, <2>1, <2>2, WorkersAre, ChangeFollows
<1> QED BY <1>6, <1>7 DEF attachVPC

LEMMA detachVPCFollows ==
  ASSUME Tracked, detachVPC
  PROVE  Following'
<1> DEFINE x  == Obj.vpcs \ {Arg}
           to == [Obj EXCEPT !.vpcs = x]
<1>1. Doing("detachVPC")
  BY DEF detachVPC
<1>2. /\ Head(w.plan)[1] = "detachVPC" /\ Head(w.plan)[2] = Arg
      /\ "detachVPC" \in KindOps(w.spec.kind)
  BY <1>1, PlanIs
<1>3. w.spec.kind = "dhcp_options"
  BY <1>2 DEF KindOps
<1>4. w.mode = "update" => Arg \notin w.spec.vpcs
  BY <1>1, <1>3, HeadIs DEF TieKinds
<1>5. "vpcs" \in ObjectFields(w.spec.kind) \ {"live", "state"}
  BY <1>3 DEF ObjectFields
<1>6. CASE Go(Unnoticed)
  BY <1>1, <1>6, WorkersAre, RefusalFollows
<1>7. CASE Obj.live /\ Call(to, Done, Unnoticed)
  <2>1. to = [Obj EXCEPT !["vpcs"] = x] /\ Obj.live /\ Call(to, Done, Unnoticed)
    BY <1>7
  <2> HIDE DEF to
  <2>2. Changed(Obj, to, "vpcs", x, w.spec.kind) => Arrives(to)
    BY <1>2, <1>3, <1>4, VPCsArrive DEF Changed, Arrives
  <2> QED BY <1>1, <1>5, <2>1, <2>2, WorkersAre, ChangeFollows
<1> QED BY <1>6, <1>7 DEF detachVPC

\* What is left of a creation after an error that is logged; an update returns it.
LEMMA LoggedStrays ==
  ASSUME Tracked, NEW op, Doing(op)
  PROVE  Stray(orLogged(op))
<1>1. /\ At("plan") /\ Fitting(w.plan, w.spec) /\ w.plan # <<>> /\ Head(w.plan)[1] = op
      /\ DOMAIN w = WorkerFields
  BY PlanIs
<1>2. CASE w.mode # "create"
  BY <1>2, WorkersAre DEF orLogged
<1>3. CASE w.mode = "create"
  <2> DEFINE calls == {i \in DOMAIN w.plan : w.plan[i][1] = op}
             left == Cardinality(calls)
             rest == SubSeq(w.plan, left + 1, Len(w.plan))
  <2>1. IsPlan(w.plan, KindOps(w.spec.kind))
    BY <1>1 DEF Fitting
  <2>2. /\ 1 \in 1 .. Len(w.plan) /\ w.plan[1][1] = op /\ DOMAIN w.plan = 1 .. Len(w.plan)
        /\ Len(w.plan) \in Nat
    BY <1>1, <2>1, TailIsRest, PlansAreSequences
  <2>3. IsFiniteSet(1 .. Len(w.plan)) /\ Cardinality(1 .. Len(w.plan)) = Len(w.plan)
    BY <2>2, FS_Interval
  <2>4. 1 \in calls /\ calls \subseteq 1 .. Len(w.plan)
    BY <2>2
  <2>5. orLogged(op) = [w EXCEPT !.plan = rest, !.blind = TRUE]
    BY <1>3 DEF orLogged
  <2> HIDE DEF calls
  <2>6. IsFiniteSet(calls) /\ left \in Nat /\ left <= Len(w.plan)
    BY <2>3, <2>4, FS_Subset, FS_CardinalityType
  <2>7. left # 0
    BY <2>4, <2>6, FS_EmptySet
  <2> HIDE DEF left
  <2>8. left \in 1 .. Len(w.plan)
    BY <2>2, <2>6, <2>7
  <2>9. IsPlan(rest, KindOps(w.spec.kind)) /\ Calls(rest) \subseteq Calls(w.plan)
    BY <2>1, <2>8, CallsOfRest
  <2> HIDE DEF rest
  <2>10. Fitting(rest, w.spec)
    BY <1>1, <2>9 DEF Fitting
  <2> QED BY <1>1, <2>5, <2>10 DEF Stray, WorkerFields, At
<1> QED BY <1>2, <1>3

\* The calls of network ACLs.
LEMMA refuseFollows ==
  ASSUME Tracked, refuseEntries
  PROVE  Following'
BY WorkersAre, RefusalFollows DEF refuseEntries

LEMMA createEntryFollows ==
  ASSUME Tracked, createEntry
  PROVE  Following'
<1> DEFINE x  == Obj.entries \cup {Arg}
           to == [Obj EXCEPT !.entries = x]
           failed == orLogged("createEntry")
<1>1. Doing("createEntry")
  BY DEF createEntry
<1>2. /\ Head(w.plan)[1] = "createEntry" /\ Head(w.plan)[2] = Arg
      /\ "createEntry" \in KindOps(w.spec.kind) /\ Fits(Head(w.plan), w.spec)
  BY <1>1, PlanIs
<1>3. w.spec.kind = "network_acl"
  BY <1>2 DEF KindOps
<1>4. Arg \in w.spec.entries
  BY <1>2 DEF Fits
<1>5. "entries" \in ObjectFields(w.spec.kind) \ {"live", "state"}
  BY <1>3 DEF ObjectFields
<1>6. Stray(failed)
  BY <1>1, LoggedStrays
<1> HIDE DEF failed
<1>7. CASE Go(failed)
  BY <1>1, <1>6, <1>7, RefusalFollows
<1>8. CASE Obj.live /\ Call(to, Done, failed)
  <2>1. to = [Obj EXCEPT !["entries"] = x] /\ Obj.live /\ Call(to, Done, failed)
    BY <1>8
  <2> HIDE DEF to
  <2>2. Changed(Obj, to, "entries", x, w.spec.kind) => Arrives(to)
    BY <1>2, <1>3, <1>4, EntryArrives DEF Changed, Arrives
  <2> QED BY <1>1, <1>5, <1>6, <2>1, <2>2, WorkersAre, ChangeFollows
<1> QED BY <1>7, <1>8 DEF createEntry, failed

LEMMA deleteEntryFollows ==
  ASSUME Tracked, deleteEntry
  PROVE  Following'
<1> DEFINE x  == {e \in Obj.entries : e[1] # Arg[1]}
           to == [Obj EXCEPT !.entries = x]
<1>1. Doing("deleteEntry")
  BY DEF deleteEntry
<1>2. /\ Head(w.plan)[1] = "deleteEntry" /\ Head(w.plan)[2] = Arg
      /\ "deleteEntry" \in KindOps(w.spec.kind)
  BY <1>1, PlanIs
<1>3. w.spec.kind = "network_acl"
  BY <1>2 DEF KindOps
<1>4. w.mode = "update" /\ Obj.live => \A e \in Obj.entries \cap w.spec.entries : e[1] # Arg[1]
  BY <1>1, <1>3, HeadIs DEF TieKinds, Kind
<1>5. "entries" \in ObjectFields(w.spec.kind) \ {"live", "state"}
  BY <1>3 DEF ObjectFields
<1>6. CASE Go(onError)
  BY <1>1, <1>6, WorkersAre, RefusalFollows
<1>7. CASE Obj.live /\ Call(to, Done, onError)
  <2>1. to = [Obj EXCEPT !["entries"] = x] /\ Obj.live /\ Call(to, Done, onError)
    BY <1>7
  <2> HIDE DEF to
  <2>2. Changed(Obj, to, "entries", x, w.spec.kind) => Arrives(to)
    <3> SUFFICES ASSUME Changed(Obj, to, "entries", x, w.spec.kind), w.mode = "update",
                        ComesTo(Obj, {Head(w.plan)} \cup Calls(Tail(w.plan)), w.spec, w.seen)
                 PROVE  to # Gone /\ ComesTo(to, Calls(Tail(w.plan)), w.spec, w.seen)
      BY DEF Arrives
    <3>1. /\ to # Gone /\ \A f \in ObjectFields(w.spec.kind) \ {"entries"} : to[f] = Obj[f]
          /\ to.entries = {e \in Obj.entries : e[1] # Arg[1]}
      BY DEF Changed
    <3>2. \A e \in Obj.entries \cap w.spec.entries : e[1] # Arg[1]
      BY <1>4, <2>1
    <3> HIDE DEF x
    <3> QED BY <1>2, <1>3, <3>1, <3>2, EntryArrives
  <2> QED BY <1>1, <1>5, <2>1, <2>2, WorkersAre, ChangeFollows
<1> QED BY <1>6, <1>7 DEF deleteEntry

LEMMA updateEntryFollows ==
  ASSUME Tracked, updateEntry
  PROVE  Following'
<1> DEFINE x  == {e \in Obj.entries : e[1] # Arg[1]} \cup {Arg}
           to == [Obj EXCEPT !.entries = x]
<1>1. Doing("updateEntry")
  BY DEF updateEntry
<1>2. /\ Head(w.plan)[1] = "updateEntry" /\ Head(w.plan)[2] = Arg
      /\ "updateEntry" \in KindOps(w.spec.kind) /\ Fits(Head(w.plan), w.spec)
  BY <1>1, PlanIs
<1>3. w.spec.kind = "network_acl"
  BY <1>2 DEF KindOps
<1>4. Arg \in w.spec.entries /\ (w.mode = "update" => Numbered(w.spec.entries))
  BY <1>1, <1>2, <1>3, HeadIs DEF TieKinds, Fits
<1>5. "entries" \in ObjectFields(w.spec.kind) \ {"live", "state"}
  BY <1>3 DEF ObjectFields
<1>6. CASE Go(onError)
  BY <1>1, <1>6, WorkersAre, RefusalFollows
<1>7. CASE Obj.live /\ Call(to, Done, onError)
  <2>1. to = [Obj EXCEPT !["entries"] = x] /\ Obj.live /\ Call(to, Done, onError)
    BY <1>7
  <2> HIDE DEF to
  <2>2. Changed(Obj, to, "entries", x, w.spec.kind) => Arrives(to)
    BY <1>2, <1>3, <1>4, EntryArrives DEF Changed, Arrives
  <2> QED BY <1>1, <1>5, <2>1, <2>2, WorkersAre, ChangeFollows
<1> QED BY <1>6, <1>7 DEF updateEntry

LEMMA upsertFollows ==
  ASSUME Tracked, upsertNewAssociations
  PROVE  Following'
<1> DEFINE x  == Obj.subnets \cup {Arg}
           to == [Obj EXCEPT !.subnets = x]
           failed == orLogged("upsert")
<1>1. Doing("upsert")
  BY DEF upsertNewAssociations
<1>2. /\ Head(w.plan)[1] = "upsert" /\ Head(w.plan)[2] = Arg
      /\ "upsert" \in KindOps(w.spec.kind) /\ Fits(Head(w.plan), w.spec)
  BY <1>1, PlanIs
<1>3. w.spec.kind = "network_acl"
  BY <1>2 DEF KindOps
<1>4. Arg \in w.spec.subnets
  BY <1>2 DEF Fits
<1>5. "subnets" \in ObjectFields(w.spec.kind) \ {"live", "state"}
  BY <1>3 DEF ObjectFields
<1>6. Stray(failed)
  BY <1>1, LoggedStrays
<1> HIDE DEF failed
<1>7. CASE Go(failed)
  BY <1>1, <1>6, <1>7, RefusalFollows
<1>8. CASE Obj.live /\ Call(to, Done, failed)
  <2>1. to = [Obj EXCEPT !["subnets"] = x] /\ Obj.live /\ Call(to, Done, failed)
    BY <1>8
  <2> HIDE DEF to
  <2>2. Changed(Obj, to, "subnets", x, w.spec.kind) => Arrives(to)
    BY <1>2, <1>3, <1>4, SubnetArrives DEF Changed, Arrives
  <2> QED BY <1>1, <1>5, <1>6, <2>1, <2>2, WorkersAre, ChangeFollows
<1> QED BY <1>7, <1>8 DEF upsertNewAssociations, failed

LEMMA deleteOldFollows ==
  ASSUME Tracked, deleteOldAssociations
  PROVE  Following'
<1> DEFINE x  == Obj.subnets \ {Arg[1]}
           to == [Obj EXCEPT !.subnets = x]
<1>1. Doing("deleteOld")
  BY DEF deleteOldAssociations
<1>2. /\ Head(w.plan)[1] = "deleteOld" /\ Head(w.plan)[2] = Arg
      /\ "deleteOld" \in KindOps(w.spec.kind)
  BY <1>1, PlanIs
<1>3. w.spec.kind = "network_acl"
  BY <1>2 DEF KindOps
<1>4. w.mode = "update" => Arg[1] \notin w.spec.subnets
  BY <1>1, <1>3, HeadIs DEF TieKinds
<1>5. "subnets" \in ObjectFields(w.spec.kind) \ {"live", "state"}
  BY <1>3 DEF ObjectFields
<1>6. CASE Go(onError)
  BY <1>1, <1>6, WorkersAre, RefusalFollows
<1>7. CASE Obj.live /\ Call(to, Done, onError)
  <2>1. to = [Obj EXCEPT !["subnets"] = x] /\ Obj.live /\ Call(to, Done, onError)
    BY <1>7
  <2> HIDE DEF to
  <2>2. Changed(Obj, to, "subnets", x, w.spec.kind) => Arrives(to)
    BY <1>2, <1>3, <1>4, SubnetArrives DEF Changed, Arrives
  <2> QED BY <1>1, <1>5, <2>1, <2>2, WorkersAre, ChangeFollows
<1> QED BY <1>6, <1>7 DEF deleteOldAssociations

\* The reads after an update, and a call that is left out.
LEMMA readsFollow ==
  ASSUME Tracked, \/ findAfterUpdate \/ describeDefaultACL \/ findACLAfterUpdate
                  \/ findReservationAfterUpdate \/ returnDesired
  PROVE  Following'
<1>1. CASE findAfterUpdate
  BY <1>1, NothingFollows DEF findAfterUpdate
<1>2. CASE describeDefaultACL
  BY <1>2, NothingFollows DEF describeDefaultACL
<1>3. CASE findACLAfterUpdate
  BY <1>3, NothingFollows DEF findACLAfterUpdate
<1>4. CASE findReservationAfterUpdate
  BY <1>4, NothingFollows DEF findReservationAfterUpdate
<1>5. CASE returnDesired
  BY <1>5, NothingFollows DEF returnDesired
<1> QED BY <1>1, <1>2, <1>3, <1>4, <1>5

\* Those of instances, templates, lists and reservations.
LEMMA modifyInstanceFollows ==
  ASSUME Tracked, modifyInstanceAttributes
  PROVE  Following'
<1> DEFINE attrs == [Obj.attrs EXCEPT ![Arg] = w.spec.attrs[Arg]]
           to    == [Obj EXCEPT !.attrs = attrs]
<1>1. Doing("modifyInstance")
  BY DEF modifyInstanceAttributes
<1>2. /\ Head(w.plan)[1] = "modifyInstance" /\ "modifyInstance" \in KindOps(w.spec.kind)
      /\ Obj = Gone \/ ObjectIs(Obj, w.spec.kind)
  BY <1>1, PlanIs
<1>3. w.spec.kind = "instance"
  BY <1>2 DEF KindOps
<1>4. CASE Go(onError)
  BY <1>1, <1>4, WorkersAre, RefusalFollows
<1>5. CASE Obj.live /\ Call([Obj EXCEPT !.attrs[Arg] = w.spec.attrs[Arg]], Done, onError)
  <2>1. Call(to, Done, onError) /\ Obj.live
    BY <1>5
  <2>2. /\ DOMAIN Obj = ObjectFields("instance") /\ DOMAIN Obj.attrs = Attributes
        /\ Obj.live <=> Obj.state \in {"pending", "running", "stopping", "stopped"}
    BY <1>2, <1>3, <2>1 DEF ObjectIs, Gone
  <2>3. /\ DOMAIN to = ObjectFields("instance") /\ DOMAIN to.attrs = Attributes
        /\ to.live = Obj.live /\ to.state = Obj.state
    BY <2>2 DEF ObjectFields
  <2> HIDE DEF to
  <2>4. ObjectIs(to, w.spec.kind)
    BY <1>3, <2>2, <2>3 DEF ObjectIs
  <2>5. Arrives(to)
    BY <1>2, <1>3 DEF Arrives, ComesTo
  <2> QED BY <1>1, <2>1, <2>4, <2>5, WorkersAre, CallFollows
<1> QED BY <1>4, <1>5 DEF modifyInstanceAttributes

LEMMA DeferredStrays ==
  ASSUME Tracked, Doing("newVersion")
  PROVE  Stray(orDeferred)
<1>1. /\ At("plan") /\ DOMAIN w = WorkerFields /\ "newVersion" \in KindOps(w.spec.kind)
  BY PlanIs
<1>2. w.spec.kind = "launch_template"
  BY <1>1 DEF KindOps
<1>3. CASE Len(w.plan) = 1
  BY <1>3, WorkersAre DEF orDeferred
<1>4. CASE Len(w.plan) # 1
  <2> DEFINE a == <<"defaultVersion", w.spec.default>>
             b == <<"nothing", {}>>
             p == <<a, b>>
  <2>1. a[1] = "defaultVersion" /\ b[1] = "nothing" /\ a[2] = w.spec.default
    OBVIOUS
  <2>2. orDeferred = [w EXCEPT !.plan = p, !.blind = TRUE]
    BY <1>4 DEF orDeferred
  <2> HIDE DEF a, b
  <2>3. p \in Seq({a, b}) /\ Len(p) = 2 /\ p[1] = a /\ p[2] = b /\ DOMAIN p = 1 .. 2
    OBVIOUS
  <2> HIDE DEF p
  <2>4. \A i \in 1 .. Len(p) : p[i][1] \in KindOps(w.spec.kind)
    BY <1>2, <2>1, <2>3 DEF KindOps
  <2>5. IsPlan(p, KindOps(w.spec.kind))
    BY <2>3, <2>4, SequencesArePlans
  <2>6. Fits(a, w.spec) /\ Fits(b, w.spec)
    BY <2>1 DEF Fits
  <2>7. Fitting(p, w.spec)
    BY <2>3, <2>5, <2>6 DEF Fitting, Calls
  <2> QED BY <1>1, <2>2, <2>7 DEF Stray, WorkerFields, At
<1> QED BY <1>3, <1>4

LEMMA newVersionFollows ==
  ASSUME Tracked, CreateLaunchTemplateVersion
  PROVE  Following'
<1> DEFINE x  == Append(Obj.data, Arg)
           to == [Obj EXCEPT !.data = x]
           v  == Len(Obj.data) + 1
           next == [Done EXCEPT !.version = v]
           failed == orDeferred
<1>1. Doing("newVersion")
  BY DEF CreateLaunchTemplateVersion
<1>2. /\ Head(w.plan)[1] = "newVersion" /\ Head(w.plan)[2] = Arg
      /\ "newVersion" \in KindOps(w.spec.kind) /\ Fits(Head(w.plan), w.spec)
      /\ Obj = Gone \/ ObjectIs(Obj, w.spec.kind)
      /\ w.id \in Ids /\ w.spec.kind = cr.spec.kind
  BY <1>1, PlanIs
<1>3. w.spec.kind = "launch_template"
  BY <1>2 DEF KindOps
<1>4. Arg = w.spec.data
  BY <1>2 DEF Fits
<1>5. Stray(failed)
  BY <1>1, DeferredStrays
<1>6. Call(to, next, failed)
  BY DEF CreateLaunchTemplateVersion, newLaunchTemplateVersion
<1>7. GoesOn(next)
  BY <1>1, WorkersAre
<1> HIDE DEF next, failed
<1>8. CASE Obj = Gone
  <2>1. to = Gone
    BY <1>8 DEF Gone
  <2>2. Arrives(to)
    BY <1>8 DEF Arrives
  <2> HIDE DEF to
  <2> QED BY <1>1, <1>5, <1>6, <1>7, <2>1, <2>2, CallFollows
<1>9. CASE Obj # Gone
  <2>1. ObjectIs(Obj, w.spec.kind) /\ Obj.live
    BY <1>2, <1>3, <1>9 DEF ObjectIs
  <2>2. IsSequence(Obj.data) /\ Obj.data # <<>>
    BY <1>2, <1>3, <2>1 DEF Tracked, TemplateInv, TemplatesOK, Live, Obj
  <2>3. Len(Obj.data) \in Nat /\ Len(x) = Len(Obj.data) + 1 /\ x[Len(Obj.data) + 1] = Arg
    BY <2>2, SequenceIs, AppendIs
  <2>4. x[Len(x)] = w.spec.data
    BY <1>4, <2>3
  <2>5. "data" \in ObjectFields(w.spec.kind) \ {"live", "state"}
    BY <1>3 DEF ObjectFields
  <2> HIDE DEF x
  <2>6. to = [Obj EXCEPT !["data"] = x] /\ Call(to, next, failed)
    BY <1>6
  <2> HIDE DEF to
  <2>7. Changed(Obj, to, "data", x, w.spec.kind) => Arrives(to)
    <3> SUFFICES ASSUME Changed(Obj, to, "data", x, w.spec.kind),
                        ComesTo(Obj, {Head(w.plan)} \cup Calls(Tail(w.plan)), w.spec, w.seen)
                 PROVE  to # Gone /\ ComesTo(to, Calls(Tail(w.plan)), w.spec, w.seen)
      BY DEF Arrives
    <3>1. /\ to # Gone /\ \A f \in ObjectFields(w.spec.kind) \ {"data"} : to[f] = Obj[f]
          /\ to.data[Len(to.data)] = w.spec.data
      BY <2>4 DEF Changed
    <3> QED BY <1>2, <1>3, <3>1, DataArrives
  <2> QED BY <1>1, <1>5, <1>7, <2>1, <2>5, <2>6, <2>7, ChangeFollows
<1> QED BY <1>8, <1>9

LEMMA defaultVersionFollows ==
  ASSUME Tracked, updateDefaultVersion
  PROVE  Following'
<1> DEFINE to == [Obj EXCEPT !.default = Arg]
<1>1. Doing("defaultVersion")
  BY DEF updateDefaultVersion
<1>2. /\ Head(w.plan)[1] = "defaultVersion" /\ Head(w.plan)[2] = Arg
      /\ "defaultVersion" \in KindOps(w.spec.kind) /\ Fits(Head(w.plan), w.spec)
      /\ Obj = Gone \/ ObjectIs(Obj, w.spec.kind)
  BY <1>1, PlanIs
<1>3. w.spec.kind = "launch_template"
  BY <1>2 DEF KindOps
<1>4. Arg = w.spec.default
  BY <1>2 DEF Fits
<1>5. CASE Go(onError)
  BY <1>1, <1>5, WorkersAre, RefusalFollows
<1>6. CASE Call(to, Done, onError) /\ Obj = Gone
  <2>1. to = Gone /\ Call(to, Done, onError)
    BY <1>6 DEF Gone
  <2>2. Arrives(to)
    BY <1>6 DEF Arrives
  <2> HIDE DEF to
  <2> QED BY <1>1, <2>1, <2>2, WorkersAre, CallFollows
<1>7. CASE Call(to, Done, onError) /\ Obj # Gone
  <2>1. to = [Obj EXCEPT !["default"] = Arg] /\ Call(to, Done, onError) /\ Obj.live
    BY <1>2, <1>3, <1>7 DEF ObjectIs
  <2>2. "default" \in ObjectFields(w.spec.kind) \ {"live", "state"}
    BY <1>3 DEF ObjectFields
  <2> HIDE DEF to
  <2>3. Changed(Obj, to, "default", Arg, w.spec.kind) => Arrives(to)
    <3> SUFFICES ASSUME Changed(Obj, to, "default", Arg, w.spec.kind),
                        ComesTo(Obj, {Head(w.plan)} \cup Calls(Tail(w.plan)), w.spec, w.seen)
                 PROVE  to # Gone /\ ComesTo(to, Calls(Tail(w.plan)), w.spec, w.seen)
      BY DEF Arrives
    <3>1. /\ to # Gone /\ \A f \in ObjectFields(w.spec.kind) \ {"default"} : to[f] = Obj[f]
          /\ to.default = w.spec.default
      BY <1>4 DEF Changed
    <3> QED BY <1>2, <1>3, <3>1, DefaultArrives
  <2> QED BY <1>1, <2>1, <2>2, <2>3, WorkersAre, ChangeFollows
<1> QED BY <1>5, <1>6, <1>7 DEF updateDefaultVersion

LEMMA modifyListFollows ==
  ASSUME Tracked, ModifyManagedPrefixList
  PROVE  Following'
<1> DEFINE next == [Reported(FALSE) EXCEPT !.plan = Tail(@)]
           entries == (Obj.entries \ computeEntriesToRemove(w.spec.entries, w.seen.entries))
                        \cup computeEntriesToAdd(w.spec.entries, w.seen.entries)
           to == [Obj EXCEPT !.state = "modify-in-progress", !.max = w.spec.max,
                    !.next = entries]
<1>1. Doing("modifyList") /\ Kind("managed_prefix_list")
  BY DEF ModifyManagedPrefixList
<1>2. Obj = Gone \/ ObjectIs(Obj, w.spec.kind)
  BY <1>1, PlanIs
<1>3. Stray(next)
  <2> DEFINE r == Reported(FALSE)
  <2>1. DOMAIN w = WorkerFields
    BY <1>1, PlanIs
  <2>2. r.plan = w.plan
    BY <2>1 DEF Reported, WorkerFields
  <2>3. next = [r EXCEPT !.plan = Tail(w.plan)]
    BY <2>2
  <2> QED BY <1>1, <2>3, WorkersAre
<1>4. CASE Go(onError)
  BY <1>1, <1>4, WorkersAre, RefusalFollows
<1>5. CASE Obj.live /\ Call(to, next, onError)
  <2>1. Call(to, next, onError) /\ ObjectIs(Obj, "managed_prefix_list")
    BY <1>1, <1>2, <1>5 DEF Gone, Kind
  <2> HIDE DEF next, entries
  <2>2. DOMAIN to = ObjectFields("managed_prefix_list") /\ to.live
    BY <2>1 DEF ObjectIs, ObjectFields
  <2> HIDE DEF to
  <2>3. ObjectIs(to, w.spec.kind)
    BY <1>1, <2>2 DEF ObjectIs, Kind
  <2> QED BY <1>1, <1>3, <2>1, <2>3, WorkersAre, CallFollows
<1> QED BY <1>4, <1>5 DEF ModifyManagedPrefixList, modifyAccepted

LEMMA modifyReservationFollows ==
  ASSUME Tracked, modifyCapacityReservation
  PROVE  Following'
<1>1. CASE Doing("modifyInfo") /\
             IF Obj.live THEN Call([Obj EXCEPT !.info = Arg], Done, onError) ELSE Go(onError)
  <2> DEFINE to == [Obj EXCEPT !.info = Arg]
  <2>1. /\ Head(w.plan)[1] = "modifyInfo" /\ Head(w.plan)[2] = Arg
        /\ "modifyInfo" \in KindOps(w.spec.kind)
    BY <1>1, PlanIs
  <2>2. w.spec.kind = "capacity_reservation"
    BY <2>1 DEF KindOps
  <2>3. "info" \in ObjectFields(w.spec.kind) \ {"live", "state"}
    BY <2>2 DEF ObjectFields
  <2>4. CASE Go(onError)
    BY <1>1, <2>4, WorkersAre, RefusalFollows
  <2>5. CASE Obj.live /\ Call(to, Done, onError)
    <3>1. to = [Obj EXCEPT !["info"] = Arg] /\ Call(to, Done, onError) /\ Obj.live
      BY <2>5
    <3> HIDE DEF to
    <3>2. Changed(Obj, to, "info", Arg, w.spec.kind) => Arrives(to)
      BY <2>1, <2>2, InfoArrives DEF Changed, Arrives
    <3> QED BY <1>1, <2>3, <3>1, <3>2, WorkersAre, ChangeFollows
  <2> QED BY <1>1, <2>4, <2>5
<1>2. CASE Doing("modifyCount") /\
             IF Obj.live THEN Call([Obj EXCEPT !.count = Arg], Done, onError) ELSE Go(onError)
  <2> DEFINE to == [Obj EXCEPT !.count = Arg]
  <2>1. /\ Head(w.plan)[1] = "modifyCount" /\ Head(w.plan)[2] = Arg
        /\ "modifyCount" \in KindOps(w.spec.kind) /\ Fits(Head(w.plan), w.spec)
    BY <1>2, PlanIs
  <2>2. w.spec.kind = "capacity_reservation" /\ Arg = w.spec.count
    BY <2>1 DEF KindOps, Fits
  <2>3. "count" \in ObjectFields(w.spec.kind) \ {"live", "state"}
    BY <2>2 DEF ObjectFields
  <2>4. CASE Go(onError)
    BY <1>2, <2>4, WorkersAre, RefusalFollows
  <2>5. CASE Obj.live /\ Call(to, Done, onError)
    <3>1. to = [Obj EXCEPT !["count"] = Arg] /\ Call(to, Done, onError) /\ Obj.live
      BY <2>5
    <3> HIDE DEF to
    <3>2. Changed(Obj, to, "count", Arg, w.spec.kind) => Arrives(to)
      BY <2>1, <2>2, CountArrives DEF Changed, Arrives
    <3> QED BY <1>2, <2>3, <3>1, <3>2, WorkersAre, ChangeFollows
  <2> QED BY <1>2, <2>4, <2>5
<1> QED BY <1>1, <1>2 DEF modifyCapacityReservation

LEMMA returnNothingFollows ==
  ASSUME Tracked, returnNothing
  PROVE  Following'
BY IdleIs, ReadFollows DEF returnNothing, Stray, Quiet

\* The call that deletes the object, at the end of a plan.
LEMMA DeletionFollows ==
  ASSUME Tracked, Doing("delete"), NEW allowed, Delete(allowed)
  PROVE  Following'
<1> DEFINE next == [w EXCEPT !.pc = "release"]
<1>1. Stray(next)
  BY PlanIs DEF WorkerFields, Stray, Quiet
<1>2. Call(Gone, next, onError) \/ Go(onError)
  BY DEF Delete
<1> HIDE DEF next
<1> QED BY <1>1, <1>2, WorkersAre, CallFollows

\* The calls that bring the tables to what is declared.
LEMMA AssociationsFit ==
  ASSUME NEW spec, spec.kind \in {"subnet", "internet_gateway"}, IsFiniteSet(spec.tables),
         NEW have, IsFiniteSet(have), NEW calls \in AssociationPlans(spec.tables, have)
  PROVE  /\ Fitting(calls, spec)
         /\ \A x \in spec.tables \ have : <<"associate", x>> \in Calls(calls)
         /\ \A x \in have \ spec.tables : <<"disassociate", x>> \in Calls(calls)
<1> DEFINE want == spec.tables
           out  == have \ want
           in   == want \ have
           S    == ForEach("disassociate", out)
           T    == ForEach("associate", in)
           J    == {s \o t : s \in S, t \in T}
<1>1. AssociationPlans(want, have) = J
  BY DEF AssociationPlans
<1>2. IsFiniteSet(out) /\ IsFiniteSet(in)
  BY FS_Subset, FS_Difference
<1>3. {"disassociate", "associate"} \subseteq KindOps(spec.kind)
  BY DEF KindOps
<1>4. /\ \A x \in out : Fits(<<"disassociate", x>>, spec)
      /\ \A x \in in : Fits(<<"associate", x>>, spec)
  BY DEF Fits
<1>5. ASSUME NEW s \in S
      PROVE  Fitting(s, spec) /\ Calls(s) = {<<"disassociate", x>> : x \in out}
  BY <1>2, <1>3, <1>4, ForEachFits
<1>6. ASSUME NEW t \in T
      PROVE  Fitting(t, spec) /\ Calls(t) = {<<"associate", x>> : x \in in}
  BY <1>2, <1>3, <1>4, ForEachFits
<1> HIDE DEF S, T
<1>7. PICK s \in S, t \in T : calls = s \o t
  BY <1>1
<1>8. Fitting(calls, spec) /\ Calls(calls) = Calls(s) \cup Calls(t)
  BY <1>5, <1>6, <1>7, ConcatFits
<1> QED BY <1>5, <1>6, <1>8

\* Of what is still to come, the tables are read again.
LEMMA RereadArrives ==
  ASSUME NEW obj, NEW call, NEW rest, NEW more, NEW spec, NEW seen,
         ComesTo(obj, {call} \cup rest, spec, seen), call[1] = "routeTables",
         spec.kind \in {"subnet", "internet_gateway"}, rest \subseteq more,
         \A x \in spec.tables \ obj.tables : <<"associate", x>> \in more,
         \A x \in obj.tables \ spec.tables : <<"disassociate", x>> \in more
  PROVE  ComesTo(obj, more, spec, seen)
<1>1. Others(obj, rest, spec, seen, call[1], "none")
  BY OthersCome
<1>2. TagsCome(obj, more, spec, seen)
  BY <1>1 DEF Others, TagsCome
<1>3. spec.kind = "subnet" => AttrsCome(obj, more, spec)
  BY <1>1 DEF Others, AttrsCome
<1>4. spec.kind = "internet_gateway" => VPCComes(obj, more, spec)
  BY <1>1 DEF Others, VPCComes
<1>5. TablesCome(obj, more, spec)
  BY DEF TablesCome, SetComes
<1> QED BY <1>2, <1>3, <1>4, <1>5 DEF ComesTo

LEMMA routeTablesFollows ==
  ASSUME Tracked, updateRouteTableAssociations
  PROVE  Following'
<1>1. Doing("routeTables")
  BY DEF updateRouteTableAssociations
<1>2. /\ Head(w.plan)[1] = "routeTables" /\ "routeTables" \in KindOps(w.spec.kind)
      /\ Obj = Gone \/ ObjectIs(Obj, w.spec.kind)
      /\ w.id \in Ids /\ w.spec.kind = cr.spec.kind /\ ~At("idle") /\ At("plan")
      /\ Fitting(Tail(w.plan), w.spec) /\ DOMAIN w = WorkerFields
      /\ Calls(w.plan) = {Head(w.plan)} \cup Calls(Tail(w.plan))
  BY <1>1, PlanIs
<1>3. w.spec.kind \in {"subnet", "internet_gateway"}
  BY <1>2 DEF KindOps
<1>4. IsFiniteSet(w.spec.tables)
  BY <1>2, <1>3, TrackedIs, SpecsAre
<1>5. PICK answered \in BOOLEAN :
        /\ DescribeRouteTables(answered)
        /\ \E calls \in AssociationPlans(w.spec.tables, getRouteTableAssociations(answered)) :
             w' = [w EXCEPT !.plan = calls \o Tail(@), !.blind = @ \/ ~answered]
  BY DEF updateRouteTableAssociations
<1> DEFINE have == getRouteTableAssociations(answered)
<1>6. PICK calls \in AssociationPlans(w.spec.tables, have) :
        w' = [w EXCEPT !.plan = calls \o Tail(@), !.blind = @ \/ ~answered]
  BY <1>5
<1>7. IsFiniteSet(have)
  <2>1. Healthy(Obj, w.spec.kind)
    BY <1>2, TrackedIs, TieInvIs DEF Obj
  <2>2. Obj.live => IsFiniteSet(Obj.tables)
    BY <1>3, <2>1 DEF Healthy, TieKinds, Gone
  <2> QED BY <2>2, FS_EmptySet DEF getRouteTableAssociations
<1>8. answered /\ Obj # Gone => have = Obj.tables
  BY <1>2, <1>3 DEF ObjectIs, getRouteTableAssociations
<1> HIDE DEF have
<1>9. /\ Fitting(calls, w.spec)
      /\ \A x \in w.spec.tables \ have : <<"associate", x>> \in Calls(calls)
      /\ \A x \in have \ w.spec.tables : <<"disassociate", x>> \in Calls(calls)
  BY <1>3, <1>4, <1>7, AssociationsFit
<1> DEFINE plan == calls \o Tail(w.plan)
<1>10. Fitting(plan, w.spec) /\ Calls(plan) = Calls(calls) \cup Calls(Tail(w.plan))
  BY <1>2, <1>9, ConcatFits
<1>11. /\ w'.pc = "plan" /\ w'.plan = plan /\ w'.mode = w.mode /\ w'.id = w.id
       /\ w'.spec = w.spec /\ w'.seen = w.seen /\ w'.interfered = w.interfered
       /\ w'.end = w.end /\ w'.blind = (w.blind \/ ~answered)
  BY <1>2, <1>6 DEF WorkerFields, At
<1>12. UNCHANGED <<cr, ec2>>
  BY <1>5 DEF DescribeRouteTables
<1> HIDE DEF plan
<1>13. ASSUME w'.mode = "update", ~w'.interfered, ~w'.blind, w'.end = "synced"
       PROVE  Obj' # Gone /\ ComesTo(Obj', Calls(w'.plan), w'.spec, w'.seen)
  <2>1. answered /\ ~w.blind
    BY <1>11, <1>13
  <2>2. Obj # Gone /\ ComesTo(Obj, {Head(w.plan)} \cup Calls(Tail(w.plan)), w.spec, w.seen)
    BY <1>2, <1>11, <1>13, <2>1 DEF Tracked, Following, PassFollows, PlanComes, Unbiased
  <2>3. /\ \A x \in w.spec.tables \ Obj.tables : <<"associate", x>> \in Calls(plan)
        /\ \A x \in Obj.tables \ w.spec.tables : <<"disassociate", x>> \in Calls(plan)
        /\ Calls(Tail(w.plan)) \subseteq Calls(plan)
    BY <1>8, <1>9, <1>10, <2>1, <2>2
  <2>4. ComesTo(Obj, Calls(plan), w.spec, w.seen)
    BY <1>2, <1>3, <2>2, <2>3, RereadArrives
  <2> QED BY <1>11, <1>12, <2>2, <2>4 DEF Obj
<1>14. PassFollows'
  BY <1>10, <1>11, <1>13, PlanFollows
<1>15. ObjectsAre'
  BY <1>12 DEF Tracked, Following, ObjectsAre
<1> QED BY <1>14, <1>15 DEF Following

----------------------------------------------------------------------------
(* The reads a pass begins with.                                           *)

LEMMA NothingChanges ==
  ASSUME Tracked, UNCHANGED <<cr, ec2>>, PassFollows'
  PROVE  Following'
BY DEF Tracked, Following, ObjectsAre

LEMMA DescribeFollows ==
  ASSUME Tracked, NEW found, NEW missing, Describe(found, missing), missing.pc \in Quiet,
         w.id # 0 /\ Obj # Gone /\ ObjectIs(Obj, w.spec.kind) /\ Go(found) => PassFollows'
  PROVE  Following'
<1>1. /\ At("describe") /\ ~At("idle") /\ Frame /\ DOMAIN w = WorkerFields
      /\ w.spec.kind = cr.spec.kind /\ w.id \in Ids \cup {0}
  BY TrackedIs, WorkerIs DEF Describe, At
<1>2. NotFound.pc \in Quiet /\ onError.pc \in Quiet
  BY <1>1, onErrorIs DEF NotFound, Quiet, WorkerFields
<1>3. CASE w'.pc \in Quiet /\ UNCHANGED <<cr, ec2>>
  BY <1>3, QuietFollows, NothingChanges
<1>4. CASE Go(found) /\ w.id # 0 /\ Obj # Gone
  <2>1. ObjectIs(Obj, w.spec.kind)
    BY <1>1, <1>4, TrackedIs DEF Obj
  <2>2. PassFollows' /\ UNCHANGED <<cr, ec2>>
    BY <1>4, <2>1 DEF Go
  <2> QED BY <2>2, NothingChanges
<1> QED BY <1>2, <1>3, <1>4 DEF Describe, Go, Unread

LEMMA StageFollows ==
  ASSUME w'.pc \in {"associations", "version", "entries", "found"},
         PassFits', ReadIsThere', FoundIsThere'
  PROVE  PassFollows'
BY DEF PassFollows, PlanComes, SyncedIsExact, SyncedIsFinal, At

\* The first read of two: all of the object.
LEMMA FirstReadFollows ==
  ASSUME Tracked, At("describe"), w.id # 0, Obj # Gone, ObjectIs(Obj, w.spec.kind),
         \/ w' = [Found EXCEPT !.pc = "associations"]
              /\ w.spec.kind \in {"subnet", "internet_gateway"}
         \/ w' = [Found EXCEPT !.pc = "version"] /\ Kind("launch_template")
         \/ w' = [Found EXCEPT !.pc = "entries"] /\ Kind("managed_prefix_list"),
         ec2' = ec2
  PROVE  PassFollows'
<1>1. DOMAIN w = WorkerFields /\ ~w.blind
  BY TrackedIs DEF Tracked, Following, PassFollows, PassFits, At
<1>2. /\ w'.pc \in {"associations", "version", "entries"} /\ w'.seen = Obj /\ ~w'.blind
      /\ w'.spec = w.spec /\ w'.id = w.id /\ Obj' = Obj
      /\ w'.pc = "associations" => w.spec.kind \in {"subnet", "internet_gateway"}
      /\ w'.pc = "version" => w.spec.kind = "launch_template"
      /\ w'.pc = "entries" => w.spec.kind = "managed_prefix_list"
  BY <1>1 DEF Found, WorkerFields, Kind, Obj
<1>3. PassFits'
  BY <1>2 DEF PassFits, At, Kind, IsListed
<1>4. w'.pc = "entries" => "entries" \in DOMAIN Obj
  BY <1>2 DEF ObjectIs, ObjectFields
<1>5. ReadIsThere'
  BY <1>2, <1>4 DEF ReadIsThere, At, Final
<1>6. FoundIsThere'
  BY <1>2 DEF FoundIsThere, At
<1> QED BY <1>2, <1>3, <1>5, <1>6, StageFollows

LEMMA findFollows ==
  ASSUME Tracked,
         sdkFindSubnet \/ sdkFindInternetGateway \/ sdkFindLaunchTemplate
           \/ sdkFindManagedPrefixList
  PROVE  Following'
<1> DEFINE a == [Found EXCEPT !.pc = "associations"]
           v == [Found EXCEPT !.pc = "version"]
           e == [Found EXCEPT !.pc = "entries"]
<1>1. At("describe")
  BY DEF sdkFindSubnet, sdkFindInternetGateway, sdkFindLaunchTemplate,
         sdkFindManagedPrefixList, Describe
<1>2. onError.pc \in Quiet
  BY <1>1, TrackedIs, onErrorIs DEF Quiet, At
<1>3. CASE w.spec.kind \in {"subnet", "internet_gateway"} /\ Describe(a, onError)
  <2>1. w.id # 0 /\ Obj # Gone /\ ObjectIs(Obj, w.spec.kind) /\ Go(a) => PassFollows'
    BY <1>1, <1>3, FirstReadFollows DEF Go
  <2> HIDE DEF a
  <2> QED BY <1>2, <1>3, <2>1, DescribeFollows
<1>4. CASE Kind("launch_template") /\ Describe(v, onError)
  <2>1. w.id # 0 /\ Obj # Gone /\ ObjectIs(Obj, w.spec.kind) /\ Go(v) => PassFollows'
    BY <1>1, <1>4, FirstReadFollows DEF Go
  <2> HIDE DEF v
  <2> QED BY <1>2, <1>4, <2>1, DescribeFollows
<1>5. CASE Kind("managed_prefix_list") /\ Describe(e, onError)
  <2>1. w.id # 0 /\ Obj # Gone /\ ObjectIs(Obj, w.spec.kind) /\ Go(e) => PassFollows'
    BY <1>1, <1>5, FirstReadFollows DEF Go
  <2> HIDE DEF e
  <2> QED BY <1>2, <1>5, <2>1, DescribeFollows
<1> QED BY <1>3, <1>4, <1>5 DEF sdkFindSubnet, sdkFindInternetGateway, sdkFindLaunchTemplate,
                                sdkFindManagedPrefixList, Kind

\* The only read.
LEMMA OnlyReadFollows ==
  ASSUME Tracked, At("describe"), NEW r, w' = r, ec2' = ec2, Obj # Gone,
         r.pc = "found", r.id = w.id, r.spec = w.spec, r.blind = w.blind,
         ~Kind("managed_prefix_list"), IsListed(r.seen, r.spec.kind),
         (Kind("instance") /\ r.end # "synced") \/ IsLatest(Obj, r)
  PROVE  PassFollows'
<1>1. ~w.blind
  BY DEF Tracked, Following, PassFollows, PassFits, At
<1>2. PassFits'
  BY <1>1 DEF PassFits, At, Kind
<1>3. ReadIsThere'
  BY DEF ReadIsThere, At
<1>4. Obj' = Obj
  BY DEF Obj
<1>5. FoundIsThere'
  BY <1>4 DEF FoundIsThere, At, Kind
<1> QED BY <1>2, <1>3, <1>5, StageFollows

LEMMA findOnceFollows ==
  ASSUME Tracked, sdkFindDHCPOptions \/ sdkFindNetworkACL
  PROVE  Following'
<1> DEFINE r == Found
<1>1. /\ At("describe") /\ Describe(r, onError) /\ w.spec.kind \in {"dhcp_options", "network_acl"}
      /\ DOMAIN w = WorkerFields
  BY TrackedIs DEF sdkFindDHCPOptions, sdkFindNetworkACL, Describe, Kind
<1>2. onError.pc \in Quiet
  BY <1>1, TrackedIs, onErrorIs DEF Quiet, At
<1>3. /\ r.pc = "found" /\ r.id = w.id /\ r.spec = w.spec /\ r.blind = w.blind
      /\ r.seen = Obj
  BY <1>1 DEF Found, WorkerFields
<1> HIDE DEF r
<1>4. IsLatest(Obj, r)
  BY <1>1, <1>3 DEF IsLatest
<1>5. w.id # 0 /\ Obj # Gone => IsListed(Obj, w.spec.kind)
  <2>1. /\ ~At("idle") /\ Frame /\ w.spec.kind = cr.spec.kind
        /\ \A i \in Ids : Healthy(ec2[i], cr.spec.kind)
    BY <1>1, TrackedIs, TieInvIs DEF At
  <2>2. w.id # 0 => Healthy(Obj, w.spec.kind)
    BY <2>1, WorkerIs DEF Obj
  <2> QED BY <1>1, <2>2 DEF Healthy, IsListed, TieKinds
<1>6. w.id # 0 /\ Obj # Gone /\ ObjectIs(Obj, w.spec.kind) /\ Go(r) => PassFollows'
  BY <1>1, <1>3, <1>4, <1>5, OnlyReadFollows DEF Go, Kind
<1> QED BY <1>1, <1>2, <1>6, DescribeFollows

LEMMA findReservationFollows ==
  ASSUME Tracked, sdkFindCapacityReservation
  PROVE  Following'
<1> DEFINE r == [Found EXCEPT !.seen.info = w.spec.info]
<1>1. /\ At("describe") /\ Describe(r, onError) /\ w.spec.kind = "capacity_reservation"
      /\ DOMAIN w = WorkerFields
  BY TrackedIs DEF sdkFindCapacityReservation, Describe, Kind
<1>2. onError.pc \in Quiet
  BY <1>1, TrackedIs, onErrorIs DEF Quiet, At
<1>3. /\ r.pc = "found" /\ r.id = w.id /\ r.spec = w.spec /\ r.blind = w.blind
      /\ r.seen = [Obj EXCEPT !.info = w.spec.info]
  BY <1>1 DEF Found, WorkerFields
<1> HIDE DEF r
<1>4. ASSUME ObjectIs(Obj, w.spec.kind)
      PROVE  IsLatest(Obj, r)
  <2>1. Obj.tags = r.seen.tags /\ Obj.count = r.seen.count
    BY <1>1, <1>3, <1>4 DEF ObjectIs, ObjectFields
  <2> QED BY <1>1, <1>3, <2>1 DEF IsLatest
<1>5. w.id # 0 /\ Obj # Gone /\ ObjectIs(Obj, w.spec.kind) /\ Go(r) => PassFollows'
  BY <1>1, <1>3, <1>4, OnlyReadFollows DEF Go, Kind, IsListed
<1> QED BY <1>1, <1>2, <1>5, DescribeFollows

LEMMA findInstanceFollows ==
  ASSUME Tracked, sdkFindInstance
  PROVE  Following'
<1> DEFINE r == [w EXCEPT !.pc = "found", !.seen = ObservedInstance,
                    !.end = IF isRunning(Obj) THEN "synced" ELSE "requeue"]
           found == IF Obj.state = "terminated" THEN NotFound ELSE r
<1>1. /\ At("describe") /\ Describe(found, NotFound) /\ w.spec.kind = "instance"
      /\ DOMAIN w = WorkerFields
  BY TrackedIs DEF sdkFindInstance, Describe, Kind
<1>2. NotFound.pc \in Quiet
  BY <1>1 DEF Quiet, NotFound, WorkerFields
<1>3. /\ r.pc = "found" /\ r.id = w.id /\ r.spec = w.spec /\ r.blind = w.blind
      /\ r.seen = ObservedInstance
      /\ r.end = IF isRunning(Obj) THEN "synced" ELSE "requeue"
  BY <1>1 DEF WorkerFields
<1> HIDE DEF r
<1>4. ASSUME ObjectIs(Obj, w.spec.kind), isRunning(Obj)
      PROVE  IsLatest(Obj, r)
  <2> DEFINE o == ObservedInstance
             x == w.spec.attrs.DisableAPITermination
  <2>1. DOMAIN Obj = ObjectFields("instance") /\ DOMAIN Obj.attrs = Attributes
    BY <1>1, <1>4 DEF ObjectIs
  <2>2. o = [Obj EXCEPT !.attrs = [Obj.attrs EXCEPT !["DisableAPITermination"] = x]]
    BY DEF ObservedInstance
  <2> HIDE DEF o
  <2>3. /\ o.tags = Obj.tags /\ o.state = Obj.state
        /\ \A a \in Attributes \ {"DisableAPITermination"} : o.attrs[a] = Obj.attrs[a]
    BY <2>1, <2>2 DEF ObjectFields
  <2>4. r.seen = o
    BY <1>3 DEF o
  <2>5. isRunning(o)
    BY <1>4, <2>3 DEF isRunning
  <2> QED BY <1>1, <1>3, <1>4, <2>3, <2>4, <2>5 DEF IsLatest
<1>5. ASSUME w.id # 0, Obj # Gone, ObjectIs(Obj, w.spec.kind), Go(found)
      PROVE  PassFollows'
  <2>1. CASE Obj.state = "terminated"
    BY <1>2, <1>5, <2>1, QuietFollows DEF Go
  <2>2. CASE Obj.state # "terminated"
    <3>1. Go(r)
      BY <1>5, <2>2
    <3>2. (Kind("instance") /\ r.end # "synced") \/ IsLatest(Obj, r)
      BY <1>1, <1>3, <1>4, <1>5 DEF Kind
    <3>3. w' = r /\ ec2' = ec2 /\ ~Kind("managed_prefix_list") /\ IsListed(r.seen, r.spec.kind)
      BY <1>1, <1>3, <3>1 DEF Go, Kind, IsListed
    <3> QED BY <1>1, <1>3, <1>5, <3>2, <3>3, OnlyReadFollows
  <2> QED BY <2>1, <2>2
<1> HIDE DEF found
<1> QED BY <1>1, <1>2, <1>5, DescribeFollows

\* The second reads: the route tables, the version on record, the entries.
LEMMA readRouteTablesFollows ==
  ASSUME Tracked, readRouteTables
  PROVE  Following'
<1>1. PICK answered \in BOOLEAN :
        /\ DescribeRouteTables(answered)
        /\ w' = [w EXCEPT !.pc = "found", !.blind = ~answered,
                   !.seen.tables = getRouteTableAssociations(answered)]
  BY DEF readRouteTables
<1>2. /\ DOMAIN w = WorkerFields /\ At("associations") /\ UNCHANGED <<cr, ec2>>
      /\ w.spec.kind \in {"subnet", "internet_gateway"} /\ ~At("idle")
      /\ w.id \in Ids /\ w.spec.kind = cr.spec.kind
      /\ ~w.interfered => Obj # Gone /\ w.seen = Obj
  BY <1>1, TrackedIs, WorkerIs
     DEF readRouteTables, DescribeRouteTables, Tracked, Following, PassFollows, PassFits,
         ReadIsThere, At, Working
<1> DEFINE have == getRouteTableAssociations(answered)
           seen == [w.seen EXCEPT !.tables = have]
<1>3. /\ w'.pc = "found" /\ w'.blind = ~answered /\ w'.seen = seen /\ w'.id = w.id
      /\ w'.spec = w.spec /\ w'.interfered = w.interfered /\ Obj' = Obj
  BY <1>1, <1>2 DEF WorkerFields, Obj
<1>4. ASSUME ~w.interfered
      PROVE  Obj # Gone /\ IsLatest(Obj, w')
  <2>1. Obj # Gone /\ w.seen = Obj /\ ObjectIs(Obj, w.spec.kind)
    BY <1>2, <1>4, TrackedIs DEF Obj
  <2>2. answered => have = Obj.tables
    BY <1>2, <2>1 DEF ObjectIs, getRouteTableAssociations
  <2> HIDE DEF have
  <2>3. /\ seen.tags = Obj.tags /\ seen.tables = have
        /\ w.spec.kind = "subnet" => seen.attrs = Obj.attrs
        /\ w.spec.kind = "internet_gateway" => seen.vpc = Obj.vpc
    BY <1>2, <2>1 DEF ObjectIs, ObjectFields
  <2> HIDE DEF seen
  <2> QED BY <1>2, <1>3, <2>1, <2>2, <2>3 DEF IsLatest
<1> HIDE DEF seen, have
<1>5. PassFits' /\ ReadIsThere'
  BY <1>2, <1>3 DEF PassFits, ReadIsThere, At, Kind, IsListed
<1>6. FoundIsThere'
  BY <1>3, <1>4 DEF FoundIsThere
<1> QED BY <1>2, <1>3, <1>5, <1>6, StageFollows, NothingChanges

LEMMA readVersionFollows ==
  ASSUME Tracked, setLatestLaunchTemplateAttributes
  PROVE  Following'
<1>1. /\ DOMAIN w = WorkerFields /\ At("version") /\ UNCHANGED <<cr, ec2>>
      /\ w.spec.kind = "launch_template" /\ ~At("idle")
      /\ w.id \in Ids /\ w.spec.kind = cr.spec.kind
      /\ ~w.interfered => Obj # Gone /\ w.seen = Obj
  BY TrackedIs, WorkerIs
     DEF setLatestLaunchTemplateAttributes, Tracked, Following, PassFollows, PassFits,
         ReadIsThere, At, Kind, Working, Go, Unread
<1> DEFINE Reads(data, blind) ==
             /\ w'.pc = "found" /\ w'.blind = blind /\ w'.seen = [w.seen EXCEPT !.data = data]
             /\ w'.id = w.id /\ w'.spec = w.spec /\ w'.interfered = w.interfered
<1>2. PICK data, blind :
        /\ Reads(data, blind)
        /\ \/ data = Obj.data[w.version] /\ blind = (w.version # Len(w.seen.data))
           \/ blind
  <2> DEFINE read(data) == [w EXCEPT !.pc = "found", !.version = Len(w.seen.data),
                              !.seen.data = data]
  <2>1. ASSUME NEW data, NEW blind, w' = [read(data) EXCEPT !.blind = blind]
        PROVE  Reads(data, blind)
    BY <1>1, <2>1 DEF WorkerFields
  <2>2. \/ w' = [read(Obj.data[w.version]) EXCEPT !.blind = w.version # Len(w.seen.data)]
        \/ w' = [read(w.spec.data) EXCEPT !.blind = TRUE]
    BY DEF setLatestLaunchTemplateAttributes, Go, Unread
  <2> HIDE DEF read, Reads
  <2>3. CASE w' = [read(Obj.data[w.version]) EXCEPT !.blind = w.version # Len(w.seen.data)]
    <3>1. Reads(Obj.data[w.version], w.version # Len(w.seen.data))
      BY <2>1, <2>3
    <3> QED BY <3>1
  <2>4. CASE w' = [read(w.spec.data) EXCEPT !.blind = TRUE]
    <3>1. Reads(w.spec.data, TRUE)
      BY <2>1, <2>4
    <3> QED BY <3>1
  <2> QED BY <2>2, <2>3, <2>4
<1> DEFINE seen == [w.seen EXCEPT !.data = data]
<1>3. Obj' = Obj
  BY <1>1, <1>2 DEF Obj
<1>4. ASSUME ~w.interfered
      PROVE  Obj # Gone /\ IsLatest(Obj, w')
  <2>1. Obj # Gone /\ w.seen = Obj /\ ObjectIs(Obj, "launch_template")
    BY <1>1, <1>4, TrackedIs DEF Obj
  <2>2. seen.tags = Obj.tags /\ seen.default = Obj.default /\ seen.data = data
    BY <2>1 DEF ObjectIs, ObjectFields
  <2>3. ~blind => data = Obj.data[Len(Obj.data)]
    BY <1>2, <2>1
  <2>4. w'.seen = seen
    BY <1>2
  <2> HIDE DEF seen
  <2> QED BY <1>1, <1>2, <2>1, <2>2, <2>3, <2>4 DEF IsLatest
<1>5. PassFits' /\ ReadIsThere'
  BY <1>1, <1>2 DEF PassFits, ReadIsThere, At, Kind, IsListed
<1>6. FoundIsThere'
  BY <1>2, <1>3, <1>4 DEF FoundIsThere
<1> QED BY <1>1, <1>2, <1>5, <1>6, StageFollows, NothingChanges

LEMMA readEntriesFollows ==
  ASSUME Tracked, getManagedPrefixListEntries
  PROVE  Following'
<1> DEFINE seen == [w.seen EXCEPT !.entries = Obj.entries]
           r    == Reported(Final(w.seen))
<1>1. /\ DOMAIN w = WorkerFields /\ At("entries") /\ UNCHANGED <<cr, ec2>>
      /\ w.spec.kind = "managed_prefix_list" /\ ~At("idle") /\ ~w.blind /\ Frame
      /\ w.id \in Ids /\ w.spec.kind = cr.spec.kind
      /\ ~w.interfered =>
           /\ Obj # Gone /\ "entries" \in DOMAIN w.seen
           /\ w.seen.tags = Obj.tags /\ w.seen.max = Obj.max
           /\ Final(w.seen) => Final(Obj)
  BY TrackedIs, WorkerIs
     DEF getManagedPrefixListEntries, Tracked, Following, PassFollows, PassFits,
         ReadIsThere, At, Kind, Working, Go, Unread
<1>2. CASE w' = onError
  BY <1>1, <1>2, onErrorIs, QuietFollows, NothingChanges DEF Quiet
<1>3. CASE w' = [r EXCEPT !.pc = "found", !.seen.entries = Obj.entries]
  <2>1. /\ DOMAIN r = WorkerFields /\ r.id = w.id /\ r.spec = w.spec /\ ~r.blind
        /\ r.interfered = w.interfered /\ r.seen = w.seen
        /\ r.end = IF Final(w.seen) THEN "synced" ELSE "requeue"
    BY <1>1 DEF Reported, WorkerFields
  <2> HIDE DEF r
  <2>2. /\ w'.pc = "found" /\ w'.id = w.id /\ w'.spec = w.spec /\ ~w'.blind
        /\ w'.interfered = w.interfered /\ w'.seen = seen
        /\ w'.end = IF Final(w.seen) THEN "synced" ELSE "requeue"
    BY <1>3, <2>1 DEF WorkerFields
  <2>3. Obj' = Obj
    BY <1>1, <2>2 DEF Obj
  <2>4. ASSUME ~w.interfered
        PROVE  Obj # Gone /\ IsLatest(Obj, w')
    <3>1. /\ seen.tags = Obj.tags /\ seen.max = Obj.max /\ seen.entries = Obj.entries
          /\ seen.state = w.seen.state
      BY <1>1, <2>4
    <3> HIDE DEF seen
    <3>2. Final(seen) <=> Final(w.seen)
      BY <3>1 DEF Final
    <3>3. w'.end = "synced" => Final(seen)
      BY <2>2, <3>2
    <3>4. Final(seen) => Final(Obj)
      BY <1>1, <2>4, <3>2
    <3> QED BY <1>1, <2>2, <2>4, <3>1, <3>3, <3>4 DEF IsLatest
  <2> HIDE DEF seen
  <2>5. PassFits' /\ ReadIsThere'
    BY <1>1, <2>2 DEF PassFits, ReadIsThere, At, Kind, IsListed
  <2>6. FoundIsThere'
    BY <2>2, <2>3, <2>4 DEF FoundIsThere
  <2> QED BY <1>1, <2>2, <2>5, <2>6, StageFollows, NothingChanges
<1> QED BY <1>2, <1>3 DEF getManagedPrefixListEntries, Go, Unread

----------------------------------------------------------------------------
(* What an update plans.                                                   *)

Joined(a, b, c, d) == a \o b \o c \o d

AllFit(a, b, c, d, spec) ==
  Fitting(a, spec) /\ Fitting(b, spec) /\ Fitting(c, spec) /\ Fitting(d, spec)

LEMMA JoinedFit ==
  ASSUME NEW a, NEW b, NEW c, NEW d, NEW spec, AllFit(a, b, c, d, spec)
  PROVE  /\ Fitting(Joined(a, b, c, d), spec)
         /\ Calls(Joined(a, b, c, d)) = Calls(a) \cup Calls(b) \cup Calls(c) \cup Calls(d)
<1> DEFINE s == a \o b
<1>1. Fitting(s, spec) /\ Calls(s) = Calls(a) \cup Calls(b)
  BY ConcatFits DEF AllFit
<1> HIDE DEF s
<1> DEFINE t == s \o c
<1>2. Fitting(t, spec) /\ Calls(t) = Calls(s) \cup Calls(c)
  BY <1>1, ConcatFits DEF AllFit
<1> HIDE DEF t
<1>3. Fitting(t \o d, spec) /\ Calls(t \o d) = Calls(t) \cup Calls(d)
  BY <1>2, ConcatFits DEF AllFit
<1>4. Joined(a, b, c, d) = t \o d
  BY DEF Joined, s, t
<1> QED BY <1>1, <1>2, <1>3, <1>4

LEMMA PlanRecord ==
  ASSUME DOMAIN w = WorkerFields, NEW calls
  PROVE  LET r == Plan(calls)
         IN  /\ DOMAIN r = WorkerFields /\ r.pc = "plan" /\ r.plan = calls /\ r.mode = w.mode
             /\ r.id = w.id /\ r.spec = w.spec /\ r.seen = w.seen /\ r.blind = w.blind
             /\ r.interfered = w.interfered /\ r.end = w.end
BY DEF Plan, WorkerFields

LEMMA PlannedFollows ==
  ASSUME Tracked, At("found"), NEW next, Go(next), next.pc = "plan", next.mode = w.mode,
         next.id = w.id, next.spec = w.spec, next.seen = w.seen,
         next.interfered = w.interfered, Fitting(next.plan, w.spec),
         Kind("instance") /\ next.end = "synced" => w.end = "synced",
         w.mode = "update" /\ Obj # Gone /\ IsLatest(Obj, w) /\ ~next.blind
             /\ next.end = "synced" =>
           ComesTo(Obj, Calls(next.plan), w.spec, w.seen)
  PROVE  Following'
<1>1. w' = next /\ UNCHANGED <<cr, ec2>> /\ Obj' = Obj
  BY DEF Go, Obj
<1>2. w'.mode = "update" /\ ~w'.interfered /\ ~w'.blind /\ w'.end = "synced" =>
        Obj' # Gone /\ ComesTo(Obj', Calls(w'.plan), w'.spec, w'.seen)
  BY <1>1 DEF Tracked, Following, PassFollows, FoundIsThere
<1>3. PassFollows'
  BY <1>1, <1>2, PlanFollows
<1> QED BY <1>1, <1>3, NothingChanges

LEMMA CallsFollow ==
  ASSUME Tracked, At("found"), NEW calls, Go(Plan(calls)), Fitting(calls, w.spec),
         w.mode = "update" /\ Obj # Gone /\ IsLatest(Obj, w) /\ ~w.blind /\ w.end = "synced" =>
           ComesTo(Obj, Calls(calls), w.spec, w.seen)
  PROVE  Following'
<1> DEFINE r == Plan(calls)
<1>1. DOMAIN w = WorkerFields /\ Go(r)
  BY TrackedIs
<1>2. /\ r.pc = "plan" /\ r.plan = calls /\ r.mode = w.mode
      /\ r.id = w.id /\ r.spec = w.spec /\ r.seen = w.seen /\ r.blind = w.blind
      /\ r.interfered = w.interfered /\ r.end = w.end
  BY <1>1, PlanRecord
<1> HIDE DEF r
<1> QED BY <1>1, <1>2, PlannedFollows

LEMMA updateSubnetFollows ==
  ASSUME Tracked, customUpdateSubnet
  PROVE  Following'
<1> DEFINE delta == newSubnetDelta
           tables == "tables" \in delta
           tags   == "tags" \in delta
           dns    == "EnableDNS64" \in delta
           public == "MapPublicIPOnLaunch" \in delta
           a == When(tables, "routeTables", {})
           b == When(tags, "tags", {})
           c == When(dns, "attribute", "EnableDNS64")
           d == When(public, "attribute", "MapPublicIPOnLaunch")
           calls == Joined(a, b, c, d)
<1>1. At("found") /\ Go(Plan(calls)) /\ w.spec.kind = "subnet"
  BY DEF customUpdateSubnet, Updating, Kind, Joined
<1>2. /\ tables <=> w.spec.tables # w.seen.tables
      /\ tags <=> w.spec.tags # w.seen.tags
      /\ dns <=> ~("EnableDNS64" \in w.spec.attrs <=> "EnableDNS64" \in w.seen.attrs)
      /\ public <=>
           ~("MapPublicIPOnLaunch" \in w.spec.attrs <=> "MapPublicIPOnLaunch" \in w.seen.attrs)
      /\ tables \in BOOLEAN /\ tags \in BOOLEAN /\ dns \in BOOLEAN /\ public \in BOOLEAN
  BY DEF newSubnetDelta, DifferentAt, SubnetAttributes
<1>3. {"routeTables", "tags", "attribute"} \subseteq KindOps(w.spec.kind)
  BY <1>1 DEF KindOps
<1>4. /\ Fits(<<"routeTables", {}>>, w.spec) /\ Fits(<<"tags", {}>>, w.spec)
      /\ Fits(<<"attribute", "EnableDNS64">>, w.spec)
      /\ Fits(<<"attribute", "MapPublicIPOnLaunch">>, w.spec)
  BY DEF Fits, SubnetAttributes
<1> HIDE DEF delta, tables, tags, dns, public
<1>5. Fitting(a, w.spec) /\ Calls(a) = IF tables THEN {<<"routeTables", {}>>} ELSE {}
  BY <1>2, <1>3, <1>4, WhenFits
<1>6. Fitting(b, w.spec) /\ Calls(b) = IF tags THEN {<<"tags", {}>>} ELSE {}
  BY <1>2, <1>3, <1>4, WhenFits
<1>7. Fitting(c, w.spec) /\
        Calls(c) = IF dns THEN {<<"attribute", "EnableDNS64">>} ELSE {}
  BY <1>2, <1>3, <1>4, WhenFits
<1>8. Fitting(d, w.spec) /\
        Calls(d) = IF public THEN {<<"attribute", "MapPublicIPOnLaunch">>} ELSE {}
  BY <1>2, <1>3, <1>4, WhenFits
<1> HIDE DEF a, b, c, d
<1>9. AllFit(a, b, c, d, w.spec)
  BY <1>5, <1>6, <1>7, <1>8 DEF AllFit
<1>10. /\ Fitting(Joined(a, b, c, d), w.spec)
      /\ Calls(Joined(a, b, c, d)) = Calls(a) \cup Calls(b) \cup Calls(c) \cup Calls(d)
  BY <1>9, JoinedFit
<1> HIDE DEF calls
<1>11. Fitting(calls, w.spec) /\ Calls(calls) = Calls(a) \cup Calls(b) \cup Calls(c) \cup Calls(d)
  BY <1>10 DEF calls
<1>12. ASSUME IsLatest(Obj, w), ~w.blind
       PROVE  ComesTo(Obj, Calls(calls), w.spec, w.seen)
  <2>1. Obj.tags = w.seen.tags /\ Obj.tables = w.seen.tables /\ Obj.attrs = w.seen.attrs
    BY <1>1, <1>12 DEF IsLatest
  <2>2. TagsCome(Obj, Calls(calls), w.spec, w.seen)
    BY <1>2, <1>6, <1>11, <2>1 DEF TagsCome
  <2>3. TablesCome(Obj, Calls(calls), w.spec)
    BY <1>2, <1>5, <1>11, <2>1 DEF TablesCome, SetComes
  <2>4. AttrsCome(Obj, Calls(calls), w.spec)
    BY <1>2, <1>7, <1>8, <1>11, <2>1 DEF AttrsCome, SubnetAttributes
  <2>5. KindOps(w.spec.kind) # {}
    BY <1>3
  <2> QED BY <1>1, <2>2, <2>3, <2>4, <2>5 DEF ComesTo
<1> HIDE DEF calls
<1> QED BY <1>1, <1>11, <1>12, CallsFollow

LEMMA updateGatewayFollows ==
  ASSUME Tracked, customUpdateInternetGateway
  PROVE  Following'
<1> DEFINE delta == newInternetGatewayDelta
           tables == "tables" \in delta
           tags  == "tags" \in delta
           moved == "vpc" \in delta
           out == moved /\ w.seen.vpc # NoVPC
           in  == moved /\ w.spec.vpc # NoVPC
           a == When(out, "detach", w.seen.vpc)
           b == When(in, "attach", w.spec.vpc)
           c == When(tables, "routeTables", {})
           d == When(tags, "tags", {})
           calls == Joined(a, b, c, d)
<1>1. At("found") /\ Go(Plan(calls)) /\ w.spec.kind = "internet_gateway"
  BY DEF customUpdateInternetGateway, Updating, Kind, Joined
<1>2. /\ tables <=> w.spec.tables # w.seen.tables
      /\ tags <=> w.spec.tags # w.seen.tags
      /\ moved <=> w.spec.vpc # w.seen.vpc
      /\ tables \in BOOLEAN /\ tags \in BOOLEAN
  BY DEF newInternetGatewayDelta, DifferentAt
<1>3. {"routeTables", "tags", "detach", "attach"} \subseteq KindOps(w.spec.kind)
  BY <1>1 DEF KindOps
<1>4. /\ Fits(<<"routeTables", {}>>, w.spec) /\ Fits(<<"tags", {}>>, w.spec)
      /\ Fits(<<"detach", w.seen.vpc>>, w.spec) /\ Fits(<<"attach", w.spec.vpc>>, w.spec)
  BY DEF Fits
<1>5. /\ out \in BOOLEAN /\ in \in BOOLEAN
      /\ out <=> w.spec.vpc # w.seen.vpc /\ w.seen.vpc # NoVPC
      /\ in <=> w.spec.vpc # w.seen.vpc /\ w.spec.vpc # NoVPC
  BY <1>2
<1> HIDE DEF delta, tables, tags, moved, out, in
<1>6. Fitting(a, w.spec) /\ Calls(a) = IF out THEN {<<"detach", w.seen.vpc>>} ELSE {}
  BY <1>3, <1>4, <1>5, WhenFits
<1>7. Fitting(b, w.spec) /\ Calls(b) = IF in THEN {<<"attach", w.spec.vpc>>} ELSE {}
  BY <1>3, <1>4, <1>5, WhenFits
<1>8. Fitting(c, w.spec) /\ Calls(c) = IF tables THEN {<<"routeTables", {}>>} ELSE {}
  BY <1>2, <1>3, <1>4, WhenFits
<1>9. Fitting(d, w.spec) /\ Calls(d) = IF tags THEN {<<"tags", {}>>} ELSE {}
  BY <1>2, <1>3, <1>4, WhenFits
<1> HIDE DEF a, b, c, d
<1>10. AllFit(a, b, c, d, w.spec)
  BY <1>6, <1>7, <1>8, <1>9 DEF AllFit
<1>11. /\ Fitting(Joined(a, b, c, d), w.spec)
      /\ Calls(Joined(a, b, c, d)) = Calls(a) \cup Calls(b) \cup Calls(c) \cup Calls(d)
  BY <1>10, JoinedFit
<1> HIDE DEF calls
<1>12. Fitting(calls, w.spec) /\ Calls(calls) = Calls(a) \cup Calls(b) \cup Calls(c) \cup Calls(d)
  BY <1>11 DEF calls
<1>13. ASSUME IsLatest(Obj, w), ~w.blind
       PROVE  ComesTo(Obj, Calls(calls), w.spec, w.seen)
  <2>1. Obj.tags = w.seen.tags /\ Obj.tables = w.seen.tables /\ Obj.vpc = w.seen.vpc
    BY <1>1, <1>13 DEF IsLatest
  <2>2. TagsCome(Obj, Calls(calls), w.spec, w.seen)
    BY <1>2, <1>9, <1>12, <2>1 DEF TagsCome
  <2>3. TablesCome(Obj, Calls(calls), w.spec)
    BY <1>2, <1>8, <1>12, <2>1 DEF TablesCome, SetComes
  <2>4. VPCComes(Obj, Calls(calls), w.spec)
    BY <1>5, <1>6, <1>7, <1>12, <2>1 DEF VPCComes
  <2>5. KindOps(w.spec.kind) # {}
    BY <1>3
  <2> QED BY <1>1, <2>2, <2>3, <2>4, <2>5 DEF ComesTo
<1> HIDE DEF calls
<1> QED BY <1>1, <1>12, <1>13, CallsFollow

LEMMA updateTemplateFollows ==
  ASSUME Tracked, sdkUpdateLaunchTemplate
  PROVE  Following'
<1> DEFINE delta == newLaunchTemplateDelta
           changed == "data" \in delta
           tags    == "tags" \in delta
           default == "default" \in delta
           desired == ~changed /\ (tags \/ default)
           a == When(tags, "tags", {})
           b == When(changed, "newVersion", w.spec.data)
           c == When(desired, "desired", {})
           d == When(default, "defaultVersion", w.spec.default)
           calls == Joined(a, b, c, d)
<1>1. At("found") /\ Go(Plan(calls)) /\ w.spec.kind = "launch_template"
  BY DEF sdkUpdateLaunchTemplate, Updating, Kind, Joined
<1>2. /\ changed <=> w.spec.data # w.seen.data
      /\ tags <=> w.spec.tags # w.seen.tags
      /\ default <=> w.spec.default # w.seen.default
      /\ changed \in BOOLEAN /\ tags \in BOOLEAN /\ default \in BOOLEAN /\ desired \in BOOLEAN
  BY DEF newLaunchTemplateDelta, DifferentAt
<1>3. {"newVersion", "tags", "desired", "defaultVersion"} \subseteq KindOps(w.spec.kind)
  BY <1>1 DEF KindOps
<1>4. /\ Fits(<<"newVersion", w.spec.data>>, w.spec) /\ Fits(<<"tags", {}>>, w.spec)
      /\ Fits(<<"desired", {}>>, w.spec) /\ Fits(<<"defaultVersion", w.spec.default>>, w.spec)
  BY DEF Fits
<1> HIDE DEF delta, changed, tags, default, desired
<1>5. Fitting(a, w.spec) /\ Calls(a) = IF tags THEN {<<"tags", {}>>} ELSE {}
  BY <1>2, <1>3, <1>4, WhenFits
<1>6. Fitting(b, w.spec) /\ Calls(b) = IF changed THEN {<<"newVersion", w.spec.data>>} ELSE {}
  BY <1>2, <1>3, <1>4, WhenFits
<1>7. Fitting(c, w.spec) /\ Calls(c) = IF desired THEN {<<"desired", {}>>} ELSE {}
  BY <1>2, <1>3, <1>4, WhenFits
<1>8. Fitting(d, w.spec) /\
        Calls(d) = IF default THEN {<<"defaultVersion", w.spec.default>>} ELSE {}
  BY <1>2, <1>3, <1>4, WhenFits
<1> HIDE DEF a, b, c, d
<1>9. AllFit(a, b, c, d, w.spec)
  BY <1>5, <1>6, <1>7, <1>8 DEF AllFit
<1>10. /\ Fitting(Joined(a, b, c, d), w.spec)
      /\ Calls(Joined(a, b, c, d)) = Calls(a) \cup Calls(b) \cup Calls(c) \cup Calls(d)
  BY <1>9, JoinedFit
<1> HIDE DEF calls
<1>11. Fitting(calls, w.spec) /\ Calls(calls) = Calls(a) \cup Calls(b) \cup Calls(c) \cup Calls(d)
  BY <1>10 DEF calls
<1>12. ASSUME IsLatest(Obj, w), ~w.blind
       PROVE  ComesTo(Obj, Calls(calls), w.spec, w.seen)
  <2>1. /\ Obj.tags = w.seen.tags /\ Obj.default = w.seen.default
        /\ Obj.data[Len(Obj.data)] = w.seen.data
    BY <1>1, <1>12 DEF IsLatest
  <2>2. TagsCome(Obj, Calls(calls), w.spec, w.seen)
    BY <1>2, <1>5, <1>11, <2>1 DEF TagsCome
  <2>3. DataCome(Obj, Calls(calls), w.spec)
    BY <1>2, <1>6, <1>11, <2>1 DEF DataCome
  <2>4. DefaultComes(Obj, Calls(calls), w.spec)
    BY <1>2, <1>8, <1>11, <2>1 DEF DefaultComes
  <2>5. KindOps(w.spec.kind) # {}
    BY <1>3
  <2> QED BY <1>1, <2>2, <2>3, <2>4, <2>5 DEF ComesTo
<1> HIDE DEF calls
<1> QED BY <1>1, <1>11, <1>12, CallsFollow

LEMMA updateReservationFollows ==
  ASSUME Tracked, sdkUpdateCapacityReservation
  PROVE  Following'
<1> DEFINE delta == newCapacityReservationDelta
           differs == "count" \in delta
           tags    == "tags" \in delta
           info    == differs /\ w.spec.info # NoInfo
           a == When(tags, "tags", {})
           b == When(info, "modifyInfo", w.spec.info)
           c == When(differs, "modifyCount", w.spec.count)
           d == When(differs, "findReservation", {})
           calls == Joined(a, b, c, d)
<1>1. At("found") /\ Go(Plan(calls)) /\ w.spec.kind = "capacity_reservation"
  BY DEF sdkUpdateCapacityReservation, Updating, Kind, Joined
<1>2. /\ differs <=> w.spec.count # w.seen.count
      /\ tags <=> w.spec.tags # w.seen.tags
      /\ differs \in BOOLEAN /\ tags \in BOOLEAN /\ info \in BOOLEAN
  BY DEF newCapacityReservationDelta, DifferentAt
<1>3. {"modifyInfo", "tags", "modifyCount", "findReservation"} \subseteq KindOps(w.spec.kind)
  BY <1>1 DEF KindOps
<1>4. /\ Fits(<<"modifyInfo", w.spec.info>>, w.spec) /\ Fits(<<"tags", {}>>, w.spec)
      /\ Fits(<<"modifyCount", w.spec.count>>, w.spec) /\ Fits(<<"findReservation", {}>>, w.spec)
  BY DEF Fits
<1> HIDE DEF delta, differs, tags, info
<1>5. Fitting(a, w.spec) /\ Calls(a) = IF tags THEN {<<"tags", {}>>} ELSE {}
  BY <1>2, <1>3, <1>4, WhenFits
<1>6. Fitting(b, w.spec) /\ Calls(b) = IF info THEN {<<"modifyInfo", w.spec.info>>} ELSE {}
  BY <1>2, <1>3, <1>4, WhenFits
<1>7. Fitting(c, w.spec) /\ Calls(c) = IF differs THEN {<<"modifyCount", w.spec.count>>} ELSE {}
  BY <1>2, <1>3, <1>4, WhenFits
<1>8. Fitting(d, w.spec) /\ Calls(d) = IF differs THEN {<<"findReservation", {}>>} ELSE {}
  BY <1>2, <1>3, <1>4, WhenFits
<1> HIDE DEF a, b, c, d
<1>9. AllFit(a, b, c, d, w.spec)
  BY <1>5, <1>6, <1>7, <1>8 DEF AllFit
<1>10. /\ Fitting(Joined(a, b, c, d), w.spec)
      /\ Calls(Joined(a, b, c, d)) = Calls(a) \cup Calls(b) \cup Calls(c) \cup Calls(d)
  BY <1>9, JoinedFit
<1> HIDE DEF calls
<1>11. Fitting(calls, w.spec) /\ Calls(calls) = Calls(a) \cup Calls(b) \cup Calls(c) \cup Calls(d)
  BY <1>10 DEF calls
<1>12. ASSUME IsLatest(Obj, w), ~w.blind
       PROVE  ComesTo(Obj, Calls(calls), w.spec, w.seen)
  <2>1. Obj.tags = w.seen.tags /\ Obj.count = w.seen.count
    BY <1>1, <1>12 DEF IsLatest
  <2>2. TagsCome(Obj, Calls(calls), w.spec, w.seen)
    BY <1>2, <1>5, <1>11, <2>1 DEF TagsCome
  <2>3. CountComes(Obj, Calls(calls), w.spec)
    BY <1>2, <1>7, <1>11, <2>1 DEF CountComes
  <2>5. KindOps(w.spec.kind) # {}
    BY <1>3
  <2> QED BY <1>1, <2>2, <2>3, <2>5 DEF ComesTo
<1> HIDE DEF calls
<1> QED BY <1>1, <1>11, <1>12, CallsFollow

\* The VPCs, attached and detached.
LEMMA syncVPCsFit ==
  ASSUME NEW spec, spec.kind = "dhcp_options", NEW want, want \subseteq spec.vpcs,
         IsFiniteSet(want), NEW have, IsFiniteSet(have), NEW calls \in syncVPCs(want, have)
  PROVE  /\ Fitting(calls, spec)
         /\ \A x \in want \ have : <<"attachVPC", x>> \in Calls(calls)
         /\ \A x \in have \ want : <<"detachVPC", x>> \in Calls(calls)
<1> DEFINE in  == want \ have
           out == have \ want
           S   == ForEach("attachVPC", in)
           T   == ForEach("detachVPC", out)
           J   == {s \o t : s \in S, t \in T}
<1>1. syncVPCs(want, have) = J
  BY DEF syncVPCs
<1>2. IsFiniteSet(out) /\ IsFiniteSet(in)
  BY FS_Subset, FS_Difference
<1>3. {"attachVPC", "detachVPC"} \subseteq KindOps(spec.kind)
  BY DEF KindOps
<1>4. /\ \A x \in in : Fits(<<"attachVPC", x>>, spec)
      /\ \A x \in out : Fits(<<"detachVPC", x>>, spec)
  BY DEF Fits
<1>5. ASSUME NEW s \in S
      PROVE  Fitting(s, spec) /\ Calls(s) = {<<"attachVPC", x>> : x \in in}
  BY <1>2, <1>3, <1>4, ForEachFits
<1>6. ASSUME NEW t \in T
      PROVE  Fitting(t, spec) /\ Calls(t) = {<<"detachVPC", x>> : x \in out}
  BY <1>2, <1>3, <1>4, ForEachFits
<1> HIDE DEF S, T
<1>7. PICK s \in S, t \in T : calls = s \o t
  BY <1>1
<1>8. Fitting(calls, spec) /\ Calls(calls) = Calls(s) \cup Calls(t)
  BY <1>5, <1>6, <1>7, ConcatFits
<1> QED BY <1>5, <1>6, <1>8

\* What is found of the object in hand, as far as plans are made from it.
LEMMA FoundIs ==
  ASSUME Tracked, At("found")
  PROVE  /\ IsListed(w.seen, w.spec.kind)
         /\ w.spec.kind \in {"subnet", "internet_gateway"} => IsFiniteSet(w.spec.tables)
         /\ w.spec.kind = "dhcp_options" => IsFiniteSet(w.spec.vpcs)
         /\ w.spec.kind = "network_acl" => IsFiniteSet(w.spec.entries) /\ IsFiniteSet(w.spec.subnets)
         /\ DOMAIN w = WorkerFields /\ ~At("idle") /\ Frame /\ w.spec.kind = cr.spec.kind
<1>1. ~At("idle")
  BY DEF At
<1> QED BY <1>1, TrackedIs, SpecsAre DEF Tracked, Following, PassFollows, PassFits, Kind

LEMMA updateOptionsFollows ==
  ASSUME Tracked, customUpdateDHCPOptions
  PROVE  Following'
<1> DEFINE delta  == newDHCPOptionsDelta
           differ == "vpcs" \in delta
           tags   == "tags" \in delta
           b == When(differ, "find", {})
           c == When(tags, "tags", {})
<1>1. PICK vpcs \in syncVPCs(w.spec.vpcs, w.seen.vpcs) :
        Go(Plan((IF differ THEN vpcs ELSE <<>>) \o b \o c))
  BY DEF customUpdateDHCPOptions
<1>2. At("found") /\ w.spec.kind = "dhcp_options"
  BY DEF customUpdateDHCPOptions, Updating, Kind
<1>3. /\ differ <=> w.spec.vpcs # w.seen.vpcs
      /\ tags <=> w.spec.tags # w.seen.tags
      /\ differ \in BOOLEAN /\ tags \in BOOLEAN
  BY DEF newDHCPOptionsDelta, DifferentAt
<1> DEFINE a == IF differ THEN vpcs ELSE <<>>
           s == a \o b
           calls == s \o c
<1>4. Go(Plan(calls))
  BY <1>1
<1>5. {"find", "tags"} \subseteq KindOps(w.spec.kind)
  BY <1>2 DEF KindOps
<1>6. Fits(<<"find", {}>>, w.spec) /\ Fits(<<"tags", {}>>, w.spec)
  BY DEF Fits
<1> HIDE DEF delta, differ, tags
<1>7. /\ Fitting(vpcs, w.spec)
      /\ \A x \in w.spec.vpcs \ w.seen.vpcs : <<"attachVPC", x>> \in Calls(vpcs)
      /\ \A x \in w.seen.vpcs \ w.spec.vpcs : <<"detachVPC", x>> \in Calls(vpcs)
  <2>1. IsFiniteSet(w.spec.vpcs) /\ IsFiniteSet(w.seen.vpcs)
    BY <1>2, FoundIs DEF IsListed
  <2> QED BY <1>2, <2>1, syncVPCsFit
<1>8. Fitting(a, w.spec) /\ (w.spec.vpcs # w.seen.vpcs => a = vpcs)
  BY <1>3, <1>7, NoneFits
<1>9. Fitting(b, w.spec)
  BY <1>3, <1>5, <1>6, WhenFits
<1>10. Fitting(c, w.spec) /\ Calls(c) = IF tags THEN {<<"tags", {}>>} ELSE {}
  BY <1>3, <1>5, <1>6, WhenFits
<1> HIDE DEF a, b, c
<1>11. Fitting(s, w.spec) /\ Calls(s) = Calls(a) \cup Calls(b)
  BY <1>8, <1>9, ConcatFits
<1> HIDE DEF s
<1>12. Fitting(calls, w.spec) /\ Calls(calls) = Calls(s) \cup Calls(c)
  BY <1>10, <1>11, ConcatFits
<1> HIDE DEF calls
<1>13. ASSUME IsLatest(Obj, w)
       PROVE  ComesTo(Obj, Calls(calls), w.spec, w.seen)
  <2>1. Obj.tags = w.seen.tags /\ Obj.vpcs = w.seen.vpcs
    BY <1>2, <1>13 DEF IsLatest
  <2>2. TagsCome(Obj, Calls(calls), w.spec, w.seen)
    BY <1>3, <1>10, <1>12, <2>1 DEF TagsCome
  <2>3. SetComes(w.spec.vpcs, Obj.vpcs, "attachVPC", "detachVPC", Calls(calls))
    BY <1>7, <1>8, <1>11, <1>12, <2>1 DEF SetComes
  <2>4. KindOps(w.spec.kind) # {}
    BY <1>5
  <2> QED BY <1>2, <2>2, <2>3, <2>4 DEF ComesTo
<1> QED BY <1>2, <1>4, <1>12, <1>13, CallsFollow

\* The entries of an ACL, or their refusal, and its subnets.
LEMMA EntriesFit ==
  ASSUME NEW spec, spec.kind = "network_acl", IsFiniteSet(spec.entries), NEW have,
         IsFiniteSet(have), NEW calls \in EntryCalls(spec.entries, have)
  PROVE  /\ Fitting(calls, spec)
         /\ \A e \in spec.entries \ have :
              <<"createEntry", e>> \in Calls(calls) \/ <<"updateEntry", e>> \in Calls(calls)
         /\ \A e \in have \ spec.entries : <<"deleteEntry", e>> \in Calls(calls)
<1> DEFINE want    == spec.entries
           missing == want \ have
           changed == {e \in missing : e[1] \in Numbers(have)}
           new == missing \ changed
           out == have \ want
           S == ForEach("createEntry", new)
           T == ForEach("deleteEntry", out)
           U == ForEach("updateEntry", changed)
           J == {s \o t \o u : s \in S, t \in T, u \in U}
<1>1. EntryCalls(want, have) = J
  BY DEF EntryCalls
<1>2. IsFiniteSet(new) /\ IsFiniteSet(out) /\ IsFiniteSet(changed)
  BY FS_Subset, FS_Difference
<1>3. {"createEntry", "deleteEntry", "updateEntry"} \subseteq KindOps(spec.kind)
  BY DEF KindOps
<1>4. /\ \A x \in new : Fits(<<"createEntry", x>>, spec)
      /\ \A x \in out : Fits(<<"deleteEntry", x>>, spec)
      /\ \A x \in changed : Fits(<<"updateEntry", x>>, spec)
  BY DEF Fits
<1>5. missing = new \cup changed
  OBVIOUS
<1> HIDE DEF new, changed, missing
<1>6. ASSUME NEW s \in S
      PROVE  Fitting(s, spec) /\ Calls(s) = {<<"createEntry", x>> : x \in new}
  BY <1>2, <1>3, <1>4, ForEachFits
<1>7. ASSUME NEW t \in T
      PROVE  Fitting(t, spec) /\ Calls(t) = {<<"deleteEntry", x>> : x \in out}
  BY <1>2, <1>3, <1>4, ForEachFits
<1>8. ASSUME NEW u \in U
      PROVE  Fitting(u, spec) /\ Calls(u) = {<<"updateEntry", x>> : x \in changed}
  BY <1>2, <1>3, <1>4, ForEachFits
<1> HIDE DEF S, T, U
<1>9. PICK s \in S, t \in T, u \in U : calls = s \o t \o u
  BY <1>1
<1> DEFINE st == s \o t
<1>10. Fitting(st, spec) /\ Calls(st) = Calls(s) \cup Calls(t)
  BY <1>6, <1>7, ConcatFits
<1>11. calls = st \o u
  BY <1>9
<1> HIDE DEF st
<1>12. Fitting(calls, spec) /\ Calls(calls) = Calls(st) \cup Calls(u)
  BY <1>8, <1>10, <1>11, ConcatFits
<1>13. \A e \in new : <<"createEntry", e>> \in Calls(calls)
  BY <1>6, <1>10, <1>12
<1>14. \A e \in changed : <<"updateEntry", e>> \in Calls(calls)
  BY <1>8, <1>12
<1>15. \A e \in out : <<"deleteEntry", e>> \in Calls(calls)
  BY <1>7, <1>10, <1>12
<1> QED BY <1>5, <1>12, <1>13, <1>14, <1>15 DEF missing

LEMMA SubnetsFit ==
  ASSUME NEW spec, spec.kind = "network_acl", NEW want, want \subseteq spec.subnets,
         IsFiniteSet(want), NEW have, IsFiniteSet(have),
         NEW calls \in syncAssociation(want, have)
  PROVE  /\ Fitting(calls, spec)
         /\ \A s \in want \ have : <<"upsert", s>> \in Calls(calls)
         /\ \A s \in have \ want : <<"deleteOld", <<s, "SubnetID">>>> \in Calls(calls)
<1> DEFINE in  == want \ have
           out == have \ want
           two == {"NetworkACLAssociationID", "SubnetID"}
           old == out \X two
           d   == <<<<"defaultACL", {}>>>>
           S == ForEach("upsert", in)
           T == ForEach("deleteOld", old)
           J == {s \o d \o t : s \in S, t \in T}
<1>1. syncAssociation(want, have) = J
  BY DEF syncAssociation
<1>2. IsFiniteSet(in) /\ IsFiniteSet(old)
  <2>1. IsFiniteSet(in) /\ IsFiniteSet(out)
    BY FS_Subset, FS_Difference
  <2>2. IsFiniteSet({"NetworkACLAssociationID"}) /\ IsFiniteSet({"SubnetID"})
    BY FS_Singleton
  <2>3. IsFiniteSet({"NetworkACLAssociationID"} \cup {"SubnetID"})
    BY <2>2, FS_Union
  <2>4. two = {"NetworkACLAssociationID"} \cup {"SubnetID"}
    OBVIOUS
  <2>5. IsFiniteSet(two)
    BY <2>3, <2>4
  <2> HIDE DEF two, out, in
  <2> QED BY <2>1, <2>5, FS_Product
<1>3. {"upsert", "deleteOld", "defaultACL"} \subseteq KindOps(spec.kind)
  BY DEF KindOps
<1>4. /\ \A x \in in : Fits(<<"upsert", x>>, spec)
      /\ \A x \in old : Fits(<<"deleteOld", x>>, spec)
      /\ Fits(<<"defaultACL", {}>>, spec)
  BY DEF Fits
<1>5. \A s \in out : <<s, "SubnetID">> \in old
  OBVIOUS
<1>6. Fitting(When(TRUE, "defaultACL", {}), spec)
  BY <1>3, <1>4, WhenFits
<1>7. Fitting(d, spec)
  BY <1>6 DEF When
<1> HIDE DEF old, d
<1>8. ASSUME NEW s \in S
      PROVE  Fitting(s, spec) /\ Calls(s) = {<<"upsert", x>> : x \in in}
  BY <1>2, <1>3, <1>4, ForEachFits
<1>9. ASSUME NEW t \in T
      PROVE  Fitting(t, spec) /\ Calls(t) = {<<"deleteOld", x>> : x \in old}
  BY <1>2, <1>3, <1>4, ForEachFits
<1> HIDE DEF S, T
<1>10. PICK s \in S, t \in T : calls = s \o d \o t
  BY <1>1
<1> DEFINE sd == s \o d
<1>11. Fitting(sd, spec) /\ Calls(sd) = Calls(s) \cup Calls(d)
  BY <1>7, <1>8, ConcatFits
<1>12. calls = sd \o t
  BY <1>10
<1> HIDE DEF sd
<1>13. Fitting(calls, spec) /\ Calls(calls) = Calls(sd) \cup Calls(t)
  BY <1>9, <1>11, <1>12, ConcatFits
<1>14. \A x \in in : <<"upsert", x>> \in Calls(calls)
  BY <1>8, <1>11, <1>13
<1>15. \A x \in old : <<"deleteOld", x>> \in Calls(calls)
  BY <1>9, <1>13
<1> QED BY <1>5, <1>13, <1>14, <1>15

\* An update of an ACL plans the entries, or refuses them.
LEMMA syncEntriesFit ==
  ASSUME NEW spec, spec.kind = "network_acl", IsFiniteSet(spec.entries), NEW have,
         IsFiniteSet(have), NEW calls \in syncEntries(spec.entries, have)
  PROVE  /\ Fitting(calls, spec)
         /\ \/ <<"refuse", {}>> \in Calls(calls)
            \/ /\ \A e \in spec.entries \ have :
                    <<"createEntry", e>> \in Calls(calls) \/ <<"updateEntry", e>> \in Calls(calls)
               /\ \A e \in have \ spec.entries : <<"deleteEntry", e>> \in Calls(calls)
<1>1. CASE Numbered(spec.entries)
  <2>1. calls \in EntryCalls(spec.entries, have)
    BY <1>1 DEF syncEntries
  <2> QED BY <2>1, EntriesFit
<1>2. CASE ~Numbered(spec.entries)
  <2>1. calls = When(TRUE, "refuse", {})
    BY <1>2 DEF syncEntries
  <2>2. Fits(<<"refuse", {}>>, spec) /\ "refuse" \in KindOps(spec.kind)
    BY DEF Fits, KindOps
  <2>3. /\ Fitting(When(TRUE, "refuse", {}), spec)
        /\ Calls(When(TRUE, "refuse", {})) = IF TRUE THEN {<<"refuse", {}>>} ELSE {}
    BY <2>2, WhenFits
  <2> QED BY <2>1, <2>3
<1> QED BY <1>1, <1>2

LEMMA updateACLFollows ==
  ASSUME Tracked, customUpdateNetworkAcl
  PROVE  Following'
<1> DEFINE delta == newNetworkACLDelta
           tags  == "tags" \in delta
           assoc == "subnets" \in delta
           any   == delta # {}
           a == When(tags, "tags", {})
           d == When(any, "findACL", {})
<1>1. PICK b \in syncEntries(w.spec.entries, w.seen.entries),
           subnets \in syncAssociation(w.spec.subnets, w.seen.subnets) :
        Go(Plan(a \o b \o (IF assoc THEN subnets ELSE <<>>) \o d))
  BY DEF customUpdateNetworkAcl
<1>2. At("found") /\ w.spec.kind = "network_acl"
  BY DEF customUpdateNetworkAcl, Updating, Kind
<1>3. /\ tags <=> w.spec.tags # w.seen.tags
      /\ w.spec.subnets # w.seen.subnets => assoc
      /\ tags \in BOOLEAN /\ any \in BOOLEAN
  BY DEF newNetworkACLDelta, DifferentAt
<1> DEFINE c == IF assoc THEN subnets ELSE <<>>
           calls == Joined(a, b, c, d)
<1>4. Go(Plan(calls))
  BY <1>1 DEF Joined
<1>5. {"findACL", "tags"} \subseteq KindOps(w.spec.kind)
  BY <1>2 DEF KindOps
<1>6. Fits(<<"findACL", {}>>, w.spec) /\ Fits(<<"tags", {}>>, w.spec)
  BY DEF Fits
<1> HIDE DEF delta, tags, assoc, any
<1>7. /\ IsFiniteSet(w.spec.entries) /\ IsFiniteSet(w.seen.entries)
      /\ IsFiniteSet(w.spec.subnets) /\ IsFiniteSet(w.seen.subnets)
  BY <1>2, FoundIs DEF IsListed
<1>8. /\ Fitting(b, w.spec)
      /\ \/ <<"refuse", {}>> \in Calls(b)
         \/ /\ \A e \in w.spec.entries \ w.seen.entries :
                 <<"createEntry", e>> \in Calls(b) \/ <<"updateEntry", e>> \in Calls(b)
            /\ \A e \in w.seen.entries \ w.spec.entries : <<"deleteEntry", e>> \in Calls(b)
  BY <1>2, <1>7, syncEntriesFit
<1>9. /\ Fitting(subnets, w.spec)
      /\ \A s \in w.spec.subnets \ w.seen.subnets : <<"upsert", s>> \in Calls(subnets)
      /\ \A s \in w.seen.subnets \ w.spec.subnets :
           <<"deleteOld", <<s, "SubnetID">>>> \in Calls(subnets)
  BY <1>2, <1>7, SubnetsFit
<1>10. Fitting(c, w.spec) /\ (w.spec.subnets # w.seen.subnets => c = subnets)
  BY <1>3, <1>9, NoneFits
<1>11. Fitting(a, w.spec) /\ Calls(a) = IF tags THEN {<<"tags", {}>>} ELSE {}
  BY <1>3, <1>5, <1>6, WhenFits
<1>12. Fitting(d, w.spec)
  BY <1>3, <1>5, <1>6, WhenFits
<1> HIDE DEF a, c, d
<1>13. AllFit(a, b, c, d, w.spec)
  BY <1>8, <1>10, <1>11, <1>12 DEF AllFit
<1>14. /\ Fitting(Joined(a, b, c, d), w.spec)
       /\ Calls(Joined(a, b, c, d)) = Calls(a) \cup Calls(b) \cup Calls(c) \cup Calls(d)
  BY <1>13, JoinedFit
<1> HIDE DEF calls
<1>15. Fitting(calls, w.spec) /\ Calls(calls) = Calls(a) \cup Calls(b) \cup Calls(c) \cup Calls(d)
  BY <1>14 DEF calls
<1>16. ASSUME IsLatest(Obj, w)
       PROVE  ComesTo(Obj, Calls(calls), w.spec, w.seen)
  <2>1. /\ Obj.tags = w.seen.tags /\ Obj.entries = w.seen.entries
        /\ Obj.subnets = w.seen.subnets
    BY <1>2, <1>16 DEF IsLatest
  <2>2. TagsCome(Obj, Calls(calls), w.spec, w.seen)
    BY <1>3, <1>11, <1>15, <2>1 DEF TagsCome
  <2>3. EntriesCome(Obj, Calls(calls), w.spec)
    BY <1>8, <1>15, <2>1 DEF EntriesCome
  <2>4. SubnetsCome(Obj, Calls(calls), w.spec)
    BY <1>9, <1>10, <1>15, <2>1 DEF SubnetsCome
  <2>5. KindOps(w.spec.kind) # {}
    BY <1>5
  <2> QED BY <1>2, <2>2, <2>3, <2>4, <2>5 DEF ComesTo
<1> QED BY <1>2, <1>4, <1>15, <1>16, CallsFollow

\* The update of an instance changes an attribute and fails, or none differs.
LEMMA updateInstanceFollows ==
  ASSUME Tracked, customUpdateInstance
  PROVE  Following'
<1> DEFINE delta == newInstanceDelta
           differing == {i \in DOMAIN InstanceAttributes : InstanceAttributes[i] \in delta}
           modify == differing # {} /\ isRunning(w.seen)
           tags == "tags" \in delta
           first == firstOf(differing)
           a == When(tags, "tags", {})
           b == When(modify, "modifyInstance", first)
           calls == a \o b
           r == Plan(calls)
           next == [r EXCEPT !.end = IF modify THEN "failed" ELSE @]
<1>1. At("found") /\ Go(next) /\ w.spec.kind = "instance"
  BY DEF customUpdateInstance, Updating, Kind
<1>2. DOMAIN w = WorkerFields /\ DOMAIN w.spec.attrs = Attributes
  BY <1>1, FoundIs, AttributesAre DEF Kind
<1>3. "tags" \notin Attributes
  BY DEF Attributes, InstanceAttributes
<1>4. /\ tags <=> w.spec.tags # w.seen.tags
      /\ tags \in BOOLEAN /\ modify \in BOOLEAN
  BY <1>2, <1>3 DEF newInstanceDelta, DifferentAt
<1>5. ~modify /\ isRunning(w.seen) => \A x \in Attributes : w.spec.attrs[x] = w.seen.attrs[x]
  BY <1>2 DEF newInstanceDelta, Attributes
<1> HIDE DEF delta, differing, modify, tags, first
<1>6. {"modifyInstance", "tags"} \subseteq KindOps(w.spec.kind)
  BY <1>1 DEF KindOps
<1>7. Fits(<<"modifyInstance", first>>, w.spec) /\ Fits(<<"tags", {}>>, w.spec)
  BY DEF Fits
<1>8. Fitting(a, w.spec) /\ Calls(a) = IF tags THEN {<<"tags", {}>>} ELSE {}
  BY <1>4, <1>6, <1>7, WhenFits
<1>9. Fitting(b, w.spec) /\ Calls(b) = IF modify THEN {<<"modifyInstance", first>>} ELSE {}
  BY <1>4, <1>6, <1>7, WhenFits
<1> HIDE DEF a, b
<1>10. Fitting(calls, w.spec) /\ Calls(calls) = Calls(a) \cup Calls(b)
  BY <1>8, <1>9, ConcatFits
<1> HIDE DEF calls
<1>11. /\ DOMAIN r = WorkerFields /\ r.pc = "plan" /\ r.plan = calls /\ r.mode = w.mode
       /\ r.id = w.id /\ r.spec = w.spec /\ r.seen = w.seen /\ r.blind = w.blind
       /\ r.interfered = w.interfered /\ r.end = w.end
  BY <1>2, PlanRecord
<1> HIDE DEF r
<1>12. /\ next.pc = "plan" /\ next.plan = calls /\ next.mode = w.mode
       /\ next.id = w.id /\ next.spec = w.spec /\ next.seen = w.seen
       /\ next.interfered = w.interfered /\ next.blind = w.blind
       /\ next.end = "synced" => ~modify /\ w.end = "synced"
  BY <1>11 DEF WorkerFields
<1> HIDE DEF next
<1>13. ASSUME IsLatest(Obj, w), ~modify
       PROVE  ComesTo(Obj, Calls(calls), w.spec, w.seen)
  <2>1. /\ Obj.tags = w.seen.tags /\ isRunning(Obj) /\ isRunning(w.seen)
        /\ \A x \in Attributes \ {"DisableAPITermination"} : Obj.attrs[x] = w.seen.attrs[x]
    BY <1>1, <1>13 DEF IsLatest
  <2>2. TagsCome(Obj, Calls(calls), w.spec, w.seen)
    BY <1>4, <1>8, <1>10, <2>1 DEF TagsCome
  <2>3. Runs(Obj, w.spec)
    BY <1>5, <1>13, <2>1 DEF Runs
  <2>4. \A call \in Calls(calls) : call[1] # "modifyInstance"
    BY <1>8, <1>9, <1>10, <1>13
  <2>5. KindOps(w.spec.kind) # {}
    BY <1>6
  <2> QED BY <1>1, <2>2, <2>3, <2>4, <2>5 DEF ComesTo
<1> QED BY <1>1, <1>10, <1>12, <1>13, PlannedFollows

\* The update of a list at rest changes it at once, or there is only the tags to do.
LEMMA updateListFollows ==
  ASSUME Tracked, customUpdateManagedPrefixList
  PROVE  Following'
<1> DEFINE delta == newManagedPrefixListDelta
           tags   == "tags" \in delta
           modify == delta \cap {"entries", "max"} # {}
           only   == tags /\ ~modify
           a == When(tags, "tags", {})
           b == When(modify, "modifyList", {})
           c == When(only, "desired", {})
           s == a \o b
           calls == s \o c
           r == Plan(calls)
           end == IF only THEN IF cr.version = 1 THEN "synced" ELSE "requeue" ELSE r.end
           blind == only /\ cr.version = 1 /\ ~Final(w.seen)
           next == [r EXCEPT !.end = end, !.blind = blind]
<1>1. At("found") /\ Go(next) /\ w.spec.kind = "managed_prefix_list"
  BY DEF customUpdateManagedPrefixList, Updating, Kind
<1>2. DOMAIN w = WorkerFields
  BY TrackedIs
<1>3. /\ tags <=> w.spec.tags # w.seen.tags
      /\ ~modify => w.spec.entries = w.seen.entries /\ w.spec.max = w.seen.max
      /\ tags \in BOOLEAN /\ modify \in BOOLEAN /\ only \in BOOLEAN
  BY DEF newManagedPrefixListDelta, DifferentAt
<1> HIDE DEF delta, modify, tags, only
<1>4. {"modifyList", "tags", "desired"} \subseteq KindOps(w.spec.kind)
  BY <1>1 DEF KindOps
<1>5. /\ Fits(<<"modifyList", {}>>, w.spec) /\ Fits(<<"tags", {}>>, w.spec)
      /\ Fits(<<"desired", {}>>, w.spec)
  BY DEF Fits
<1>6. Fitting(a, w.spec) /\ Calls(a) = IF tags THEN {<<"tags", {}>>} ELSE {}
  BY <1>3, <1>4, <1>5, WhenFits
<1>7. Fitting(b, w.spec) /\ Calls(b) = IF modify THEN {<<"modifyList", {}>>} ELSE {}
  BY <1>3, <1>4, <1>5, WhenFits
<1>8. Fitting(c, w.spec)
  BY <1>3, <1>4, <1>5, WhenFits
<1> HIDE DEF a, b, c
<1>9. Fitting(s, w.spec) /\ Calls(s) = Calls(a) \cup Calls(b)
  BY <1>6, <1>7, ConcatFits
<1> HIDE DEF s
<1>10. Fitting(calls, w.spec) /\ Calls(calls) = Calls(s) \cup Calls(c)
  BY <1>8, <1>9, ConcatFits
<1> HIDE DEF calls
<1>11. /\ DOMAIN r = WorkerFields /\ r.pc = "plan" /\ r.plan = calls /\ r.mode = w.mode
       /\ r.id = w.id /\ r.spec = w.spec /\ r.seen = w.seen /\ r.blind = w.blind
       /\ r.interfered = w.interfered /\ r.end = w.end
  BY <1>2, PlanRecord
<1> HIDE DEF r
<1>12. end = "synced" /\ ~blind => (only /\ Final(w.seen)) \/ (~only /\ w.end = "synced")
  BY <1>11
<1> HIDE DEF end, blind
<1>13. /\ next.pc = "plan" /\ next.plan = calls /\ next.mode = w.mode
       /\ next.id = w.id /\ next.spec = w.spec /\ next.seen = w.seen
       /\ next.interfered = w.interfered /\ next.blind = blind /\ next.end = end
  BY <1>11 DEF WorkerFields
<1> HIDE DEF next
<1>14. ASSUME IsLatest(Obj, w), end = "synced", ~blind
       PROVE  ComesTo(Obj, Calls(calls), w.spec, w.seen)
  <2>1. /\ Obj.tags = w.seen.tags /\ Obj.max = w.seen.max
        /\ w.end = "synced" => Final(w.seen)
        /\ Final(w.seen) => Final(Obj) /\ Obj.entries = w.seen.entries
    BY <1>1, <1>14 DEF IsLatest
  <2>2. TagsCome(Obj, Calls(calls), w.spec, w.seen)
    BY <1>3, <1>6, <1>9, <1>10, <2>1 DEF TagsCome
  <2>3. Final(w.seen)
    BY <1>12, <1>14, <2>1
  <2>4. ListComes(Obj, Calls(calls), w.spec)
    BY <1>3, <1>7, <1>9, <1>10, <2>1, <2>3 DEF ListComes
  <2>5. KindOps(w.spec.kind) # {}
    BY <1>4
  <2> QED BY <1>1, <2>2, <2>4, <2>5 DEF ComesTo
<1>15. ~Kind("instance")
  BY <1>1 DEF Kind
<1> QED BY <1>1, <1>10, <1>13, <1>14, <1>15, PlannedFollows

----------------------------------------------------------------------------
(* Deletions, and what a creation leaves.                                  *)

\* The last call of a plan that deletes.
LEMMA LastFits ==
  ASSUME NEW calls, NEW spec, Fitting(calls, spec), "delete" \in KindOps(spec.kind)
  PROVE  Fitting(calls \o <<<<"delete", {}>>>>, spec)
<1> DEFINE d == <<<<"delete", {}>>>>
<1>1. Fits(<<"delete", {}>>, spec)
  BY DEF Fits
<1>2. Fitting(When(TRUE, "delete", {}), spec)
  BY <1>1, WhenFits
<1>3. Fitting(d, spec)
  BY <1>2 DEF When
<1> HIDE DEF d
<1>4. Fitting(calls \o d, spec)
  BY <1>3, ConcatFits
<1> QED BY <1>4 DEF d

LEMMA DeletionPlanned ==
  ASSUME Tracked, Deleting, NEW calls, Fitting(calls, w.spec), "delete" \in KindOps(w.spec.kind),
         Go(Plan(calls \o <<<<"delete", {}>>>>))
  PROVE  Following'
<1> DEFINE all == calls \o <<<<"delete", {}>>>>
<1>1. Fitting(all, w.spec)
  BY LastFits
<1>2. Go(Plan(all)) /\ At("found") /\ w.mode = "delete"
  BY DEF Deleting
<1> HIDE DEF all
<1> QED BY <1>1, <1>2, CallsFollow

LEMMA deleteGatewayFollows ==
  ASSUME Tracked, sdkDeleteInternetGateway
  PROVE  Following'
<1>1. CASE Doing("delete") /\ Delete(Obj.live /\ Obj.vpc = NoVPC)
  BY <1>1, DeletionFollows
<1>2. CASE Deleting
  <2> DEFINE attached == w.seen.vpc # NoVPC
             calls == When(attached, "detach", w.seen.vpc)
  <2>1. w.spec.kind = "internet_gateway" /\ ~At("plan")
    BY <1>2 DEF sdkDeleteInternetGateway, Kind, Deleting, At
  <2>2. Go(Plan(calls \o <<<<"delete", {}>>>>))
    BY <2>1 DEF sdkDeleteInternetGateway, Doing
  <2>3. "detach" \in KindOps(w.spec.kind) /\ "delete" \in KindOps(w.spec.kind)
    BY <2>1 DEF KindOps
  <2>4. Fits(<<"detach", w.seen.vpc>>, w.spec)
    BY DEF Fits
  <2>5. attached \in BOOLEAN
    OBVIOUS
  <2> HIDE DEF attached
  <2>6. Fitting(calls, w.spec)
    BY <2>3, <2>4, <2>5, WhenFits
  <2> HIDE DEF calls
  <2> QED BY <1>2, <2>2, <2>3, <2>6, DeletionPlanned
<1> QED BY <1>1, <1>2 DEF sdkDeleteInternetGateway

LEMMA deleteOptionsFollows ==
  ASSUME Tracked, sdkDeleteDHCPOptions
  PROVE  Following'
<1>1. CASE Doing("delete") /\ Delete(Obj.live /\ Obj.vpcs = {})
  BY <1>1, DeletionFollows
<1>2. CASE Deleting
  <2>1. w.spec.kind = "dhcp_options" /\ ~At("plan") /\ At("found")
    BY <1>2 DEF sdkDeleteDHCPOptions, Kind, Deleting, At
  <2>2. PICK calls \in syncVPCs({}, w.seen.vpcs) : Go(Plan(calls \o <<<<"delete", {}>>>>))
    BY <2>1 DEF sdkDeleteDHCPOptions, Doing
  <2>3. IsFiniteSet({}) /\ IsFiniteSet(w.seen.vpcs)
    BY <2>1, FoundIs, FS_EmptySet DEF IsListed
  <2>4. Fitting(calls, w.spec)
    BY <2>1, <2>3, syncVPCsFit
  <2>5. "delete" \in KindOps(w.spec.kind)
    BY <2>1 DEF KindOps
  <2> QED BY <1>2, <2>2, <2>4, <2>5, DeletionPlanned
<1> QED BY <1>1, <1>2 DEF sdkDeleteDHCPOptions

LEMMA deleteACLFollows ==
  ASSUME Tracked, sdkDeleteNetworkACL
  PROVE  Following'
<1>1. CASE Doing("delete") /\ Delete(Obj.live /\ Obj.subnets = {})
  BY <1>1, DeletionFollows
<1>2. CASE Deleting
  <2>1. w.spec.kind = "network_acl" /\ ~At("plan") /\ At("found")
    BY <1>2 DEF sdkDeleteNetworkACL, Kind, Deleting, At
  <2>2. PICK subnets \in syncAssociation({}, w.seen.subnets) :
          Go(Plan((IF w.seen.subnets # {} THEN subnets ELSE <<>>) \o <<<<"delete", {}>>>>))
    BY <2>1 DEF sdkDeleteNetworkACL, Doing
  <2> DEFINE calls == IF w.seen.subnets # {} THEN subnets ELSE <<>>
  <2>3. IsFiniteSet({}) /\ IsFiniteSet(w.seen.subnets)
    BY <2>1, FoundIs, FS_EmptySet DEF IsListed
  <2>4. Fitting(subnets, w.spec)
    BY <2>1, <2>3, SubnetsFit
  <2>5. Fitting(calls, w.spec)
    BY <2>4, NoneFits
  <2>6. "delete" \in KindOps(w.spec.kind)
    BY <2>1 DEF KindOps
  <2> HIDE DEF calls
  <2> QED BY <1>2, <2>2, <2>5, <2>6, DeletionPlanned DEF calls
<1> QED BY <1>1, <1>2 DEF sdkDeleteNetworkACL

\* A deletion of one call.
LEMMA OneCallFollows ==
  ASSUME Tracked, At("found"), NEW obj, obj = Gone \/ ObjectIs(obj, cr.spec.kind),
         UNCHANGED cr, ec2' \in {ec2, [ec2 EXCEPT ![w.id] = obj]}, w'.pc \in Quiet
  PROVE  Following'
<1>1. w.id \in Ids
  BY FoundIs, WorkerIs DEF At, Working
<1>2. ObjectsAre'
  BY <1>1, ObjectsStay
<1> QED BY <1>2, QuietFollows DEF Following

LEMMA deleteFollows ==
  ASSUME Tracked,
         sdkDeleteSubnet \/ sdkDeleteLaunchTemplate \/ sdkDeleteManagedPrefixList
  PROVE  Following'
<1>1. At("found") /\ DOMAIN w = WorkerFields
  BY FoundIs DEF sdkDeleteSubnet, sdkDeleteLaunchTemplate, sdkDeleteManagedPrefixList, Deleting
<1>2. Delete(TRUE) \/ Delete(Final(Obj))
  BY DEF sdkDeleteSubnet, sdkDeleteLaunchTemplate, sdkDeleteManagedPrefixList
<1> DEFINE r == [w EXCEPT !.pc = "release"]
<1>3. r.pc \in Quiet /\ onError.pc \in Quiet
  BY <1>1, FoundIs, onErrorIs DEF Quiet, WorkerFields
<1>4. Call(Gone, r, onError) \/ Go(onError)
  BY <1>2 DEF Delete
<1> HIDE DEF r
<1>5. /\ UNCHANGED cr /\ ec2' \in {ec2, [ec2 EXCEPT ![w.id] = Gone]} /\ w'.pc \in Quiet
  BY <1>3, <1>4 DEF Call, Go
<1> QED BY <1>1, <1>5, OneCallFollows

LEMMA deleteInstanceFollows ==
  ASSUME Tracked, sdkDeleteInstance
  PROVE  Following'
<1> DEFINE out == [Obj EXCEPT !.live = FALSE, !.state = "shutting-down"]
           obj == IF Obj.live THEN out ELSE Obj
           r == [w EXCEPT !.pc = "release"]
<1>1. At("found") /\ w.spec.kind = "instance" /\ DOMAIN w = WorkerFields
      /\ ((Obj # Gone /\ Call(obj, r, onError)) \/ Go(onError))
  BY FoundIs DEF sdkDeleteInstance, Deleting, Kind
<1>2. r.pc \in Quiet /\ onError.pc \in Quiet
  BY <1>1, FoundIs, onErrorIs DEF Quiet, WorkerFields
<1>3. w.spec.kind = cr.spec.kind /\ w.id \in Ids
  BY <1>1, FoundIs, WorkerIs DEF At, Working
<1>4. Obj = Gone \/ ObjectIs(Obj, cr.spec.kind)
  BY <1>3, TrackedIs DEF Obj
<1>5. obj = Gone \/ ObjectIs(obj, cr.spec.kind)
  <2>1. CASE Obj # Gone /\ Obj.live
    <3>1. DOMAIN Obj = ObjectFields("instance") /\ DOMAIN Obj.attrs = Attributes
      BY <1>1, <1>3, <1>4, <2>1 DEF ObjectIs
    <3>2. /\ DOMAIN out = ObjectFields("instance") /\ out.attrs = Obj.attrs
          /\ out.live = FALSE /\ out.state = "shutting-down"
      BY <3>1 DEF ObjectFields
    <3> HIDE DEF out
    <3>3. ObjectIs(out, cr.spec.kind)
      BY <1>1, <1>3, <3>1, <3>2 DEF ObjectIs
    <3> QED BY <2>1, <3>3
  <2>2. CASE Obj = Gone \/ ~Obj.live
    BY <1>4, <2>2 DEF Gone
  <2> QED BY <2>1, <2>2
<1> HIDE DEF obj, r
<1>6. /\ UNCHANGED cr /\ w'.pc \in Quiet
      /\ ec2' \in {ec2, [ec2 EXCEPT ![w.id] = obj]}
  BY <1>1, <1>2 DEF Call, Go
<1> QED BY <1>1, <1>5, <1>6, OneCallFollows

LEMMA deleteReservationFollows ==
  ASSUME Tracked, sdkDeleteCapacityReservation
  PROVE  Following'
<1> DEFINE obj == [Obj EXCEPT !.live = FALSE]
           r == [w EXCEPT !.pc = "release"]
<1>1. At("found") /\ w.spec.kind = "capacity_reservation" /\ DOMAIN w = WorkerFields
      /\ ((Obj.live /\ Call(obj, r, onError)) \/ Go(onError))
  BY FoundIs DEF sdkDeleteCapacityReservation, Deleting, Kind
<1>2. r.pc \in Quiet /\ onError.pc \in Quiet
  BY <1>1, FoundIs, onErrorIs DEF Quiet, WorkerFields
<1>3. w.spec.kind = cr.spec.kind /\ w.id \in Ids
  BY <1>1, FoundIs, WorkerIs DEF At, Working
<1>4. Obj = Gone \/ ObjectIs(Obj, cr.spec.kind)
  BY <1>3, TrackedIs DEF Obj
<1>5. Obj.live => ObjectIs(obj, cr.spec.kind)
  <2> SUFFICES ASSUME Obj.live
               PROVE  ObjectIs(obj, cr.spec.kind)
    OBVIOUS
  <2>1. DOMAIN Obj = ObjectFields("capacity_reservation")
    BY <1>1, <1>3, <1>4 DEF ObjectIs, Gone
  <2>2. DOMAIN obj = ObjectFields("capacity_reservation")
    BY <2>1
  <2> HIDE DEF obj
  <2> QED BY <1>1, <1>3, <2>2 DEF ObjectIs
<1> HIDE DEF obj, r
<1>6. CASE Call(obj, r, onError) /\ Obj.live
  <2>1. /\ UNCHANGED cr /\ w'.pc \in Quiet
        /\ ec2' \in {ec2, [ec2 EXCEPT ![w.id] = obj]}
    BY <1>2, <1>6 DEF Call
  <2> QED BY <1>1, <1>5, <1>6, <2>1, OneCallFollows
<1>7. CASE Go(onError)
  <2>1. UNCHANGED <<cr, ec2>> /\ w'.pc \in Quiet
    BY <1>2, <1>7 DEF Go
  <2> QED BY <2>1, QuietFollows, NothingChanges
<1> QED BY <1>1, <1>6, <1>7

LEMMA CreationFollows ==
  ASSUME Tracked, At("create"), NEW obj, ObjectIs(obj, w.spec.kind), NEW next,
         CreateObject(obj, next), DOMAIN next = WorkerFields, next.mode = "create",
         next.spec = w.spec,
         next.pc \in {"requeue", "synced", "patchSpec"}
           \/ (next.pc = "plan" /\ Fitting(next.plan, w.spec))
  PROVE  Following'
<1>1. /\ DOMAIN w = WorkerFields /\ w.spec.kind = cr.spec.kind /\ DOMAIN ec2 = Ids
  BY TrackedIs DEF At
<1> DEFINE r == [next EXCEPT !.id = nextId]
           over == Over("failed")
           failed == [over EXCEPT !.id = cr.id, !.version = cr.version]
<1>2. /\ r.pc = next.pc /\ r.mode = "create" /\ r.spec = w.spec /\ r.plan = next.plan
  BY DEF WorkerFields
<1>3. failed.pc = "failed"
  <2>1. DOMAIN over = WorkerFields /\ over.pc = "failed"
    BY <1>1 DEF Over, WorkerFields
  <2> HIDE DEF over
  <2> QED BY <2>1 DEF WorkerFields
<1>4. failed = CreateFailed
  BY DEF CreateFailed
<1>5. /\ UNCHANGED cr /\ w' \in {r, failed}
      /\ ec2' = ec2 \/ (nextId \in Ids /\ ec2' = [ec2 EXCEPT ![nextId] = obj])
  BY <1>4 DEF CreateObject
<1> HIDE DEF r, failed
<1>6. ObjectsAre'
  BY <1>1, <1>5, TrackedIs DEF ObjectsAre
<1>7. PassFollows'
  <2>1. CASE w' = failed
    BY <1>3, <2>1, QuietFollows DEF Quiet
  <2>2. CASE w' = r /\ next.pc \in {"requeue", "synced", "patchSpec"}
    BY <1>2, <2>2, QuietFollows DEF Quiet
  <2>3. CASE w' = r /\ next.pc = "plan" /\ Fitting(next.plan, w.spec)
    BY <1>2, <2>3, PlanFollows
  <2> QED BY <1>5, <2>1, <2>2, <2>3
<1> QED BY <1>6, <1>7 DEF Following

\* The worker at a creation, and what becomes of it.
LEMMA CreatorIs ==
  ASSUME Tracked, At("create")
  PROVE  /\ Frame /\ ~At("idle") /\ DOMAIN w = WorkerFields /\ w.mode = "create"
         /\ w.spec.kind \in {"subnet", "internet_gateway"} => IsFiniteSet(w.spec.tables)
         /\ w.spec.kind = "dhcp_options" => IsFiniteSet(w.spec.vpcs)
         /\ w.spec.kind = "network_acl" => IsFiniteSet(w.spec.entries) /\ IsFiniteSet(w.spec.subnets)
         /\ w.spec.kind = "instance" => DOMAIN w.spec.attrs = Attributes
<1>1. ~At("idle")
  BY DEF At
<1> QED BY <1>1, TrackedIs, WorkerIs, SpecsAre, AttributesAre DEF Tracked, Kind, At

\* What is made, and then the CR is requeued, patched, or synced.
LEMMA SimpleCreationFollows ==
  ASSUME Tracked,
         \/ sdkCreateSubnet \/ sdkCreateInstance \/ sdkCreateLaunchTemplate
         \/ sdkCreateManagedPrefixList \/ sdkCreateCapacityReservation
  PROVE  Following'
<1>1. At("create")
  BY DEF sdkCreateSubnet, sdkCreateInstance, sdkCreateLaunchTemplate,
         sdkCreateManagedPrefixList, sdkCreateCapacityReservation
<1>2. Frame /\ DOMAIN w = WorkerFields /\ w.mode = "create"
  BY <1>1, CreatorIs
<1>3. ASSUME NEW l, NEW v
      PROVE  LET next == [w EXCEPT !.pc = l]
                 numbered == [w EXCEPT !.pc = l, !.version = v]
             IN  /\ DOMAIN next = WorkerFields /\ next.mode = "create" /\ next.spec = w.spec
                 /\ next.pc = l
                 /\ DOMAIN numbered = WorkerFields /\ numbered.mode = "create"
                 /\ numbered.spec = w.spec /\ numbered.pc = l
  BY <1>2 DEF WorkerFields
<1>4. CASE sdkCreateSubnet
  <2> DEFINE next == [w EXCEPT !.pc = "requeue"]
             obj == newSubnet
  <2>1. w.spec.kind = "subnet" /\ CreateObject(obj, next)
    BY <1>4 DEF sdkCreateSubnet, Kind
  <2>2. ObjectIs(obj, w.spec.kind)
    BY <2>1 DEF newSubnet, ObjectIs, ObjectFields
  <2>3. DOMAIN next = WorkerFields /\ next.mode = "create" /\ next.spec = w.spec
        /\ next.pc = "requeue"
    BY <1>3
  <2> HIDE DEF next, obj
  <2> QED BY <1>1, <2>1, <2>2, <2>3, CreationFollows
<1>5. CASE sdkCreateInstance
  <2> DEFINE next == [w EXCEPT !.pc = "requeue"]
             obj == newInstance
             attrs == [w.spec.attrs EXCEPT !.SourceDestCheckEnabled = TRUE]
  <2>1. w.spec.kind = "instance" /\ CreateObject(obj, next)
    BY <1>5 DEF sdkCreateInstance, Kind
  <2>2. DOMAIN attrs = Attributes
    BY <1>1, <2>1, CreatorIs
  <2>3. obj = [live |-> TRUE, state |-> "pending", tags |-> w.spec.tags, attrs |-> attrs]
    BY DEF newInstance
  <2> HIDE DEF attrs, obj
  <2>4. ObjectIs(obj, w.spec.kind)
    BY <2>1, <2>2, <2>3 DEF ObjectIs, ObjectFields
  <2>5. DOMAIN next = WorkerFields /\ next.mode = "create" /\ next.spec = w.spec
        /\ next.pc = "requeue"
    BY <1>3
  <2> HIDE DEF next
  <2> QED BY <1>1, <2>1, <2>4, <2>5, CreationFollows
<1>6. CASE sdkCreateLaunchTemplate
  <2> DEFINE next == [w EXCEPT !.pc = "patchSpec", !.version = 1]
             obj == newLaunchTemplate
  <2>1. w.spec.kind = "launch_template" /\ (CreateObject(obj, next) \/ Go(CreateFailed))
    BY <1>6 DEF sdkCreateLaunchTemplate, Kind
  <2>2. ObjectIs(obj, w.spec.kind)
    BY <2>1 DEF newLaunchTemplate, ObjectIs, ObjectFields
  <2>3. DOMAIN next = WorkerFields /\ next.mode = "create" /\ next.spec = w.spec
        /\ next.pc = "patchSpec"
    BY <1>3
  <2> HIDE DEF next, obj
  <2>4. CASE CreateObject(obj, next)
    BY <1>1, <2>2, <2>3, <2>4, CreationFollows
  <2>5. CASE Go(CreateFailed)
    <3>1. CreateFailed = onError
      BY <1>2 DEF onError
    <3>2. w'.pc \in Quiet /\ UNCHANGED <<cr, ec2>>
      BY <1>1, <1>2, <2>5, <3>1, onErrorIs DEF Go, Quiet, At
    <3> QED BY <3>2, QuietFollows, NothingChanges
  <2> QED BY <2>1, <2>4, <2>5
<1>7. CASE sdkCreateManagedPrefixList
  <2> DEFINE next == [w EXCEPT !.pc = "requeue", !.version = 0]
             obj == newManagedPrefixList
  <2>1. w.spec.kind = "managed_prefix_list" /\ CreateObject(obj, next)
    BY <1>7 DEF sdkCreateManagedPrefixList, Kind
  <2>2. ObjectIs(obj, w.spec.kind)
    BY <2>1 DEF newManagedPrefixList, ObjectIs, ObjectFields
  <2>3. DOMAIN next = WorkerFields /\ next.mode = "create" /\ next.spec = w.spec
        /\ next.pc = "requeue"
    BY <1>3
  <2> HIDE DEF next, obj
  <2> QED BY <1>1, <2>1, <2>2, <2>3, CreationFollows
<1>8. CASE sdkCreateCapacityReservation
  <2> DEFINE next == [w EXCEPT !.pc = "synced"]
             obj == newCapacityReservation
  <2>1. w.spec.kind = "capacity_reservation" /\ CreateObject(obj, next)
    BY <1>8 DEF sdkCreateCapacityReservation, Kind
  <2>2. ObjectIs(obj, w.spec.kind)
    BY <2>1 DEF newCapacityReservation, ObjectIs, ObjectFields
  <2>3. DOMAIN next = WorkerFields /\ next.mode = "create" /\ next.spec = w.spec
        /\ next.pc = "synced"
    BY <1>3
  <2> HIDE DEF next, obj
  <2> QED BY <1>1, <2>1, <2>2, <2>3, CreationFollows
<1> QED BY <1>4, <1>5, <1>6, <1>7, <1>8

\* What is made by a plan.
LEMMA PlannedCreationFollows ==
  ASSUME Tracked, At("create"), NEW obj, ObjectIs(obj, w.spec.kind), NEW calls,
         Fitting(calls, w.spec), CreateObject(obj, Plan(calls))
  PROVE  Following'
<1> DEFINE next == Plan(calls)
<1>1. DOMAIN w = WorkerFields /\ w.mode = "create"
  BY CreatorIs
<1>2. /\ DOMAIN next = WorkerFields /\ next.pc = "plan" /\ next.plan = calls
      /\ next.mode = w.mode /\ next.spec = w.spec
  BY <1>1, PlanRecord
<1>3. CreateObject(obj, next)
  OBVIOUS
<1> HIDE DEF next
<1> QED BY <1>1, <1>2, <1>3, CreationFollows

LEMMA createGatewayFollows ==
  ASSUME Tracked, sdkCreateInternetGateway
  PROVE  Following'
<1> DEFINE obj == [live |-> TRUE, vpc |-> NoVPC, tables |-> {}, tags |-> w.spec.tags]
           attached == w.spec.vpc # NoVPC
           a == When(attached, "attach", w.spec.vpc)
<1>1. At("create") /\ w.spec.kind = "internet_gateway"
  BY DEF sdkCreateInternetGateway, Kind
<1>2. PICK tables \in ForEach("associate", w.spec.tables) : CreateObject(obj, Plan(a \o tables))
  BY DEF sdkCreateInternetGateway
<1>3. ObjectIs(obj, w.spec.kind)
  BY <1>1 DEF ObjectIs, ObjectFields
<1>4. {"attach", "associate"} \subseteq KindOps(w.spec.kind) /\ attached \in BOOLEAN
  BY <1>1 DEF KindOps
<1>5. /\ Fits(<<"attach", w.spec.vpc>>, w.spec)
      /\ \A x \in w.spec.tables : Fits(<<"associate", x>>, w.spec)
  BY DEF Fits
<1> HIDE DEF attached, obj
<1>6. Fitting(a, w.spec)
  BY <1>4, <1>5, WhenFits
<1>7. IsFiniteSet(w.spec.tables)
  BY <1>1, CreatorIs
<1>8. Fitting(tables, w.spec)
  BY <1>4, <1>5, <1>7, ForEachFits
<1> HIDE DEF a
<1> DEFINE calls == a \o tables
<1>9. Fitting(calls, w.spec)
  BY <1>6, <1>8, ConcatFits
<1>10. CreateObject(obj, Plan(calls))
  BY <1>2
<1> HIDE DEF calls
<1> QED BY <1>1, <1>3, <1>9, <1>10, PlannedCreationFollows

LEMMA createOptionsFollows ==
  ASSUME Tracked, sdkCreateDHCPOptions
  PROVE  Following'
<1> DEFINE obj == [live |-> TRUE, vpcs |-> {}, tags |-> w.spec.tags]
<1>1. At("create") /\ w.spec.kind = "dhcp_options"
  BY DEF sdkCreateDHCPOptions, Kind
<1>2. PICK calls \in syncVPCs(w.spec.vpcs, {}) : CreateObject(obj, Plan(calls))
  BY DEF sdkCreateDHCPOptions
<1>3. ObjectIs(obj, w.spec.kind)
  BY <1>1 DEF ObjectIs, ObjectFields
<1>4. IsFiniteSet(w.spec.vpcs) /\ IsFiniteSet({})
  BY <1>1, CreatorIs, FS_EmptySet
<1>5. Fitting(calls, w.spec)
  BY <1>1, <1>4, syncVPCsFit
<1> HIDE DEF obj
<1> QED BY <1>1, <1>2, <1>3, <1>5, PlannedCreationFollows

LEMMA createACLFollows ==
  ASSUME Tracked, sdkCreateNetworkACL
  PROVE  Following'
<1> DEFINE obj == [live |-> TRUE, entries |-> {}, subnets |-> {}, tags |-> w.spec.tags]
<1>1. At("create") /\ w.spec.kind = "network_acl"
  BY DEF sdkCreateNetworkACL, Kind
<1>2. PICK subnets \in ForEach("upsert", w.spec.subnets),
           entries \in ForEach("createEntry", w.spec.entries) :
        CreateObject(obj, Plan(subnets \o entries))
  BY DEF sdkCreateNetworkACL
<1>3. ObjectIs(obj, w.spec.kind)
  BY <1>1 DEF ObjectIs, ObjectFields
<1>4. {"upsert", "createEntry"} \subseteq KindOps(w.spec.kind)
  BY <1>1 DEF KindOps
<1>5. /\ \A x \in w.spec.subnets : Fits(<<"upsert", x>>, w.spec)
      /\ \A x \in w.spec.entries : Fits(<<"createEntry", x>>, w.spec)
  BY DEF Fits
<1>6. IsFiniteSet(w.spec.subnets) /\ IsFiniteSet(w.spec.entries)
  BY <1>1, CreatorIs
<1>7. Fitting(subnets, w.spec) /\ Fitting(entries, w.spec)
  BY <1>4, <1>5, <1>6, ForEachFits
<1> DEFINE calls == subnets \o entries
<1>8. Fitting(calls, w.spec)
  BY <1>7, ConcatFits
<1>9. CreateObject(obj, Plan(calls))
  BY <1>2
<1> HIDE DEF calls, obj
<1> QED BY <1>1, <1>3, <1>8, <1>9, PlannedCreationFollows

----------------------------------------------------------------------------
(* The runtime, the user, and the rest of the world.                       *)

LEMMA RestingFollows ==
  ASSUME Tracked, cr'.spec.kind = cr.spec.kind, UNCHANGED ec2,
         \/ w'.pc \in Quiet
         \/ w'.pc = "patchSpec" /\ w'.mode = "create"
         \/ w'.pc = "synced" /\ w'.mode # "update"
         \/ w'.pc = "describe" /\ ~w'.blind
  PROVE  Following'
<1>1. ObjectsAre'
  BY TrackedIs DEF ObjectsAre
<1> QED BY <1>1, QuietFollows DEF Following

LEMMA UnmovedFollows ==
  ASSUME Tracked, cr'.spec.kind = cr.spec.kind, UNCHANGED <<ec2, w>>
  PROVE  Following'
<1>1. ObjectsAre'
  BY TrackedIs DEF ObjectsAre
<1>2. PassFits' /\ ReadIsThere' /\ FoundIsThere' /\ PlanComes' /\ SyncedIsExact' /\ SyncedIsFinal'
  BY DEF Tracked, Following, PassFollows, PassFits, ReadIsThere, FoundIsThere, PlanComes,
         SyncedIsExact, SyncedIsFinal, Unbiased, At, Kind, Obj
<1> QED BY <1>1, <1>2 DEF Following, PassFollows

LEMMA RuntimeFollows ==
  ASSUME Tracked, [Next]_vars, RuntimeStep \/ patchSpec
  PROVE  Following'
<1>1. cr'.spec.kind = cr.spec.kind /\ DOMAIN w = WorkerFields
  BY KindStays, TrackedIs
<1>2. CASE Begin
  <2>1. w'.pc = "describe" /\ ~w'.blind /\ UNCHANGED ec2
    BY <1>2 DEF Begin, Go, IdleWorker
  <2> QED BY <1>1, <2>1, RestingFollows
<1>3. CASE setResourceManaged
  <2>1. w'.pc \in Quiet /\ UNCHANGED ec2
    BY <1>1, <1>3, IdleIs DEF setResourceManaged, Quiet, WorkerFields
  <2> QED BY <1>1, <2>1, RestingFollows
<1>4. CASE syncTags
  BY <1>4, syncTagsFollows
<1>5. CASE returnDesired
  BY <1>5, readsFollow
<1>6. CASE finish
  BY <1>6, finishFollows
<1>7. CASE setResourceUnmanaged \/ PatchStatus
  <2>1. w'.pc \in Quiet /\ UNCHANGED ec2
    BY <1>7, IdleIs DEF setResourceUnmanaged, PatchStatus, Quiet
  <2> QED BY <1>1, <2>1, RestingFollows
<1>8. CASE patchSpec
  <2>1. w.mode = "create"
    BY <1>8 DEF patchSpec, Tracked, Following, PassFollows, PassFits
  <2>2. w'.pc = "synced" /\ w'.mode # "update" /\ UNCHANGED ec2
    BY <1>1, <1>8, <2>1 DEF patchSpec, WorkerFields
  <2> QED BY <1>1, <2>2, RestingFollows
<1> QED BY <1>2, <1>3, <1>4, <1>5, <1>6, <1>7, <1>8 DEF RuntimeStep

LEMMA WorldFollows ==
  ASSUME Tracked, [Next]_vars, WorldStep
  PROVE  Following'
<1>1. cr'.spec.kind = cr.spec.kind
  BY KindStays, TrackedIs
<1>2. CASE Crash
  <2>1. w'.pc \in Quiet /\ UNCHANGED ec2
    BY <1>2, IdleIs DEF Crash, Unread, Quiet
  <2> QED BY <1>1, <2>1, RestingFollows
<1>3. CASE EditSpec \/ DeleteCR \/ RecreateCR
  BY <1>1, <1>3, UnmovedFollows DEF EditSpec, DeleteCR, RecreateCR
<1> QED BY <1>2, <1>3 DEF WorldStep

\* The pass that another client interferes with promises nothing any more.
LEMMA OtherClientFollows ==
  ASSUME Tracked, NEW i \in Ids, NEW obj, ObjectIs(obj, cr.spec.kind), OtherClient(i, obj)
  PROVE  Following'
<1>1. /\ DOMAIN w = WorkerFields /\ UNCHANGED cr /\ ec2' = [ec2 EXCEPT ![i] = obj]
      /\ w' = IF At("idle") THEN w ELSE [w EXCEPT !.interfered = TRUE]
  BY TrackedIs DEF OtherClient
<1>2. ObjectsAre'
  BY <1>1, ObjectsStay
<1>3. CASE At("idle")
  <2>1. w'.pc \in Quiet
    BY <1>1, <1>3 DEF At, Quiet
  <2> QED BY <1>2, <2>1, QuietFollows DEF Following
<1>4. CASE ~At("idle")
  <2>1. /\ w'.pc = w.pc /\ w'.spec = w.spec /\ w'.plan = w.plan /\ w'.mode = w.mode
        /\ w'.seen = w.seen /\ w'.blind = w.blind /\ w'.interfered
    BY <1>1, <1>4 DEF WorkerFields
  <2>2. PassFits
    BY DEF Tracked, Following, PassFollows
  <2>3. PassFits'
    BY <2>1, <2>2 DEF PassFits, At, Kind
  <2>4. /\ ReadIsThere' /\ FoundIsThere' /\ PlanComes' /\ SyncedIsExact' /\ SyncedIsFinal'
    BY <2>1 DEF ReadIsThere, FoundIsThere, PlanComes, SyncedIsExact, SyncedIsFinal, Unbiased
  <2> QED BY <1>2, <2>3, <2>4 DEF Following, PassFollows
<1> QED BY <1>3, <1>4

LEMMA DriftFollows ==
  ASSUME Tracked, Drift
  PROVE  Following'
<1>1. PICK i \in Live :
        \/ cr.spec.kind = "subnet" /\ SubnetDrift(i)
        \/ cr.spec.kind = "internet_gateway" /\ InternetGatewayDrift(i)
        \/ cr.spec.kind = "dhcp_options" /\ DHCPOptionsDrift(i)
        \/ cr.spec.kind = "network_acl" /\ NetworkACLDrift(i)
        \/ cr.spec.kind = "instance" /\ InstanceDrift(i)
        \/ cr.spec.kind = "launch_template" /\ LaunchTemplateDrift(i)
        \/ cr.spec.kind = "managed_prefix_list" /\ ManagedPrefixListDrift(i)
        \/ cr.spec.kind = "capacity_reservation" /\ CapacityReservationDrift(i)
  BY DEF Drift
<1> DEFINE o == ec2[i]
           kind == cr.spec.kind
<1>2. i \in Ids /\ o.live /\ ObjectIs(o, kind)
  BY TrackedIs, GoneIsDead DEF Live
<1>3. ASSUME NEW obj, OtherClient(i, obj), ObjectIs(obj, kind)
      PROVE  Following'
  BY <1>2, <1>3, OtherClientFollows
<1>4. DOMAIN o = ObjectFields(kind)
  BY <1>2 DEF ObjectIs
<1>5. ASSUME NEW x
      PROVE  /\ kind \in {"subnet", "internet_gateway"} => ObjectIs([o EXCEPT !.tables = x], kind)
             /\ kind = "internet_gateway" => ObjectIs([o EXCEPT !.vpc = x], kind)
             /\ kind = "dhcp_options" => ObjectIs([o EXCEPT !.vpcs = x], kind)
             /\ kind = "network_acl" =>
                  ObjectIs([o EXCEPT !.subnets = x], kind) /\ ObjectIs([o EXCEPT !.entries = x], kind)
             /\ kind = "launch_template" =>
                  ObjectIs([o EXCEPT !.data = x], kind) /\ ObjectIs([o EXCEPT !.default = x], kind)
             /\ kind = "managed_prefix_list" =>
                  ObjectIs([o EXCEPT !.state = "modify-in-progress", !.next = x], kind)
             /\ kind = "capacity_reservation" => ObjectIs([o EXCEPT !.live = FALSE], kind)
  <2>1. kind \in {"subnet", "internet_gateway"} => ObjectIs([o EXCEPT !.tables = x], kind)
    BY <1>2, <1>4 DEF ObjectIs, ObjectFields
  <2>2. kind = "internet_gateway" => ObjectIs([o EXCEPT !.vpc = x], kind)
    BY <1>2, <1>4 DEF ObjectIs, ObjectFields
  <2>3. kind = "dhcp_options" => ObjectIs([o EXCEPT !.vpcs = x], kind)
    BY <1>2, <1>4 DEF ObjectIs, ObjectFields
  <2>4. kind = "network_acl" =>
          ObjectIs([o EXCEPT !.subnets = x], kind) /\ ObjectIs([o EXCEPT !.entries = x], kind)
    BY <1>2, <1>4 DEF ObjectIs, ObjectFields
  <2>5. kind = "launch_template" =>
          ObjectIs([o EXCEPT !.data = x], kind) /\ ObjectIs([o EXCEPT !.default = x], kind)
    BY <1>2, <1>4 DEF ObjectIs, ObjectFields
  <2>6. kind = "managed_prefix_list" =>
          ObjectIs([o EXCEPT !.state = "modify-in-progress", !.next = x], kind)
    BY <1>2, <1>4 DEF ObjectIs, ObjectFields
  <2>7. kind = "capacity_reservation" => ObjectIs([o EXCEPT !.live = FALSE], kind)
    BY <1>2, <1>4 DEF ObjectIs, ObjectFields
  <2> QED BY <2>1, <2>2, <2>3, <2>4, <2>5, <2>6, <2>7
<1>6. ASSUME NEW a \in SubnetAttributes, kind = "subnet"
      PROVE  ObjectIs([o EXCEPT !.attrs = @ \ {a}], kind)
  BY <1>2, <1>4, <1>6 DEF ObjectIs, ObjectFields
<1>7. CASE kind = "subnet" /\ SubnetDrift(i)
  <2>1. o.attrs \subseteq SubnetAttributes
    BY <1>2, <1>7 DEF ObjectIs
  <2> QED BY <1>3, <1>5, <1>6, <1>7, <2>1 DEF SubnetDrift, DisassociatedByOthers
<1>8. CASE kind = "internet_gateway" /\ InternetGatewayDrift(i)
  BY <1>3, <1>5, <1>8 DEF InternetGatewayDrift, DisassociatedByOthers
<1>9. CASE kind = "dhcp_options" /\ DHCPOptionsDrift(i)
  BY <1>3, <1>5, <1>9 DEF DHCPOptionsDrift
<1>10. CASE kind = "network_acl" /\ NetworkACLDrift(i)
  BY <1>3, <1>5, <1>10 DEF NetworkACLDrift
<1>11. CASE kind = "instance" /\ InstanceDrift(i)
  <2> DEFINE stopping == [o EXCEPT !.state = "stopping"]
             ending   == [o EXCEPT !.live = FALSE, !.state = "shutting-down"]
             attrs    == [o.attrs EXCEPT !.SecurityGroupIDs = {}]
             regrouped == [o EXCEPT !.attrs = attrs]
  <2>1. DOMAIN o.attrs = Attributes /\ DOMAIN attrs = Attributes
        /\ (o.live <=> o.state \in {"pending", "running", "stopping", "stopped"})
    BY <1>2, <1>11 DEF ObjectIs
  <2> HIDE DEF attrs
  <2>2. ObjectIs(stopping, kind)
    BY <1>2, <1>4, <1>11, <2>1 DEF ObjectIs, ObjectFields
  <2>3. ObjectIs(ending, kind)
    BY <1>2, <1>4, <1>11, <2>1 DEF ObjectIs, ObjectFields
  <2>4. ObjectIs(regrouped, kind)
    BY <1>2, <1>4, <1>11, <2>1 DEF ObjectIs, ObjectFields
  <2>5. OtherClient(i, stopping) \/ OtherClient(i, ending) \/ OtherClient(i, regrouped)
    BY <1>11 DEF InstanceDrift, attrs
  <2> HIDE DEF stopping, ending, regrouped
  <2> QED BY <1>3, <2>2, <2>3, <2>4, <2>5
<1>12. CASE kind = "launch_template" /\ LaunchTemplateDrift(i)
  BY <1>3, <1>5, <1>12 DEF LaunchTemplateDrift
<1>13. CASE kind = "managed_prefix_list" /\ ManagedPrefixListDrift(i)
  BY <1>3, <1>5, <1>13 DEF ManagedPrefixListDrift
<1>14. CASE kind = "capacity_reservation" /\ CapacityReservationDrift(i)
  BY <1>3, <1>5, <1>14 DEF CapacityReservationDrift
<1> QED BY <1>1, <1>7, <1>8, <1>9, <1>10, <1>11, <1>12, <1>13, <1>14

\* EC2 goes on with an object that is not at rest: no pass has taken it for done.
LEMMA GoingOnFollows ==
  ASSUME Tracked, NEW i \in Ids, NEW obj, ec2' = [ec2 EXCEPT ![i] = obj], UNCHANGED <<cr, w>>,
         obj = Gone \/ ObjectIs(obj, cr.spec.kind),
         \/ cr.spec.kind = "instance" /\ ~isRunning(ec2[i])
         \/ /\ cr.spec.kind = "managed_prefix_list" /\ ~Final(ec2[i]) /\ obj # Gone
            /\ obj.tags = ec2[i].tags /\ obj.max = ec2[i].max
  PROVE  Following'
<1>1. ObjectsAre'
  BY ObjectsStay
<1>2. CASE At("idle")
  <2>1. w'.pc \in Quiet
    BY <1>2 DEF At, Quiet
  <2> QED BY <1>1, <2>1, QuietFollows DEF Following
<1>3. CASE ~At("idle") /\ w.id # i
  <2>1. Obj' = Obj
    BY <1>3 DEF Obj
  <2>2. PassFits' /\ ReadIsThere' /\ FoundIsThere' /\ PlanComes' /\ SyncedIsExact'
        /\ SyncedIsFinal'
    BY <2>1 DEF Tracked, Following, PassFollows, PassFits, ReadIsThere, FoundIsThere, PlanComes,
                SyncedIsExact, SyncedIsFinal, Unbiased, At, Kind
  <2> QED BY <1>1, <2>2 DEF Following, PassFollows
<1>4. CASE ~At("idle") /\ w.id = i
  <2>1. /\ Obj' = obj /\ Obj = ec2[i] /\ w.spec.kind = cr.spec.kind
        /\ PassFits /\ ReadIsThere /\ FoundIsThere /\ PlanComes /\ SyncedIsExact /\ SyncedIsFinal
    BY <1>4, TrackedIs DEF Obj, Tracked, Following, PassFollows
  <2>2. PassFits'
    BY <2>1 DEF PassFits, At, Kind
  <2>3. CASE w.spec.kind = "instance" /\ ~isRunning(Obj)
    <3>1. ReadIsThere'
      BY <2>1, <2>3 DEF PassFits, ReadIsThere, At, Kind
    <3>2. FoundIsThere'
      <4>1. At("found") => w.interfered \/ w.end # "synced"
        BY <2>1, <2>3 DEF FoundIsThere, IsLatest, Kind
      <4> QED BY <2>3, <4>1 DEF FoundIsThere, At, Kind
    <3>3. PlanComes'
      <4>1. ~(At("plan") /\ Unbiased /\ w.end = "synced")
        BY <2>1, <2>3 DEF PlanComes, ComesTo, Runs
      <4> QED BY <4>1 DEF PlanComes, Unbiased, At
    <3>4. SyncedIsExact' /\ SyncedIsFinal'
      <4>1. ~(At("synced") /\ Unbiased)
        BY <2>1, <2>3 DEF SyncedIsExact, Unbiased, Exact, InstanceIs
      <4> QED BY <4>1 DEF SyncedIsExact, SyncedIsFinal, Unbiased, At
    <3> QED BY <1>1, <2>2, <3>1, <3>2, <3>3, <3>4 DEF Following, PassFollows
  <2>4. CASE /\ w.spec.kind = "managed_prefix_list" /\ ~Final(Obj) /\ obj # Gone
             /\ obj.tags = Obj.tags /\ obj.max = Obj.max
    <3>1. ReadIsThere'
      <4>1. ~At("associations") /\ ~At("version")
        BY <2>1, <2>4 DEF PassFits, Kind
      <4>2. At("entries") /\ ~w.interfered =>
              /\ "entries" \in DOMAIN w.seen /\ ~Final(w.seen)
              /\ w.seen.tags = obj.tags /\ w.seen.max = obj.max
        BY <2>1, <2>4 DEF ReadIsThere
      <4> QED BY <2>1, <2>4, <4>1, <4>2 DEF ReadIsThere, At, Final
    <3>2. FoundIsThere'
      <4>1. At("found") /\ ~w.interfered => IsLatest(Obj, w)
        BY <2>1, <2>4 DEF FoundIsThere, Kind
      <4>2. IsLatest(Obj, w) => IsLatest(obj, w)
        BY <2>4 DEF IsLatest
      <4> QED BY <2>1, <2>4, <4>1, <4>2 DEF FoundIsThere, At, Kind
    <3>3. PlanComes'
      <4>1. ~(At("plan") /\ Unbiased /\ w.end = "synced")
        BY <2>1, <2>4 DEF PlanComes, ComesTo, ListComes
      <4> QED BY <4>1 DEF PlanComes, Unbiased, At
    <3>4. SyncedIsExact' /\ SyncedIsFinal'
      <4>1. ~(At("synced") /\ Unbiased)
        BY <2>1, <2>4 DEF SyncedIsFinal, Kind
      <4> QED BY <4>1 DEF SyncedIsExact, SyncedIsFinal, Unbiased, At
    <3> QED BY <1>1, <2>2, <3>1, <3>2, <3>3, <3>4 DEF Following, PassFollows
  <2> QED BY <2>1, <2>3, <2>4
<1> QED BY <1>2, <1>3, <1>4

LEMMA SettleFollows ==
  ASSUME Tracked, NEW i \in Ids, Settle(i)
  PROVE  Following'
<1> DEFINE o == ec2[i]
           kind == cr.spec.kind
<1>1. o = Gone \/ ObjectIs(o, kind)
  BY TrackedIs
<1>2. CASE kind = "instance" /\ o # Gone /\ InstanceSettles(i)
  <2>1. /\ DOMAIN o = ObjectFields("instance") /\ DOMAIN o.attrs = Attributes
        /\ o.live <=> o.state \in {"pending", "running", "stopping", "stopped"}
    BY <1>1, <1>2 DEF ObjectIs
  <2>2. ASSUME NEW s \in {"running", "stopped", "terminated"},
               s \in {"running", "stopped"} <=> o.live
        PROVE  ObjectIs([o EXCEPT !.state = s], kind)
    BY <1>2, <2>1, <2>2 DEF ObjectIs, ObjectFields
  <2>3. PICK obj : Background(i, obj) /\ ~isRunning(o) /\ (obj = Gone \/ ObjectIs(obj, kind))
    BY <1>2, <2>1, <2>2 DEF InstanceSettles, isRunning
  <2> QED BY <1>2, <2>3, GoingOnFollows DEF Background
<1>3. CASE kind = "managed_prefix_list" /\ o.live /\ ManagedPrefixListSettles(i)
  <2> DEFINE made    == [o EXCEPT !.state = "create-complete", !.entries = o.next]
             version == o.version + (IF o.next # o.entries THEN 1 ELSE 0)
             changed == [o EXCEPT !.state = "modify-complete", !.entries = o.next,
                                  !.version = version]
  <2>1. o # Gone /\ DOMAIN o = ObjectFields("managed_prefix_list")
    BY <1>1, <1>3, GoneIsDead DEF ObjectIs
  <2>2. Background(i, made) \/ Background(i, changed)
    BY <1>3 DEF ManagedPrefixListSettles
  <2>3. ~Final(o)
    BY <1>3 DEF ManagedPrefixListSettles, Final
  <2> HIDE DEF version
  <2>4. /\ DOMAIN made = ObjectFields("managed_prefix_list") /\ made.live
        /\ made.tags = o.tags /\ made.max = o.max
        /\ DOMAIN changed = ObjectFields("managed_prefix_list") /\ changed.live
        /\ changed.tags = o.tags /\ changed.max = o.max
    BY <1>3, <2>1 DEF ObjectFields
  <2> HIDE DEF made, changed
  <2>5. /\ ObjectIs(made, kind) /\ made # Gone
        /\ ObjectIs(changed, kind) /\ changed # Gone
    BY <1>3, <2>4, GoneIsDead DEF ObjectIs
  <2>6. CASE Background(i, made)
    BY <1>3, <2>3, <2>4, <2>5, <2>6, GoingOnFollows DEF Background
  <2>7. CASE Background(i, changed)
    BY <1>3, <2>3, <2>4, <2>5, <2>7, GoingOnFollows DEF Background
  <2> QED BY <2>2, <2>6, <2>7
<1> QED BY <1>2, <1>3 DEF Settle

LEMMA FailsFollows ==
  ASSUME Tracked, Fails
  PROVE  Following'
<1>1. PICK i \in Live : cr.spec.kind = "managed_prefix_list" /\ ManagedPrefixListFails(i)
  BY DEF Fails
<1> DEFINE o == ec2[i]
           e == [ec2 EXCEPT ![i].state = "modify-failed"]
           obj == [o EXCEPT !.state = "modify-failed", !.next = o.entries]
<1>2. i \in Ids /\ o.live /\ DOMAIN ec2 = Ids /\ ObjectIs(o, cr.spec.kind)
  BY TrackedIs, GoneIsDead DEF Live
<1>3. ec2' = [ec2 EXCEPT ![i] = obj] /\ UNCHANGED <<cr, w>> /\ ~Final(o)
  BY <1>1, <1>2 DEF ManagedPrefixListFails, Final, env
<1>4. /\ DOMAIN obj = ObjectFields("managed_prefix_list") /\ obj.live
      /\ obj.tags = o.tags /\ obj.max = o.max
  BY <1>1, <1>2 DEF ObjectIs, ObjectFields
<1> HIDE DEF obj
<1>5. ObjectIs(obj, cr.spec.kind) /\ obj # Gone
  BY <1>1, <1>4, GoneIsDead DEF ObjectIs
<1> QED BY <1>1, <1>2, <1>3, <1>4, <1>5, GoingOnFollows

----------------------------------------------------------------------------
(* The invariant, and what it is for.                                      *)

LEMMA ReconcileFollows ==
  ASSUME Tracked, [Next]_vars, Reconcile
  PROVE  Following'
<1>1. CASE RuntimeStep
  BY <1>1, RuntimeFollows
<1>2. CASE RouteTableAssociationStep
  BY <1>2, readRouteTablesFollows, routeTablesFollows, disassociateFollows, associateFollows
     DEF RouteTableAssociationStep
<1>3. CASE SubnetStep
  BY <1>3, findFollows, SimpleCreationFollows, updateSubnetFollows, attributeFollows, deleteFollows
     DEF SubnetStep
<1>4. CASE InternetGatewayStep
  BY <1>4, findFollows, createGatewayFollows, updateGatewayFollows, detachFollows, attachFollows,
     deleteGatewayFollows DEF InternetGatewayStep
<1>5. CASE DHCPOptionsStep
  BY <1>5, findOnceFollows, createOptionsFollows, updateOptionsFollows, readsFollow,
     attachVPCFollows, detachVPCFollows, deleteOptionsFollows DEF DHCPOptionsStep
<1>6. CASE NetworkACLStep
  BY <1>6, findOnceFollows, createACLFollows, updateACLFollows, refuseFollows, createEntryFollows,
     deleteEntryFollows, updateEntryFollows, upsertFollows, readsFollow, deleteOldFollows,
     deleteACLFollows DEF NetworkACLStep
<1>7. CASE InstanceStep
  BY <1>7, findInstanceFollows, SimpleCreationFollows, updateInstanceFollows,
     modifyInstanceFollows, deleteInstanceFollows DEF InstanceStep
<1>8. CASE LaunchTemplateStep
  BY <1>8, findFollows, readVersionFollows, SimpleCreationFollows, RuntimeFollows,
     updateTemplateFollows, newVersionFollows, defaultVersionFollows, returnNothingFollows,
     deleteFollows DEF LaunchTemplateStep
<1>9. CASE ManagedPrefixListStep
  BY <1>9, findFollows, readEntriesFollows, SimpleCreationFollows, updateListFollows,
     modifyListFollows, deleteFollows DEF ManagedPrefixListStep
<1>10. CASE CapacityReservationStep
  BY <1>10, findReservationFollows, SimpleCreationFollows, updateReservationFollows,
     modifyReservationFollows, readsFollow, deleteReservationFollows DEF CapacityReservationStep
<1> QED BY <1>1, <1>2, <1>3, <1>4, <1>5, <1>6, <1>7, <1>8, <1>9, <1>10 DEF Reconcile

LEMMA FollowingStep ==
  ASSUME Tracked, [Next]_vars
  PROVE  Following'
<1>1. CASE UNCHANGED vars
  BY <1>1, UnmovedFollows DEF vars
<1>2. CASE Reconcile
  BY <1>2, ReconcileFollows
<1>3. CASE WorldStep
  BY <1>3, WorldFollows
<1>4. CASE Drift \/ (\E i \in Ids : Settle(i)) \/ Fails
  BY <1>4, DriftFollows, SettleFollows, FailsFollows
<1> QED BY <1>1, <1>2, <1>3, <1>4 DEF Next

LEMMA FollowingInit == Init => Following
<1> SUFFICES ASSUME Init PROVE Following
  OBVIOUS
<1>1. ObjectsAre
  BY DEF Init, ObjectsAre
<1>2. w.pc = "idle"
  BY IdleIs DEF Init
<1>3. PassFollows
  BY <1>2 DEF PassFollows, PassFits, ReadIsThere, FoundIsThere, PlanComes, SyncedIsExact,
              SyncedIsFinal, At
<1> QED BY <1>1, <1>3 DEF Following

\* What is known of every state, for any specs.
LEMMA TrackedInit == Init => Counted /\ Tracked
BY FrameInit, TiesInit, TemplateInvInit, FollowingInit DEF Tracked, TieInv, Init, Counted

LEMMA TrackedStep == Counted /\ Tracked /\ [Next]_vars => Counted' /\ Tracked'
<1> SUFFICES ASSUME Counted, Tracked, [Next]_vars
             PROVE  Counted' /\ Tracked'
  OBVIOUS
<1>1. TieInv /\ Frame /\ SpecsOK /\ TemplateInv
  BY DEF Tracked, TieInv
<1>2. TieInv'
  BY <1>1, FrameStep, SpecsStep, TieStep DEF TieInv
<1> QED BY <1>1, <1>2, CountedStep, TemplateInvStep, FollowingStep DEF Tracked

\* An update that reports success leaves exactly what the spec declared when it began,
\* unless another client interfered, an error was dropped or an outdated version read:
\* each difference that newResourceDelta finds has its call in the plan, each call
\* leaves its part as declared and the others as they were, and the pass reports
\* success with no call left (sdkFind and sdkUpdate of the eight kinds, tags.Sync,
\* updateRouteTableAssociations, syncVPCs, syncEntries, syncAssociation,
\* modifyInstanceAttributes, ModifyManagedPrefixList).
THEOREM ExactCorrect == Spec => []SyncedIsExact
<1>1. Counted /\ Tracked /\ [Next]_vars => Counted' /\ Tracked'
  BY TrackedStep
<1>2. Tracked => SyncedIsExact
  BY DEF Tracked, Following, PassFollows
<1> QED BY <1>1, <1>2, TrackedInit, PTL DEF Spec

----------------------------------------------------------------------------
(* Types.                                                                  *)

\* What CreateLaunchTemplate answers, default version 1, becomes the spec of the CR:
\* that is a spec, too.
PatchedAreSpecs ==
  \A s \in Specs : s.kind = "launch_template" => [s EXCEPT !.default = 1] \in Specs

\* A step of the pass that leaves the CR alone, and of what is typed in the worker
\* changes the version in hand and whether an error was dropped.
LEMMA StepTyped ==
  ASSUME WellTyped, UNCHANGED <<cr, edits, drifts>>,
         UNCHANGED faults \/ (faults < MaxFaults /\ faults' = faults + 1),
         w'.spec = w.spec, w'.interfered = w.interfered,
         w'.version \in Nat, w'.blind \in BOOLEAN
  PROVE  Types'
<1>1. Typed(w)
  BY TypedIs
<1>2. Typed(w')
  BY <1>1 DEF Typed
<1> QED BY <1>2, PassTyped

LEMMA AtTyped ==
  ASSUME WellTyped
  PROVE  \A label : /\ Typed([w EXCEPT !.pc = label])
                    /\ DOMAIN [w EXCEPT !.pc = label] = WorkerFields
                    /\ \A n \in Nat :
                         /\ Typed([w EXCEPT !.pc = label, !.version = n])
                         /\ DOMAIN [w EXCEPT !.pc = label, !.version = n] = WorkerFields
<1>1. Typed(w) /\ DOMAIN w = WorkerFields
  BY TypedIs
<1> QED BY <1>1 DEF Typed, WorkerFields

LEMMA NewPlanTyped ==
  ASSUME WellTyped, NEW calls, Go(Plan(calls))
  PROVE  Types'
BY OutcomesTyped, GoTyped

LEMMA AssociationTyped == WellTyped /\ RouteTableAssociationStep => Types'
<1> SUFFICES ASSUME WellTyped, RouteTableAssociationStep PROVE Types'
  OBVIOUS
<1>1. Typed(w) /\ DOMAIN w = WorkerFields
  BY TypedIs
<1>2. CASE readRouteTables
  <2>1. PICK answered \in BOOLEAN :
          /\ DescribeRouteTables(answered)
          /\ w' = [w EXCEPT !.pc = "found", !.blind = ~answered,
                     !.seen.tables = getRouteTableAssociations(answered)]
    BY <1>2 DEF readRouteTables
  <2>2. /\ w'.spec = w.spec /\ w'.interfered = w.interfered /\ w'.version = w.version
        /\ w'.blind = ~answered
    BY <1>1, <2>1 DEF WorkerFields
  <2>3. w'.blind \in BOOLEAN /\ w'.version \in Nat
    BY <1>1, <2>2 DEF Typed
  <2> QED BY <2>1, <2>2, <2>3, StepTyped DEF DescribeRouteTables, env
<1>3. CASE updateRouteTableAssociations
  <2>1. PICK answered, calls :
          /\ answered \in BOOLEAN /\ DescribeRouteTables(answered)
          /\ w' = [w EXCEPT !.plan = calls \o Tail(@), !.blind = @ \/ ~answered]
    BY <1>3 DEF updateRouteTableAssociations
  <2>2. /\ w'.spec = w.spec /\ w'.interfered = w.interfered /\ w'.version = w.version
        /\ w'.blind = (w.blind \/ ~answered)
    BY <1>1, <2>1 DEF WorkerFields
  <2>3. w'.blind \in BOOLEAN /\ w'.version \in Nat
    BY <1>1, <2>2 DEF Typed
  <2> QED BY <2>1, <2>2, <2>3, StepTyped DEF DescribeRouteTables, env
<1>4. CASE disassociateRouteTable \/ associateRouteTable
  <2>1. \E obj : Call(obj, Done, onError) \/ Go(onError)
    BY <1>4 DEF disassociateRouteTable, associateRouteTable
  <2> QED BY <2>1, PlanCallTyped
<1> QED BY <1>2, <1>3, <1>4 DEF RouteTableAssociationStep

LEMMA SubnetTyped == WellTyped /\ SubnetStep => Types'
<1> SUFFICES ASSUME WellTyped, SubnetStep PROVE Types'
  OBVIOUS
<1>1. CASE sdkFindSubnet
  <2>1. Typed([Found EXCEPT !.pc = "associations"]) /\ Typed(onError)
    BY OutcomesTyped, AmendedTyped
  <2> QED BY <1>1, <2>1, DescribeTyped DEF sdkFindSubnet
<1>2. CASE sdkCreateSubnet
  BY <1>2, AtTyped, CreateTyped DEF sdkCreateSubnet
<1>3. CASE customUpdateSubnet
  BY <1>3, NewPlanTyped DEF customUpdateSubnet
<1>4. CASE updateSubnetAttribute
  <2>1. \E obj : Call(obj, Done, onError) \/ Go(onError)
    BY <1>4 DEF updateSubnetAttribute
  <2> QED BY <2>1, PlanCallTyped
<1>5. CASE sdkDeleteSubnet
  BY <1>5, DeleteTyped DEF sdkDeleteSubnet
<1> QED BY <1>1, <1>2, <1>3, <1>4, <1>5 DEF SubnetStep

LEMMA InternetGatewayTyped == WellTyped /\ InternetGatewayStep => Types'
<1> SUFFICES ASSUME WellTyped, InternetGatewayStep PROVE Types'
  OBVIOUS
<1>1. CASE sdkFindInternetGateway
  <2>1. Typed([Found EXCEPT !.pc = "associations"]) /\ Typed(onError)
    BY OutcomesTyped, AmendedTyped
  <2> QED BY <1>1, <2>1, DescribeTyped DEF sdkFindInternetGateway
<1>2. CASE sdkCreateInternetGateway
  <2>1. \E obj, calls : CreateObject(obj, Plan(calls))
    BY <1>2, Zenon DEF sdkCreateInternetGateway
  <2> QED BY <2>1, OutcomesTyped, CreateTyped
<1>3. CASE customUpdateInternetGateway
  BY <1>3, NewPlanTyped DEF customUpdateInternetGateway
<1>4. CASE detachFromVPC \/ attachToVPC
  <2>1. \E obj : Call(obj, Done, onError) \/ Go(onError)
    BY <1>4 DEF detachFromVPC, attachToVPC
  <2> QED BY <2>1, PlanCallTyped
<1>5. CASE sdkDeleteInternetGateway
  <2>1. (\E calls : Go(Plan(calls))) \/ (\E allowed : Delete(allowed))
    BY <1>5, Zenon DEF sdkDeleteInternetGateway
  <2> QED BY <2>1, NewPlanTyped, DeleteTyped
<1> QED BY <1>1, <1>2, <1>3, <1>4, <1>5 DEF InternetGatewayStep

LEMMA DHCPOptionsTyped == WellTyped /\ DHCPOptionsStep => Types'
<1> SUFFICES ASSUME WellTyped, DHCPOptionsStep PROVE Types'
  OBVIOUS
<1>1. CASE sdkFindDHCPOptions
  BY <1>1, OutcomesTyped, DescribeTyped DEF sdkFindDHCPOptions
<1>2. CASE sdkCreateDHCPOptions
  <2>1. \E obj, calls : CreateObject(obj, Plan(calls))
    BY <1>2, Zenon DEF sdkCreateDHCPOptions
  <2> QED BY <2>1, OutcomesTyped, CreateTyped
<1>3. CASE customUpdateDHCPOptions
  <2>1. \E calls : Go(Plan(calls))
    BY <1>3, Zenon DEF customUpdateDHCPOptions
  <2> QED BY <2>1, NewPlanTyped
<1>4. CASE findAfterUpdate
  BY <1>4, OutcomesTyped, GoTyped, UnreadTyped DEF findAfterUpdate
<1>5. CASE attachVPC \/ detachVPC
  <2>1. Typed(Unnoticed)
    BY OutcomesTyped, AmendedTyped DEF Unnoticed
  <2>2. \E obj : Call(obj, Done, Unnoticed) \/ Go(Unnoticed)
    BY <1>5 DEF attachVPC, detachVPC
  <2> QED BY <2>1, <2>2, OutcomesTyped, GoTyped, CallTyped
<1>6. CASE sdkDeleteDHCPOptions
  <2>1. (\E calls : Go(Plan(calls))) \/ (\E allowed : Delete(allowed))
    BY <1>6, Zenon DEF sdkDeleteDHCPOptions
  <2> QED BY <2>1, NewPlanTyped, DeleteTyped
<1> QED BY <1>1, <1>2, <1>3, <1>4, <1>5, <1>6 DEF DHCPOptionsStep

LEMMA NetworkACLTyped == WellTyped /\ NetworkACLStep => Types'
<1> SUFFICES ASSUME WellTyped, NetworkACLStep PROVE Types'
  OBVIOUS
<1>1. CASE sdkFindNetworkACL
  BY <1>1, OutcomesTyped, DescribeTyped DEF sdkFindNetworkACL
<1>2. CASE sdkCreateNetworkACL
  <2>1. \E obj, calls : CreateObject(obj, Plan(calls))
    BY <1>2, Zenon DEF sdkCreateNetworkACL
  <2> QED BY <2>1, OutcomesTyped, CreateTyped
<1>3. CASE customUpdateNetworkAcl
  <2>1. \E calls : Go(Plan(calls))
    BY <1>3, Zenon DEF customUpdateNetworkAcl
  <2> QED BY <2>1, NewPlanTyped
<1>4. CASE refuseEntries \/ deleteEntry \/ updateEntry
  <2>1. \E obj : Call(obj, Done, onError) \/ Go(onError)
    BY <1>4 DEF refuseEntries, deleteEntry, updateEntry
  <2> QED BY <2>1, PlanCallTyped
<1>5. CASE createEntry \/ upsertNewAssociations
  <2>1. \E op, obj : Call(obj, Done, orLogged(op)) \/ Go(orLogged(op))
    BY <1>5 DEF createEntry, upsertNewAssociations
  <2>2. \A op : Typed(orLogged(op))
    <3> TAKE op
    <3>1. Typed(w) /\ DOMAIN w = WorkerFields
      BY TypedIs
    <3>2. \A rest : Typed([w EXCEPT !.plan = rest, !.blind = TRUE])
      BY <3>1 DEF Typed, WorkerFields
    <3>3. \E rest : orLogged(op) \in {[w EXCEPT !.plan = rest, !.blind = TRUE], onError}
      BY Zenon DEF orLogged
    <3> QED BY <3>2, <3>3, OutcomesTyped
  <2> QED BY <2>1, <2>2, OutcomesTyped, GoTyped, CallTyped
<1>6. CASE describeDefaultACL \/ findACLAfterUpdate
  BY <1>6, OutcomesTyped, GoTyped, UnreadTyped DEF describeDefaultACL, findACLAfterUpdate
<1>7. CASE deleteOldAssociations
  <2>1. \E obj : Call(obj, Done, onError) \/ Go(onError)
    BY <1>7 DEF deleteOldAssociations
  <2> QED BY <2>1, PlanCallTyped
<1>8. CASE sdkDeleteNetworkACL
  <2>1. (\E calls : Go(Plan(calls))) \/ (\E allowed : Delete(allowed))
    BY <1>8, Zenon DEF sdkDeleteNetworkACL
  <2> QED BY <2>1, NewPlanTyped, DeleteTyped
<1> QED BY <1>1, <1>2, <1>3, <1>4, <1>5, <1>6, <1>7, <1>8 DEF NetworkACLStep

LEMMA InstanceTyped == WellTyped /\ InstanceStep => Types'
<1> SUFFICES ASSUME WellTyped, InstanceStep PROVE Types'
  OBVIOUS
<1>1. Typed(w) /\ DOMAIN w = WorkerFields
  BY TypedIs
<1>2. CASE sdkFindInstance
  <2>1. \A x, e : Typed([w EXCEPT !.pc = "found", !.seen = x, !.end = e])
    BY <1>1 DEF Typed, WorkerFields
  <2>2. PICK found :
          /\ Describe(found, NotFound)
          /\ \E x, e : found \in {NotFound, [w EXCEPT !.pc = "found", !.seen = x, !.end = e]}
    BY <1>2, Zenon DEF sdkFindInstance
  <2> QED BY <2>1, <2>2, OutcomesTyped, DescribeTyped
<1>3. CASE sdkCreateInstance
  BY <1>3, AtTyped, CreateTyped DEF sdkCreateInstance
<1>4. CASE customUpdateInstance
  <2>1. \E calls, e : Go([Plan(calls) EXCEPT !.end = e])
    <3>1. \E calls, modify : Go([Plan(calls) EXCEPT !.end = IF modify THEN "failed" ELSE @])
      BY <1>4, Zenon DEF customUpdateInstance
    <3> QED BY <3>1, Zenon
  <2> QED BY <2>1, PlanTyped
<1>5. CASE modifyInstanceAttributes
  <2>1. \E obj : Call(obj, Done, onError) \/ Go(onError)
    BY <1>5 DEF modifyInstanceAttributes
  <2> QED BY <2>1, PlanCallTyped
<1>6. CASE sdkDeleteInstance
  <2>1. \E obj : Call(obj, [w EXCEPT !.pc = "release"], onError) \/ Go(onError)
    BY <1>6 DEF sdkDeleteInstance
  <2> QED BY <2>1, OutcomesTyped, GoTyped, CallTyped
<1> QED BY <1>2, <1>3, <1>4, <1>5, <1>6 DEF InstanceStep

LEMMA ManagedPrefixListTyped == WellTyped /\ ManagedPrefixListStep => Types'
<1> SUFFICES ASSUME WellTyped, ManagedPrefixListStep PROVE Types'
  OBVIOUS
<1>1. Typed(w) /\ DOMAIN w = WorkerFields /\ cr.version \in Nat
  BY TypedIs
<1>2. CASE sdkFindManagedPrefixList
  <2>1. Typed([Found EXCEPT !.pc = "entries"]) /\ Typed(onError)
    BY OutcomesTyped, AmendedTyped
  <2> QED BY <1>2, <2>1, DescribeTyped DEF sdkFindManagedPrefixList
<1>3. ASSUME NEW final \in BOOLEAN
      PROVE  /\ Typed(Reported(final)) /\ DOMAIN Reported(final) = WorkerFields
  BY <1>1 DEF Reported, Typed, WorkerFields
<1>4. CASE getManagedPrefixListEntries
  <2>1. CASE Unread(onError)
    BY <2>1, OutcomesTyped, UnreadTyped
  <2>2. CASE Go([Reported(Final(w.seen)) EXCEPT !.pc = "found", !.seen.entries = Obj.entries])
    <3> DEFINE final == Final(w.seen)
               r == Reported(final)
    <3>1. final \in BOOLEAN
      BY DEF Final
    <3>2. Typed(r) /\ DOMAIN r = WorkerFields
      BY <1>3, <3>1
    <3>3. Go([r EXCEPT !.pc = "found", !.seen.entries = Obj.entries])
      BY <2>2
    <3> HIDE DEF r
    <3>4. Typed([r EXCEPT !.pc = "found", !.seen.entries = Obj.entries])
      BY <3>2 DEF Typed, WorkerFields
    <3> QED BY <3>3, <3>4, GoTyped
  <2> QED BY <1>4, <2>1, <2>2 DEF getManagedPrefixListEntries
<1>5. CASE sdkCreateManagedPrefixList
  BY <1>5, AtTyped, CreateTyped DEF sdkCreateManagedPrefixList
<1>6. CASE customUpdateManagedPrefixList
  <2>1. PICK calls, e, a, b :
          Go([Plan(calls) EXCEPT !.end = e, !.blind = a /\ b /\ cr.version = 1 /\ ~Final(w.seen)])
    <3>1. \E calls, a, b :
            Go([Plan(calls) EXCEPT
                  !.end = IF a /\ b THEN IF cr.version = 1 THEN "synced" ELSE "requeue" ELSE @,
                  !.blind = a /\ b /\ cr.version = 1 /\ ~Final(w.seen)])
      BY <1>6, Zenon DEF customUpdateManagedPrefixList
    <3> QED BY <3>1, Zenon
  <2> DEFINE blind == a /\ b /\ cr.version = 1 /\ ~Final(w.seen)
             r == Plan(calls)
  <2>2. Go([r EXCEPT !.end = e, !.blind = blind])
    BY <2>1
  <2>3. blind \in BOOLEAN
    OBVIOUS
  <2>4. Typed(r) /\ DOMAIN r = WorkerFields
    BY OutcomesTyped
  <2> HIDE DEF blind, r
  <2>5. Typed([r EXCEPT !.end = e, !.blind = blind])
    BY <2>3, <2>4 DEF Typed, WorkerFields
  <2> QED BY <2>2, <2>5, GoTyped
<1>7. CASE ModifyManagedPrefixList
  <2> DEFINE r == Reported(FALSE)
  <2>1. \E obj : Call(obj, [r EXCEPT !.plan = Tail(@)], onError) \/ Go(onError)
    BY <1>7, Zenon DEF ModifyManagedPrefixList
  <2>2. Typed(r) /\ DOMAIN r = WorkerFields
    BY <1>3
  <2> HIDE DEF r
  <2>3. Typed([r EXCEPT !.plan = Tail(@)])
    BY <2>2 DEF Typed, WorkerFields
  <2> QED BY <2>1, <2>3, OutcomesTyped, GoTyped, CallTyped
<1>8. CASE sdkDeleteManagedPrefixList
  BY <1>8, DeleteTyped DEF sdkDeleteManagedPrefixList
<1> QED BY <1>2, <1>4, <1>5, <1>6, <1>7, <1>8 DEF ManagedPrefixListStep

LEMMA CapacityReservationTyped == WellTyped /\ CapacityReservationStep => Types'
<1> SUFFICES ASSUME WellTyped, CapacityReservationStep PROVE Types'
  OBVIOUS
<1>1. CASE sdkFindCapacityReservation
  <2> DEFINE r == Found
  <2>1. Typed(r) /\ DOMAIN r = WorkerFields
    BY OutcomesTyped
  <2> HIDE DEF r
  <2>2. Typed([r EXCEPT !.seen.info = w.spec.info])
    BY <2>1 DEF Typed, WorkerFields
  <2> QED BY <1>1, <2>2, OutcomesTyped, DescribeTyped DEF sdkFindCapacityReservation, r
<1>2. CASE sdkCreateCapacityReservation
  BY <1>2, AtTyped, CreateTyped DEF sdkCreateCapacityReservation
<1>3. CASE sdkUpdateCapacityReservation
  BY <1>3, NewPlanTyped DEF sdkUpdateCapacityReservation
<1>4. CASE modifyCapacityReservation
  <2>1. \E obj : Call(obj, Done, onError) \/ Go(onError)
    BY <1>4 DEF modifyCapacityReservation
  <2> QED BY <2>1, PlanCallTyped
<1>5. CASE findReservationAfterUpdate
  BY <1>5, OutcomesTyped, GoTyped, UnreadTyped DEF findReservationAfterUpdate
<1>6. CASE sdkDeleteCapacityReservation
  <2>1. \E obj : Call(obj, [w EXCEPT !.pc = "release"], onError) \/ Go(onError)
    BY <1>6 DEF sdkDeleteCapacityReservation
  <2> QED BY <2>1, OutcomesTyped, GoTyped, CallTyped
<1> QED BY <1>1, <1>2, <1>3, <1>4, <1>5, <1>6 DEF CapacityReservationStep

----------------------------------------------------------------------------
\* A pass over a launch template that has found it has it in hand: nobody but a pass
\* deletes a template.
Holding == {"version", "found", "plan"}

TemplateInHand ==
  cr.spec.kind = "launch_template" /\ w.pc \in Holding =>
    /\ w.id \in Live
    /\ At("version") => IsSequence(w.seen.data)

\* The lengths that are recorded: of what was read, and of what is appended to.
LengthsAre ==
  /\ At("version") => Len(w.seen.data) \in Nat
  /\ Doing("newVersion") => Len(Obj.data) \in Nat

LEMMA LengthsFollow ==
  ASSUME Tracked, TemplateInHand
  PROVE  LengthsAre
<1>1. ASSUME NEW data, IsSequence(data)
      PROVE  Len(data) \in Nat
  <2> DEFINE R == {data[i] : i \in DOMAIN data}
  <2>1. data \in Seq(R)
    BY <1>1 DEF IsSequence
  <2> HIDE DEF R
  <2> QED BY <2>1
<1>2. CASE At("version")
  <2>1. cr.spec.kind = "launch_template"
    BY <1>2, TrackedIs DEF Tracked, Following, PassFollows, PassFits, Kind, At
  <2>2. IsSequence(w.seen.data)
    BY <1>2, <2>1 DEF TemplateInHand, Holding, At
  <2> QED BY <1>1, <1>2, <2>2 DEF LengthsAre, Doing, At
<1>3. CASE Doing("newVersion")
  <2>1. cr.spec.kind = "launch_template"
    <3>1. w.spec.kind = "launch_template"
      <4>1. Fitting(w.plan, w.spec)
        BY <1>3 DEF Tracked, Following, PassFollows, PassFits, Doing, At
      <4>2. w.plan # <<>> /\ Head(w.plan)[1] = "newVersion"
        BY <1>3 DEF Doing
      <4>3. Head(w.plan)[1] \in KindOps(w.spec.kind)
        BY <4>1, <4>2, FittingIs
      <4> QED BY <4>2, <4>3 DEF KindOps
    <3> QED BY <1>3, <3>1, TrackedIs DEF Doing, At
  <2>2. w.id \in Live
    BY <1>3, <2>1 DEF TemplateInHand, Holding, Doing, At
  <2>3. IsSequence(Obj.data)
    BY <2>1, <2>2, TrackedIs DEF TemplateInv, TemplatesOK, Obj
  <2> QED BY <1>1, <1>3, <2>3 DEF LengthsAre, Doing, At
<1> QED BY <1>2, <1>3 DEF LengthsAre

\* The pass is over, or goes on with the template, which lives.
LEMMA StaysInHand ==
  ASSUME Templates, TemplateInHand, w.pc \in Holding, NEW obj, obj.live,
         ec2' \in {ec2, [ec2 EXCEPT ![w.id] = obj]},
         w'.pc \notin Holding \/ (w'.id = w.id /\ w'.pc # "version")
  PROVE  TemplateInHand'
<1>1. w.id \in Live /\ DOMAIN ec2 = Ids
  BY DEF Templates, TemplateInHand, Frame, WellFormedAll, EC2WellFormed
<1>2. w.id \in Live'
  BY <1>1 DEF Live
<1> QED BY <1>2 DEF TemplateInHand, At

LEMMA CallInHand ==
  ASSUME Templates, TemplateInHand, At("plan"), NEW obj, Obj.live => obj.live,
         NEW next, next.pc = "plan", next.id = w.id,
         NEW failed, failed.pc = "failed" \/ (failed.pc = "plan" /\ failed.id = w.id),
         Call(obj, next, failed) \/ Go(failed) \/ Go(next)
  PROVE  TemplateInHand'
<1>1. w.pc \in Holding /\ Obj.live
  BY DEF At, Holding, Templates, TemplateInHand, Live, Obj
<1>2. ec2' \in {ec2, [ec2 EXCEPT ![w.id] = obj]} /\ w' \in {next, failed}
  BY DEF Call, Go
<1>3. w'.pc \notin Holding \/ (w'.id = w.id /\ w'.pc # "version")
  BY <1>2 DEF Holding
<1> QED BY <1>1, <1>2, <1>3, StaysInHand

LEMMA OutcomesHold ==
  ASSUME Templates, ~At("idle")
  PROVE  /\ onError.pc = "failed" /\ DOMAIN w = WorkerFields
         /\ Done.id = w.id /\ Done.pc = w.pc /\ DOMAIN Done = WorkerFields
<1>1. DOMAIN w = WorkerFields /\ Frame
  BY WorkerIs DEF Templates
<1> QED BY <1>1, onErrorIs DEF Done, WorkerFields

LEMMA RuntimeInHand ==
  ASSUME Templates, TemplateInHand, RuntimeStep
  PROVE  TemplateInHand'
<1>1. CASE syncTags
  <2>1. At("plan") /\ ~At("idle")
    BY <1>1 DEF syncTags, Doing, At
  <2>2. /\ onError.pc = "failed" /\ Done.id = w.id /\ Done.pc = "plan"
    BY <2>1, OutcomesHold DEF At
  <2>3. w.pc \in Holding /\ Obj.live
    BY <2>1 DEF At, Holding, Templates, TemplateInHand, Live, Obj
  <2>4. PICK obj : /\ obj.live /\ ec2' \in {ec2, [ec2 EXCEPT ![w.id] = obj]}
                   /\ w' \in {Done, onError}
    <3> DEFINE removed == Obj.tags \ (w.seen.tags \ w.spec.tags)
               added == w.spec.tags \ w.seen.tags
               less == [Obj EXCEPT !.tags = removed]
               more == [Obj EXCEPT !.tags = removed \cup added]
    <3>1. less.live /\ more.live
      BY <2>3
    <3>2. \/ Call(more, Done, onError)
          \/ w' = onError /\ ec2' = [ec2 EXCEPT ![w.id].tags = removed]
      BY <1>1, <2>3 DEF syncTags
    <3>3. CASE Call(more, Done, onError)
      <4>1. ec2' \in {ec2, [ec2 EXCEPT ![w.id] = more]} /\ w' \in {Done, onError}
        BY <3>3 DEF Call
      <4> HIDE DEF more
      <4> QED BY <3>1, <4>1
    <3>4. CASE w' = onError /\ ec2' = [ec2 EXCEPT ![w.id].tags = removed]
      <4>1. ec2' = [ec2 EXCEPT ![w.id] = less]
        BY <3>4 DEF Obj
      <4> HIDE DEF less
      <4> QED BY <3>1, <3>4, <4>1
    <3> QED BY <3>2, <3>3, <3>4
  <2> QED BY <2>2, <2>3, <2>4, StaysInHand DEF Holding
<1>2. CASE returnDesired
  <2> DEFINE d == Done
  <2>1. At("plan") /\ Go([d EXCEPT !.version = cr.version])
    BY <1>2 DEF returnDesired, Doing
  <2>2. ~At("idle") /\ w.pc \in Holding /\ Obj.live
    BY <2>1 DEF At, Holding, Templates, TemplateInHand, Live, Obj
  <2>3. d.id = w.id /\ d.pc = "plan" /\ DOMAIN d = WorkerFields
    BY <2>1, <2>2, OutcomesHold DEF At
  <2> HIDE DEF d
  <2>4. w'.id = w.id /\ w'.pc = "plan" /\ ec2' = ec2
    BY <2>1, <2>3 DEF Go, WorkerFields
  <2> QED BY <2>2, <2>4, StaysInHand
<1>3. CASE Begin \/ setResourceManaged \/ finish \/ setResourceUnmanaged \/ PatchStatus
  <2>1. DOMAIN w = WorkerFields /\ w.end \in Ends
    BY DEF Templates, Frame, WellFormedAll, WorkerWellFormed
  <2>2. w'.pc \in {"idle", "describe", "create"} \cup Ends
    BY <1>3, <2>1, IdleIs
       DEF Begin, setResourceManaged, finish, setResourceUnmanaged, PatchStatus, Go, Over,
           WorkerFields
  <2> QED BY <2>2 DEF TemplateInHand, Holding, Ends
<1> QED BY <1>1, <1>2, <1>3 DEF RuntimeStep

LEMMA TemplateStepInHand ==
  ASSUME Templates, TemplateInHand, ObjectsAre, LaunchTemplateStep
  PROVE  TemplateInHand'
<1>1. DOMAIN w = WorkerFields /\ DOMAIN ec2 = Ids /\ w.id \in Ids \cup {0}
  BY DEF Templates, Frame, WellFormedAll, WorkerWellFormed, EC2WellFormed
<1>2. ASSUME w'.pc \notin Holding PROVE TemplateInHand'
  BY <1>2 DEF TemplateInHand
<1>3. CASE sdkFindLaunchTemplate
  <2> DEFINE f == Found
             read == [f EXCEPT !.pc = "version"]
  <2>1. DOMAIN f = WorkerFields /\ f.id = w.id /\ f.seen = Obj
    BY <1>1 DEF Found, WorkerFields
  <2>2. ~At("idle") /\ Describe(read, onError)
    BY <1>3 DEF sdkFindLaunchTemplate, Describe, At
  <2> HIDE DEF f
  <2>3. read.pc = "version" /\ read.id = w.id /\ read.seen = Obj
    BY <2>1 DEF WorkerFields
  <2> HIDE DEF read
  <2>4. CASE w' = read /\ w.id # 0 /\ Obj # Gone /\ UNCHANGED <<cr, ec2>>
    <3>1. w.id \in Ids /\ Obj = ec2[w.id]
      BY <1>1, <2>4 DEF Obj
    <3>2. ObjectIs(Obj, "launch_template")
      BY <2>4, <3>1 DEF ObjectsAre, Templates
    <3>3. w.id \in Live
      BY <3>1, <3>2 DEF ObjectIs, Live
    <3>4. IsSequence(Obj.data)
      BY <3>1, <3>3 DEF Templates, TemplateInv, TemplatesOK
    <3>5. w.id \in Live' /\ w'.id = w.id /\ w'.seen = Obj
      BY <2>3, <2>4, <3>3 DEF Live
    <3> QED BY <3>4, <3>5 DEF TemplateInHand
  <2>5. CASE w' = onError
    BY <1>2, <2>2, <2>5, OutcomesHold DEF Holding
  <2>6. CASE w' = NotFound
    BY <1>1, <1>2, <2>6 DEF NotFound, WorkerFields, Holding
  <2> QED BY <2>2, <2>4, <2>5, <2>6 DEF Describe, Go, Unread
<1>4. CASE setLatestLaunchTemplateAttributes
  <2>1. At("version") /\ w.pc \in Holding /\ Obj.live
    BY <1>4 DEF setLatestLaunchTemplateAttributes, At, Holding, Templates, TemplateInHand, Live, Obj
  <2> DEFINE n == Len(w.seen.data)
             r(data) == [w EXCEPT !.pc = "found", !.version = n, !.seen.data = data]
             s(data, blind) == [r(data) EXCEPT !.blind = blind]
  <2>2. \/ Go(s(Obj.data[w.version], w.version # n)) \/ Unread(s(w.spec.data, TRUE))
    BY <1>4, Zenon DEF setLatestLaunchTemplateAttributes
  <2>3. ASSUME NEW data, NEW blind
        PROVE  s(data, blind).id = w.id /\ s(data, blind).pc = "found"
    <3>1. r(data).id = w.id /\ r(data).pc = "found" /\ DOMAIN r(data) = WorkerFields
      BY <1>1 DEF WorkerFields
    <3> HIDE DEF r
    <3> QED BY <3>1 DEF WorkerFields
  <2> HIDE DEF s, n
  <2>4. w'.id = w.id /\ w'.pc = "found" /\ ec2' = ec2
    BY <2>2, <2>3 DEF Go, Unread
  <2> QED BY <2>1, <2>4, StaysInHand
<1>5. CASE sdkCreateLaunchTemplate
  <2> DEFINE next == [w EXCEPT !.pc = "patchSpec", !.version = 1]
  <2>1. DOMAIN next = WorkerFields /\ next.pc = "patchSpec"
    BY <1>1 DEF WorkerFields
  <2>2. CreateFailed.pc = "failed"
    <3> DEFINE o == Over("failed")
    <3>1. DOMAIN o = WorkerFields /\ o.pc = "failed"
      BY <1>1 DEF Over, WorkerFields
    <3> HIDE DEF o
    <3>2. [o EXCEPT !.id = cr.id, !.version = cr.version].pc = "failed"
      BY <3>1 DEF WorkerFields
    <3> QED BY <3>2 DEF CreateFailed, o
  <2>3. w' \in {[next EXCEPT !.id = nextId], CreateFailed}
    BY <1>5 DEF sdkCreateLaunchTemplate, CreateObject, Go
  <2> HIDE DEF next
  <2>4. w'.pc \in {"patchSpec", "failed"}
    BY <2>1, <2>2, <2>3 DEF WorkerFields
  <2> QED BY <1>2, <2>4 DEF Holding
<1>6. CASE patchSpec
  <2>1. w'.pc = "synced"
    BY <1>1, <1>6 DEF patchSpec, WorkerFields
  <2> QED BY <1>2, <2>1 DEF Holding
<1>7. CASE sdkUpdateLaunchTemplate
  <2>1. At("found") /\ w.pc \in Holding /\ Obj.live
    BY <1>7 DEF sdkUpdateLaunchTemplate, Updating, At, Holding, Templates, TemplateInHand, Live, Obj
  <2>2. PICK calls : Go(Plan(calls))
    BY <1>7 DEF sdkUpdateLaunchTemplate
  <2>3. w'.id = w.id /\ w'.pc = "plan" /\ ec2' = ec2
    BY <1>1, <2>2 DEF Go, Plan, WorkerFields
  <2> QED BY <2>1, <2>3, StaysInHand
<1>8. CASE CreateLaunchTemplateVersion \/ updateDefaultVersion
  <2>1. At("plan") /\ ~At("idle")
    BY <1>8 DEF CreateLaunchTemplateVersion, updateDefaultVersion, Doing, At
  <2> DEFINE d == Done
  <2>2. d.id = w.id /\ d.pc = "plan" /\ DOMAIN d = WorkerFields /\ onError.pc = "failed"
    BY <2>1, OutcomesHold DEF At
  <2>3. CASE CreateLaunchTemplateVersion
    <3> DEFINE obj == [Obj EXCEPT !.data = newLaunchTemplateVersion(Arg)]
               next == [d EXCEPT !.version = Len(Obj.data) + 1]
    <3>1. Call(obj, next, orDeferred)
      BY <2>3 DEF CreateLaunchTemplateVersion
    <3>2. Obj.live => obj.live
      OBVIOUS
    <3>3. orDeferred.pc = "failed" \/ (orDeferred.pc = "plan" /\ orDeferred.id = w.id)
      BY <1>1, <2>1, <2>2 DEF orDeferred, WorkerFields, At
    <3> HIDE DEF d, obj
    <3>4. next.pc = "plan" /\ next.id = w.id
      BY <2>2 DEF WorkerFields
    <3> HIDE DEF next
    <3> QED BY <2>1, <3>1, <3>2, <3>3, <3>4, CallInHand
  <2>4. CASE updateDefaultVersion
    <3> DEFINE obj == [Obj EXCEPT !.default = Arg]
    <3>1. Call(obj, d, onError) \/ Go(onError)
      BY <2>4 DEF updateDefaultVersion
    <3>2. Obj.live => obj.live
      OBVIOUS
    <3> HIDE DEF d, obj
    <3> QED BY <2>1, <2>2, <3>1, <3>2, CallInHand
  <2> QED BY <1>8, <2>3, <2>4
<1>9. CASE returnNothing
  BY <1>2, <1>9, IdleIs DEF returnNothing, Go, Holding
<1>10. CASE sdkDeleteLaunchTemplate
  <2>1. w' \in {[w EXCEPT !.pc = "release"], onError} /\ ~At("idle")
    BY <1>10 DEF sdkDeleteLaunchTemplate, Deleting, Delete, Call, Go, At
  <2>2. w'.pc \in {"release", "failed"}
    BY <1>1, <2>1, OutcomesHold DEF WorkerFields
  <2> QED BY <1>2, <2>2 DEF Holding
<1> QED BY <1>3, <1>4, <1>5, <1>6, <1>7, <1>8, <1>9, <1>10 DEF LaunchTemplateStep

LEMMA InHandStep ==
  ASSUME Counted, Tracked, TemplateInHand, [Next]_vars
  PROVE  TemplateInHand'
<1> SUFFICES ASSUME cr.spec.kind = "launch_template"
             PROVE  TemplateInHand'
  <2>1. cr'.spec.kind = cr.spec.kind
    BY TrackedIs, KindStays
  <2> QED BY <2>1 DEF TemplateInHand
<1>1. Templates /\ ObjectsAre /\ DOMAIN ec2 = Ids
  BY TrackedIs DEF Templates, Following
<1>2. CASE UNCHANGED vars
  BY <1>2 DEF vars, env, TemplateInHand, Live, At
<1>3. CASE Reconcile
  BY <1>1, <1>3, TemplateStepsAre, RuntimeInHand, TemplateStepInHand
<1>4. CASE WorldStep
  <2>1. CASE Crash
    BY <2>1, IdleIs DEF Crash, Unread, TemplateInHand, Holding
  <2>2. CASE EditSpec \/ DeleteCR \/ RecreateCR
    <3>1. UNCHANGED <<w, ec2>>
      BY <2>2 DEF EditSpec, DeleteCR, RecreateCR
    <3> QED BY <3>1 DEF TemplateInHand, Live, At
  <2> QED BY <1>4, <2>1, <2>2 DEF WorldStep
<1>5. CASE Drift
  <2>1. PICK i \in Live : LaunchTemplateDrift(i)
    BY <1>5 DEF Drift
  <2>2. PICK obj : OtherClient(i, obj) /\ obj.live
    <3>1. ec2[i].live
      BY DEF Live
    <3>2. [ec2[i] EXCEPT !.data = Append(@, "foreign")].live /\ [ec2[i] EXCEPT !.default = 1].live
      BY <3>1
    <3> QED BY <2>1, <3>2 DEF LaunchTemplateDrift
  <2>3. Live \subseteq Live'
    BY <1>1, <2>2 DEF OtherClient, Live
  <2>4. w'.pc = w.pc /\ w'.id = w.id /\ w'.seen = w.seen
    <3>1. DOMAIN w = WorkerFields
      BY TrackedIs
    <3> QED BY <2>2, <3>1 DEF OtherClient, WorkerFields
  <2> QED BY <2>3, <2>4 DEF TemplateInHand, At
<1>6. ~(\E i \in Ids : Settle(i)) /\ ~Fails
  BY DEF Settle, Fails
<1> QED BY <1>2, <1>3, <1>4, <1>5, <1>6 DEF Next

LEMMA LaunchTemplateTyped ==
  ASSUME WellTyped, PatchedAreSpecs, LengthsAre, LaunchTemplateStep
  PROVE  Types'
<1>1. Typed(w) /\ DOMAIN w = WorkerFields /\ cr.version \in Nat /\ cr.spec \in Specs
  BY TypedIs
<1>2. CASE sdkFindLaunchTemplate
  <2>1. Typed([Found EXCEPT !.pc = "version"]) /\ Typed(onError)
    BY OutcomesTyped, AmendedTyped
  <2> QED BY <1>2, <2>1, DescribeTyped DEF sdkFindLaunchTemplate
<1>3. CASE setLatestLaunchTemplateAttributes
  <2> DEFINE n == Len(w.seen.data)
             r(data) == [w EXCEPT !.pc = "found", !.version = n, !.seen.data = data]
  <2>1. n \in Nat
    BY <1>3 DEF LengthsAre, setLatestLaunchTemplateAttributes
  <2> HIDE DEF n
  <2>2. ASSUME NEW data, NEW blind \in BOOLEAN
        PROVE  Typed([r(data) EXCEPT !.blind = blind])
    <3>1. Typed(r(data)) /\ DOMAIN r(data) = WorkerFields
      BY <1>1, <2>1 DEF Typed, WorkerFields
    <3> HIDE DEF r
    <3> QED BY <2>2, <3>1 DEF Typed, WorkerFields
  <2> DEFINE differs == w.version # n
  <2>3. differs \in BOOLEAN
    BY SMT
  <2>4. \/ Go([r(Obj.data[w.version]) EXCEPT !.blind = differs])
        \/ Unread([r(w.spec.data) EXCEPT !.blind = TRUE])
    BY <1>3, Zenon DEF setLatestLaunchTemplateAttributes, n
  <2> HIDE DEF differs, r
  <2>5. Typed([r(Obj.data[w.version]) EXCEPT !.blind = differs])
        /\ Typed([r(w.spec.data) EXCEPT !.blind = TRUE])
    BY <2>2, <2>3
  <2> QED BY <2>4, <2>5, GoTyped, UnreadTyped
<1>4. CASE sdkCreateLaunchTemplate
  BY <1>4, AtTyped, OutcomesTyped, CreateTyped, GoTyped DEF sdkCreateLaunchTemplate
<1>5. CASE patchSpec
  <2>1. Typed(w')
    BY <1>5, AtTyped DEF patchSpec
  <2>2. cr.spec.kind = "launch_template"
    BY <1>5 DEF patchSpec, Kind, At, WellTyped, Frame, WellFormedAll, WorkerWellFormed
  <2>3. cr \in CRs /\ UNCHANGED <<faults, edits, drifts>>
        /\ faults \in 0 .. MaxFaults /\ edits \in 0 .. MaxEdits /\ drifts \in 0 .. MaxDrifts
    BY <1>5, TypesAre DEF Types, patchSpec, env
  <2>4. [cr EXCEPT !.spec.default = 1] \in CRs
    <3> DEFINE spec == [cr.spec EXCEPT !.default = 1]
    <3>1. spec \in Specs
      BY <1>1, <2>2 DEF PatchedAreSpecs
    <3>2. [cr EXCEPT !.spec.default = 1] = [cr EXCEPT !.spec = spec]
      BY <2>3 DEF CRs
    <3> HIDE DEF spec
    <3>3. [cr EXCEPT !.spec = spec] \in CRs
      BY <2>3, <3>1 DEF CRs
    <3> QED BY <3>2, <3>3
  <2>5. cr' \in CRs
    BY <1>5, <2>3, <2>4 DEF patchSpec
  <2> QED BY <2>1, <2>3, <2>5 DEF Types, CRs, Ids
<1>6. CASE sdkUpdateLaunchTemplate
  BY <1>6, NewPlanTyped DEF sdkUpdateLaunchTemplate
<1>7. CASE CreateLaunchTemplateVersion
  <2>1. Len(Obj.data) + 1 \in Nat
    BY <1>7 DEF LengthsAre, CreateLaunchTemplateVersion
  <2>2. Typed([Done EXCEPT !.version = Len(Obj.data) + 1])
    BY <2>1, OutcomesTyped, AmendedTyped
  <2>3. Typed(orDeferred)
    <3>1. \A calls : Typed([w EXCEPT !.plan = calls, !.blind = TRUE])
      BY <1>1 DEF Typed, WorkerFields
    <3> QED BY <3>1, OutcomesTyped DEF orDeferred
  <2> QED BY <1>7, <2>2, <2>3, CallTyped DEF CreateLaunchTemplateVersion
<1>8. CASE updateDefaultVersion
  <2>1. \E obj : Call(obj, Done, onError) \/ Go(onError)
    BY <1>8 DEF updateDefaultVersion
  <2> QED BY <2>1, PlanCallTyped
<1>9. CASE returnNothing
  BY <1>9, IdleTyped, GoTyped DEF returnNothing
<1>10. CASE sdkDeleteLaunchTemplate
  BY <1>10, DeleteTyped DEF sdkDeleteLaunchTemplate
<1> QED BY <1>2, <1>3, <1>4, <1>5, <1>6, <1>7, <1>8, <1>9, <1>10 DEF LaunchTemplateStep

\* What EC2 and other clients do.
LEMMA WorldOfTyped ==
  ASSUME WellTyped, Drift \/ (\E i \in Ids : Settle(i)) \/ Fails
  PROVE  Types'
<1>1. CASE \E i, obj : OtherClient(i, obj) \/ Background(i, obj)
  BY <1>1, ElsewhereTyped
<1>2. CASE Fails
  <2>1. /\ faults < MaxFaults /\ faults' = faults + 1 /\ Typed(w')
        /\ UNCHANGED <<cr, edits, drifts>>
    BY <1>2, TypesAre DEF Fails, ManagedPrefixListFails, Types, env, Typed
  <2> QED BY <2>1, PassTyped
<1>3. CASE Drift
  BY <1>1, <1>3
     DEF Drift, SubnetDrift, DisassociatedByOthers, InternetGatewayDrift, DHCPOptionsDrift,
         NetworkACLDrift, InstanceDrift, LaunchTemplateDrift, ManagedPrefixListDrift,
         CapacityReservationDrift
<1>4. CASE \E i \in Ids : Settle(i)
  BY <1>1, <1>4 DEF Settle, InstanceSettles, ManagedPrefixListSettles
<1> QED BY <1>2, <1>3, <1>4

\* Every variable keeps its type, for every set of specs of these kinds that has the
\* spec that patchSpec makes of one of a launch template (sdkCreate of launch_template
\* copies the default version that CreateLaunchTemplate answers): the versions that
\* sdkFind and CreateLaunchTemplateVersion put into the status are numbers, since
\* the template that is read or changed is there.
THEOREM TypeCorrect == PatchedAreSpecs /\ Spec => []TypeOK
<1> SUFFICES ASSUME PatchedAreSpecs PROVE Spec => []TypeOK
  OBVIOUS
<1> DEFINE Inv == Counted /\ Tracked /\ TemplateInHand /\ Types
<1>1. Init => Inv
  <2> SUFFICES ASSUME Init PROVE TemplateInHand
    BY TrackedInit, InitTyped, TypesAre
  <2> QED BY IdleIs DEF Init, TemplateInHand, Holding
<1>2. Inv /\ [Next]_vars => Inv'
  <2> SUFFICES ASSUME Counted, Tracked, TemplateInHand, Types, [Next]_vars
               PROVE  Types'
    BY TrackedStep, InHandStep
  <2>1. WellTyped
    BY TrackedIs, TypesAre
  <2>2. CASE Reconcile
    BY <2>1, <2>2, LengthsFollow, RuntimeTyped, AssociationTyped, SubnetTyped,
       InternetGatewayTyped, DHCPOptionsTyped, NetworkACLTyped, InstanceTyped,
       LaunchTemplateTyped, ManagedPrefixListTyped, CapacityReservationTyped DEF Reconcile
  <2>3. CASE WorldStep
    BY <2>1, <2>3, WorldTyped
  <2>4. CASE Drift \/ (\E i \in Ids : Settle(i)) \/ Fails
    BY <2>1, <2>4, WorldOfTyped
  <2>5. CASE UNCHANGED vars
    BY <2>5 DEF vars, env, Types, Typed, CRs, Ids
  <2> QED BY <2>2, <2>3, <2>4, <2>5 DEF Next
<1>3. Inv => TypeOK
  <2> SUFFICES ASSUME Tracked, Types PROVE TypeOK
    OBVIOUS
  <2>1. Frame
    BY TrackedIs
  <2> QED BY <2>1, TypesAre DEF WellTyped
<1> QED BY <1>1, <1>2, <1>3, PTL DEF Spec

=============================================================================
