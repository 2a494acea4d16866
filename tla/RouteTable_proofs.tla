-------------------------- MODULE RouteTable_proofs -------------------------
(***************************************************************************)
(* Theorems about RouteTable, for every set of destinations, targets, tags *)
(* and route lists, and any number of tables, faults, edits and drifts.    *)
(***************************************************************************)
EXTENDS RouteTable, TLAPS

----------------------------------------------------------------------------
(* Types.                                                                  *)

CR ==
  [phase: {"live", "deleting", "gone"}, managed: BOOLEAN, id: Ids \cup {0},
   routes: SpecRoutes, tags: SpecTags, synced: BOOLEAN]

Table == [live: BOOLEAN, routes: SUBSET Route, tags: SUBSET Tags]

Worker ==
  [pc: Labels, mode: {"update", "create", "delete"}, id: Ids \cup {0},
   routes: SUBSET Route, tags: SUBSET Tags, seenTags: SUBSET Tags,
   want: SUBSET Route, have: SUBSET Route, toDelete: SUBSET Route,
   toAdd: SUBSET Route, plFailed: BOOLEAN, interfered: BOOLEAN]

Counters == faults \in Nat /\ edits \in Nat /\ drifts \in Nat

LEMMA TypeOKIs ==
  TypeOK <=> /\ cr \in CR /\ tables \in [Ids -> Table]
             /\ nextId \in 1 .. MaxTables + 1 /\ recorded \subseteq Ids
             /\ w \in Worker /\ Counters
BY DEF TypeOK, CR, Table, Worker, Counters

LEMMA TypeOKWillBe ==
  TypeOK' <=> /\ cr' \in CR /\ tables' \in [Ids -> Table]
              /\ nextId' \in 1 .. MaxTables + 1 /\ recorded' \subseteq Ids
              /\ w' \in Worker /\ Counters'
BY DEF TypeOK, CR, Table, Worker, Counters

LEMMA SpecsType == SpecRoutes \subseteq SUBSET Route /\ SpecTags \subseteq SUBSET Tags
BY RouteTableAssumption

LEMMA LocalRouteType == LocalRoute \in Route
BY RouteTableAssumption DEF Route

LEMMA NoTableType == NoTable \in Table
BY DEF NoTable, Table

LEMMA IdleType == IdleWorker \in Worker
BY DEF IdleWorker, Worker, Labels

LEMMA ErrorType ==
  ASSUME TypeOK
  PROVE  onError \in Worker
<1>1. w \in Worker /\ cr.id \in Ids \cup {0}
  BY TypeOKIs DEF CR
<1> QED BY <1>1 DEF onError, Worker, Labels

\* A step of the worker that changes at most the table in hand.
LEMMA StepType ==
  ASSUME TypeOK, w' \in Worker, tables' \in [Ids -> Table],
         UNCHANGED <<cr, nextId, recorded, edits, drifts>>,
         faults' = faults \/ faults' = faults + 1
  PROVE  TypeOK'
<1>1. Counters'
  BY TypeOKIs DEF Counters
<1> QED BY <1>1, TypeOKIs, TypeOKWillBe

\* What every Call does.
LEMMA CallType ==
  ASSUME TypeOK, NEW new \in [Ids -> Table], NEW next \in Worker, Call(new, next)
  PROVE  w' \in Worker /\ tables' \in [Ids -> Table] /\ (faults' = faults \/ faults' = faults + 1)
<1>1. onError \in Worker /\ tables \in [Ids -> Table]
  BY ErrorType, TypeOKIs
<1> QED BY <1>1 DEF Call

LEMMA RefusedType ==
  ASSUME TypeOK, Refused
  PROVE  w' \in Worker /\ tables' \in [Ids -> Table] /\ faults' = faults
BY ErrorType, TypeOKIs DEF Refused

LEMMA GoType ==
  ASSUME TypeOK, NEW next \in Worker, Go(next)
  PROVE  w' \in Worker /\ tables' \in [Ids -> Table] /\ faults' = faults
BY TypeOKIs DEF Go

LEMMA ReadType ==
  ASSUME TypeOK, Begin \/ sdkFind \/ ReadFails
  PROVE  TypeOK'
<1>1. w \in Worker /\ cr \in CR /\ tables \in [Ids -> Table]
  BY TypeOKIs
<1>2. CASE Begin
  <2> DEFINE mode == IF cr.phase = "deleting" THEN "delete" ELSE "update"
             next == [IdleWorker EXCEPT
                        !.pc = "describe", !.mode = mode,
                        !.id = cr.id, !.routes = cr.routes, !.tags = cr.tags]
  <2>1. next \in Worker
    <3>1. mode \in {"update", "create", "delete"}
      OBVIOUS
    <3>2. cr.id \in Ids \cup {0} /\ cr.routes \in SUBSET Route /\ cr.tags \in SUBSET Tags
      BY <1>1, SpecsType DEF CR
    <3> HIDE DEF mode
    <3> QED BY <3>1, <3>2, IdleType DEF Worker, Labels
  <2> HIDE DEF next
  <2>2. Go(next)
    BY <1>2 DEF Begin, next
  <2> QED BY <1>2, <2>1, <2>2, GoType, StepType DEF Begin
<1>3. CASE sdkFind
  <2> DEFINE found == [w EXCEPT !.pc = "found", !.have = tables[w.id].routes,
                                !.seenTags = tables[w.id].tags]
  <2>1. NotFound \in Worker
    BY <1>1 DEF NotFound, Worker, Labels
  <2>2. w.id # 0 => found \in Worker
    <3> SUFFICES ASSUME w.id # 0 PROVE found \in Worker
      OBVIOUS
    <3>1. w.id \in Ids
      BY <1>1 DEF Worker
    <3>2. tables[w.id] \in Table
      BY <1>1, <3>1
    <3> QED BY <1>1, <3>2 DEF Worker, Table, Labels
  <2> HIDE DEF found
  <2>3. Go(NotFound) \/ (w.id # 0 /\ Go(found)) \/ Refused
    BY <1>3 DEF sdkFind, found
  <2> QED BY <1>3, <2>1, <2>2, <2>3, GoType, RefusedType, StepType DEF sdkFind
<1>4. CASE ReadFails
  BY <1>1, <1>4, ErrorType, StepType DEF ReadFails
<1> QED BY <1>2, <1>3, <1>4

LEMMA CreateType ==
  ASSUME TypeOK, sdkCreate
  PROVE  TypeOK'
<1> DEFINE new  == [live |-> TRUE, routes |-> {LocalRoute}, tags |-> w.tags]
           next == [w EXCEPT !.id = nextId, !.have = {},
                      !.want = w.routes \cup {LocalRoute},
                      !.pc = IF w.routes = {} THEN "synced" ELSE "excludeDesired"]
<1>1. w \in Worker /\ tables \in [Ids -> Table] /\ nextId \in 1 .. MaxTables + 1
  BY TypeOKIs
<1>2. new \in Table
  BY <1>1, LocalRouteType DEF Table, Worker
<1>3. nextId \in Ids => next \in Worker
  BY <1>1, LocalRouteType DEF Worker, Labels
<1> HIDE DEF new, next
<1>4. /\ \/ nextId \in Ids /\ Call([tables EXCEPT ![nextId] = new], next)
         \/ Refused
      /\ nextId' = nextId \/ (nextId \in Ids /\ nextId' = nextId + 1)
  BY DEF sdkCreate, new, next
<1>5. w' \in Worker /\ tables' \in [Ids -> Table] /\ (faults' = faults \/ faults' = faults + 1)
  BY <1>1, <1>2, <1>3, <1>4, CallType, RefusedType
<1>6. nextId' \in 1 .. MaxTables + 1
  BY <1>1, <1>4, RouteTableAssumption DEF Ids
<1>7. Counters' /\ cr' \in CR /\ recorded' \subseteq Ids
  BY <1>5, TypeOKIs DEF sdkCreate, Counters
<1> QED BY <1>5, <1>6, <1>7, TypeOKWillBe

LEMMA UpdateType ==
  ASSUME TypeOK,
         \/ customUpdateRouteTable \/ syncTags \/ excludeFromLatest \/ excludeFromDesired
         \/ deleteRoute \/ createRoute \/ syncRoutes \/ refreshStatus \/ sdkDelete
  PROVE  TypeOK'
<1>1. w \in Worker /\ tables \in [Ids -> Table]
  BY TypeOKIs
<1>2. \A rs \in SUBSET Route : \A ts \in SUBSET Tags :
        /\ [tables EXCEPT ![w.id].tags = ts] \in [Ids -> Table]
        /\ [tables EXCEPT ![w.id].routes = rs] \in [Ids -> Table]
  BY <1>1 DEF Table
<1>3. CASE customUpdateRouteTable
  <2> DEFINE label == IF w.tags # w.seenTags THEN "tags"
                      ELSE IF RoutesDiffer(w.routes, w.have) THEN "excludeLatest"
                      ELSE "synced"
  <2>1. label \in Labels
    BY DEF Labels
  <2> HIDE DEF label
  <2>2. [w EXCEPT !.want = w.routes, !.pc = label] \in Worker
    BY <1>1, <2>1 DEF Worker
  <2>3. Go([w EXCEPT !.want = w.routes, !.pc = label])
    BY <1>3 DEF customUpdateRouteTable, label
  <2> QED BY <1>3, <2>2, <2>3, GoType, StepType DEF customUpdateRouteTable
<1>4. CASE syncTags
  <2> DEFINE label   == IF RoutesDiffer(w.routes, w.have) THEN "excludeLatest" ELSE "synced"
             next    == [w EXCEPT !.pc = label]
             removed == tables[w.id].tags \ (w.seenTags \ w.tags)
             synced  == removed \cup (w.tags \ w.seenTags)
  <2>1. next \in Worker
    <3>1. label \in Labels
      BY DEF Labels
    <3> HIDE DEF label
    <3> QED BY <1>1, <3>1 DEF Worker
  <2>2. [tables EXCEPT ![w.id].tags = synced] \in [Ids -> Table]
        /\ [tables EXCEPT ![w.id].tags = removed] \in [Ids -> Table]
    <3>1. CASE w.id \in Ids
      <4>1. tables[w.id] \in Table
        BY <1>1, <3>1
      <4>2. removed \in SUBSET Tags /\ synced \in SUBSET Tags
        BY <1>1, <4>1 DEF Table, Worker
      <4> QED BY <1>2, <4>2
    <3>2. CASE w.id \notin Ids
      BY <1>1, <3>2
    <3> QED BY <3>1, <3>2
  <2> HIDE DEF next, removed, synced
  <2>3. \/ Call([tables EXCEPT ![w.id].tags = synced], next)
        \/ /\ faults' = faults + 1 /\ w' = onError
           /\ tables' = [tables EXCEPT ![w.id].tags = removed]
        \/ Refused
    BY <1>4 DEF syncTags, next, removed, synced
  <2>4. w' \in Worker /\ tables' \in [Ids -> Table] /\ (faults' = faults \/ faults' = faults + 1)
    BY <2>1, <2>2, <2>3, CallType, RefusedType, ErrorType
  <2> QED BY <1>4, <2>4, StepType DEF syncTags
<1>5. CASE excludeFromLatest \/ excludeFromDesired
  <2>1. \A rs \in SUBSET Route, answered \in BOOLEAN :
          excludeAWSRoute(removeLocalRoute(rs), answered) \in SUBSET Route
    BY DEF excludeAWSRoute, removeLocalRoute
  <2>2. w.want \in SUBSET Route /\ w.have \in SUBSET Route /\ w.plFailed \in BOOLEAN
    BY <1>1 DEF Worker
  <2>3. CASE excludeFromLatest
    <3>1. PICK answered \in BOOLEAN :
            /\ DescribeManagedPrefixLists(answered)
            /\ w' = [w EXCEPT !.pc = "excludeDesired",
                       !.have = excludeAWSRoute(removeLocalRoute(w.have), answered),
                       !.plFailed = ~answered]
      BY <2>3 DEF excludeFromLatest
    <3> DEFINE have == excludeAWSRoute(removeLocalRoute(w.have), answered)
    <3>2. have \in SUBSET Route
      BY <2>1, <2>2
    <3> HIDE DEF have
    <3>3. w' = [w EXCEPT !.pc = "excludeDesired", !.have = have, !.plFailed = ~answered]
      BY <3>1 DEF have
    <3>4. w' \in Worker
      BY <1>1, <3>2, <3>3 DEF Worker, Labels
    <3> QED BY <1>1, <2>3, <3>1, <3>4, StepType DEF excludeFromLatest, DescribeManagedPrefixLists
  <2>4. CASE excludeFromDesired
    <3>1. PICK answered \in BOOLEAN :
            LET want == excludeAWSRoute(removeLocalRoute(w.want), answered)
            IN  /\ DescribeManagedPrefixLists(answered)
                /\ w' = [w EXCEPT !.pc = "routes", !.want = want,
                           !.toDelete = toDeleteOf(want, w.have),
                           !.toAdd = toAddOf(want, w.have),
                           !.plFailed = @ \/ ~answered]
      BY <2>4 DEF excludeFromDesired
    <3> DEFINE want == excludeAWSRoute(removeLocalRoute(w.want), answered)
    <3>2. want \in SUBSET Route
      BY <2>1, <2>2
    <3> HIDE DEF want
    <3>3. toDeleteOf(want, w.have) \in SUBSET Route /\ toAddOf(want, w.have) \in SUBSET Route
      BY <2>2, <3>2 DEF toDeleteOf, toAddOf
    <3>4. w' = [w EXCEPT !.pc = "routes", !.want = want,
                  !.toDelete = toDeleteOf(want, w.have), !.toAdd = toAddOf(want, w.have),
                  !.plFailed = w.plFailed \/ ~answered]
      BY <3>1 DEF want
    <3>5. (w.plFailed \/ ~answered) \in BOOLEAN
      BY <2>2
    <3>6. w' \in Worker
      BY <1>1, <3>2, <3>3, <3>4, <3>5 DEF Worker, Labels
    <3> QED BY <1>1, <2>4, <3>1, <3>6, StepType DEF excludeFromDesired, DescribeManagedPrefixLists
  <2> QED BY <1>5, <2>3, <2>4
<1>6. CASE deleteRoute
  <2>1. PICK r \in w.toDelete :
          LET now == tables[w.id].routes
              hit == {q \in now : q[1] = r[1]}
          IN  \/ Call([tables EXCEPT ![w.id].routes = now \ hit], [w EXCEPT !.toDelete = @ \ {r}])
              \/ Refused
    BY <1>6 DEF deleteRoute
  <2> DEFINE now  == tables[w.id].routes
             rest == now \ {q \in now : q[1] = r[1]}
             next == [w EXCEPT !.toDelete = @ \ {r}]
  <2>2. next \in Worker
    BY <1>1 DEF Worker
  <2>3. [tables EXCEPT ![w.id].routes = rest] \in [Ids -> Table]
    <3>1. CASE w.id \in Ids
      <4>1. tables[w.id] \in Table
        BY <1>1, <3>1
      <4>2. rest \in SUBSET Route
        BY <4>1 DEF Table
      <4> QED BY <1>2, <4>2
    <3>2. CASE w.id \notin Ids
      BY <1>1, <3>2
    <3> QED BY <3>1, <3>2
  <2>4. Call([tables EXCEPT ![w.id].routes = rest], next) \/ Refused
    BY <2>1
  <2> HIDE DEF rest, next
  <2>5. w' \in Worker /\ tables' \in [Ids -> Table] /\ (faults' = faults \/ faults' = faults + 1)
    BY <2>2, <2>3, <2>4, CallType, RefusedType
  <2> QED BY <1>6, <2>5, StepType DEF deleteRoute
<1>7. CASE createRoute
  <2>1. PICK r \in w.toAdd :
          \/ Call([tables EXCEPT ![w.id].routes = tables[w.id].routes \cup {r}],
                  [w EXCEPT !.toAdd = @ \ {r}])
          \/ Refused
    BY <1>7 DEF createRoute
  <2> DEFINE more == tables[w.id].routes \cup {r}
             next == [w EXCEPT !.toAdd = @ \ {r}]
  <2>2. next \in Worker /\ r \in Route
    BY <1>1 DEF Worker
  <2>3. [tables EXCEPT ![w.id].routes = more] \in [Ids -> Table]
    <3>1. CASE w.id \in Ids
      <4>1. tables[w.id] \in Table
        BY <1>1, <3>1
      <4>2. more \in SUBSET Route
        BY <2>2, <4>1 DEF Table
      <4> QED BY <1>2, <4>2
    <3>2. CASE w.id \notin Ids
      BY <1>1, <3>2
    <3> QED BY <3>1, <3>2
  <2>4. Call([tables EXCEPT ![w.id].routes = more], next) \/ Refused
    BY <2>1
  <2> HIDE DEF more, next
  <2>5. w' \in Worker /\ tables' \in [Ids -> Table] /\ (faults' = faults \/ faults' = faults + 1)
    BY <2>2, <2>3, <2>4, CallType, RefusedType
  <2> QED BY <1>7, <2>5, StepType DEF createRoute
<1>8. CASE syncRoutes \/ refreshStatus
  <2>1. \A label \in {"synced", "refresh"} : [w EXCEPT !.pc = label] \in Worker
    BY <1>1 DEF Worker, Labels
  <2>2. Refused \/ \E label \in {"synced", "refresh"} : Go([w EXCEPT !.pc = label])
    BY <1>8 DEF syncRoutes, refreshStatus
  <2> QED BY <1>8, <2>1, <2>2, GoType, RefusedType, StepType DEF syncRoutes, refreshStatus
<1>9. CASE sdkDelete
  <2>1. [w EXCEPT !.pc = "release"] \in Worker
    BY <1>1 DEF Worker, Labels
  <2>2. [tables EXCEPT ![w.id] = NoTable] \in [Ids -> Table]
    BY <1>1, NoTableType
  <2>3. Call([tables EXCEPT ![w.id] = NoTable], [w EXCEPT !.pc = "release"]) \/ Refused
    BY <1>9 DEF sdkDelete
  <2> QED BY <1>9, <2>1, <2>2, <2>3, CallType, RefusedType, StepType DEF sdkDelete
<1> QED BY <1>3, <1>4, <1>5, <1>6, <1>7, <1>8, <1>9

LEMMA RuntimeType ==
  ASSUME TypeOK, setResourceManaged \/ setResourceUnmanaged \/ PatchStatus \/ Crash
  PROVE  TypeOK'
<1>1. w \in Worker /\ cr \in CR /\ Counters
  BY TypeOKIs
<1>2. w' \in Worker
  <2>1. [w EXCEPT !.pc = "create", !.mode = "create"] \in Worker
    BY <1>1 DEF Worker, Labels
  <2> QED BY <2>1, IdleType DEF setResourceManaged, setResourceUnmanaged, PatchStatus, Crash
<1>3. cr' \in CR
  BY <1>1 DEF setResourceManaged, setResourceUnmanaged, PatchStatus, Crash, CR, Worker, At
<1>4. recorded' \subseteq Ids
  <2>1. PatchStatus => recorded' \subseteq Ids
    BY <1>3, TypeOKIs DEF PatchStatus, CR
  <2> QED BY <2>1, TypeOKIs DEF setResourceManaged, setResourceUnmanaged, Crash
<1>5. Counters' /\ tables' = tables /\ nextId' = nextId
  BY <1>1 DEF setResourceManaged, setResourceUnmanaged, PatchStatus, Crash, Counters
<1> QED BY <1>2, <1>3, <1>4, <1>5, TypeOKIs, TypeOKWillBe

LEMMA WorldType ==
  ASSUME TypeOK, EditSpec \/ DeleteCR \/ RecreateCR \/ Drift
  PROVE  TypeOK'
<1>1. w \in Worker /\ cr \in CR /\ Counters /\ tables \in [Ids -> Table]
  BY TypeOKIs
<1>2. cr' \in CR
  <2>1. CASE EditSpec
    BY <1>1, <2>1 DEF EditSpec, CR
  <2>2. CASE DeleteCR
    BY <1>1, <2>2 DEF DeleteCR, CR
  <2>3. CASE RecreateCR
    BY <2>3 DEF RecreateCR, NewCR, CR
  <2> QED BY <1>1, <2>1, <2>2, <2>3 DEF Drift
<1>3. w' \in Worker
  <2>1. [w EXCEPT !.interfered = TRUE] \in Worker
    BY <1>1 DEF Worker
  <2> QED BY <1>1, <2>1 DEF EditSpec, DeleteCR, RecreateCR, Drift
<1>4. tables' \in [Ids -> Table]
  <2>1. ASSUME NEW i \in Live, NEW rs \in SUBSET Route
        PROVE  [tables EXCEPT ![i].routes = rs] \in [Ids -> Table]
    BY <1>1 DEF Table
  <2>2. CASE Drift
    <3>1. PICK i \in Live :
            \/ \E r \in Route : tables' = [tables EXCEPT ![i].routes = @ \cup {r}]
            \/ \E r \in tables[i].routes : tables' = [tables EXCEPT ![i].routes = @ \ {r}]
            \/ tables' = [tables EXCEPT ![i] = NoTable]
      BY <2>2 DEF Drift
    <3>2. i \in Ids /\ tables[i].routes \in SUBSET Route
      BY <1>1 DEF Live, Table
    <3>3. ASSUME NEW r \in Route
          PROVE  /\ [tables EXCEPT ![i].routes = @ \cup {r}]
                      = [tables EXCEPT ![i].routes = tables[i].routes \cup {r}]
                 /\ tables[i].routes \cup {r} \in SUBSET Route
                 /\ [tables EXCEPT ![i].routes = @ \ {r}]
                      = [tables EXCEPT ![i].routes = tables[i].routes \ {r}]
                 /\ tables[i].routes \ {r} \in SUBSET Route
      BY <1>1, <3>2
    <3> QED BY <1>1, <2>1, <3>1, <3>2, <3>3, NoTableType
  <2> QED BY <1>1, <2>2 DEF EditSpec, DeleteCR, RecreateCR
<1>5. Counters' /\ nextId' = nextId /\ recorded' = recorded
  <2>1. /\ faults' = faults
        /\ edits' = edits \/ edits' = edits + 1
        /\ drifts' = drifts \/ drifts' = drifts + 1
    BY DEF EditSpec, DeleteCR, RecreateCR, Drift
  <2>2. Counters'
    BY <1>1, <2>1 DEF Counters
  <2>3. nextId' = nextId /\ recorded' = recorded
    BY DEF EditSpec, DeleteCR, RecreateCR, Drift
  <2> QED BY <2>2, <2>3
<1> QED BY <1>2, <1>3, <1>4, <1>5, TypeOKIs, TypeOKWillBe

LEMMA NextType == TypeOK /\ [Next]_vars => TypeOK'
<1> SUFFICES ASSUME TypeOK, [Next]_vars PROVE TypeOK'
  OBVIOUS
<1>1. CASE UNCHANGED vars
  BY <1>1, TypeOKIs, TypeOKWillBe DEF vars, Counters
<1> QED BY <1>1, ReadType, CreateType, UpdateType, RuntimeType, WorldType DEF Next, Reconcile

LEMMA InitType == Init => TypeOK
<1> SUFFICES ASSUME Init PROVE TypeOK
  OBVIOUS
<1>1. cr \in CR
  BY DEF Init, NewCR, CR
<1>2. nextId \in 1 .. MaxTables + 1
  BY RouteTableAssumption DEF Init
<1> QED BY <1>1, <1>2, NoTableType, IdleType, TypeOKIs DEF Init, Counters

\* Every variable keeps its type, whatever the reconciler, the user, other clients
\* or a failure does.
THEOREM TypeCorrect == Spec => []TypeOK
BY InitType, NextType, PTL DEF Spec

----------------------------------------------------------------------------
(* The inductive invariant behind the claims about routes.                 *)

\* A table has one route to a destination, and one "local" route, its own.
Ordinary(routes) == \A r \in routes : r[2] = LocalRoute[2] => r = LocalRoute

TableOK(t) ==
  /\ IF t.live THEN LocalRoute \in t.routes ELSE t = NoTable
  /\ OneRoutePerDestination(t.routes) /\ Ordinary(t.routes)

TablesOK == \A i \in Ids : TableOK(tables[i])

\* What the worker has in hand at each of its labels, whoever interferes.
InHand == {"found", "tags", "excludeLatest", "excludeDesired", "routes", "refresh"}

Permitted(r) == r[2] # LocalRoute[2] /\ r[1] \notin AWSPrefixes

WorkerOK ==
  /\ ~At("idle") => w.routes \in SpecRoutes
  /\ w.pc \in InHand => w.id # 0
  /\ At("create") => w.mode = "create"
  /\ w.pc \in {"found", "tags", "excludeLatest", "excludeDesired", "routes"} =>
       OneRoutePerDestination(w.have)
  /\ w.pc \in {"found", "tags", "excludeLatest"} => Ordinary(w.have)
  /\ w.pc \in {"tags", "excludeLatest", "excludeDesired"} =>
       w.want = w.routes \/ w.want = w.routes \cup {LocalRoute}
  /\ At("excludeDesired") => \A r \in w.have : Permitted(r)
  /\ At("routes") /\ ~w.plFailed =>
       /\ w.toDelete \subseteq w.have /\ w.toDelete \cap Owned(w.routes) = {}
       /\ w.toAdd \subseteq Owned(w.routes)
  /\ \A r \in w.toDelete : Permitted(r)
  /\ \A r \in w.toAdd : r[2] # LocalRoute[2]

\* What is known of the table in hand while nobody interferes: at first it is as
\* it was read, then its tags are right, then the rest of the plan leads from
\* its routes to the declared ones.
InHandOK(t) ==
  /\ w.pc \in InHand => t.live
  /\ w.pc \in {"found", "tags"} => t.tags = w.seenTags
  /\ w.pc \in {"found", "tags", "excludeLatest"} => t.routes = w.have
  /\ w.pc \in {"excludeLatest", "excludeDesired", "routes", "refresh"} => t.tags = w.tags
  /\ At("excludeDesired") /\ ~w.plFailed => w.have = Owned(t.routes)
  /\ At("routes") /\ ~w.plFailed =>
       /\ w.toDelete \subseteq Owned(t.routes) /\ w.toAdd \cap Owned(t.routes) = {}
       /\ (Owned(t.routes) \ w.toDelete) \cup w.toAdd = Owned(w.routes)
  /\ At("refresh") /\ ~w.plFailed => Owned(t.routes) = Owned(w.routes)

SyncedOK == ~w.interfered => (w.pc \in InHand => InHandOK(tables[w.id])) /\ SyncedIsExact

RoutesInv == TypeOK /\ TablesOK /\ WorkerOK /\ SyncedOK

----------------------------------------------------------------------------
(* Lemmas about routes.                                                    *)

LEMMA SpecRoutesAre ==
  ASSUME NEW s \in SpecRoutes
  PROVE  /\ s \subseteq Route /\ OneRoutePerDestination(s) /\ Ordinary(s)
         /\ \A r \in s : r[1] = LocalRoute[1] => r = LocalRoute
<1>1. \A r \in s : r[1] = LocalRoute[1] <=> r[2] = LocalRoute[2]
  BY RouteTableAssumption
<1>2. s \subseteq Route /\ OneRoutePerDestination(s)
  BY RouteTableAssumption
<1>3. \A r \in s : r[1] = LocalRoute[1] /\ r[2] = LocalRoute[2] => r = LocalRoute
  BY <1>2, LocalRouteType DEF Route
<1> QED BY <1>1, <1>2, <1>3 DEF Ordinary

\* What syncRoutes keeps of a list of routes: at most what it may plan with, and
\* all of it if the prefix lists can be looked up.
LEMMA ExcludedAre ==
  ASSUME NEW routes, NEW answered \in BOOLEAN
  PROVE  LET rest == excludeAWSRoute(removeLocalRoute(routes), answered)
         IN  /\ rest \subseteq routes /\ \A r \in rest : Permitted(r)
             /\ answered /\ Ordinary(routes) => rest = Owned(routes)
<1>1. AWSPrefixes \subseteq Prefixes
  BY RouteTableAssumption
<1> QED BY <1>1 DEF excludeAWSRoute, removeLocalRoute, Permitted, Ordinary, Owned

\* If no difference is seen between two lists, they have the same owned routes.
LEMMA NoDifference ==
  ASSUME NEW want, NEW have, Ordinary(want), Ordinary(have), ~RoutesDiffer(want, have)
  PROVE  Owned(want) = Owned(have)
<1>1. removeLocalRoute(want) = removeLocalRoute(have)
  BY DEF RoutesDiffer
<1>2. \A r : r \in Owned(want) <=> r \in removeLocalRoute(want) /\ r[1] \notin AWSPrefixes
  BY DEF Owned, removeLocalRoute, Ordinary
<1>3. \A r : r \in Owned(have) <=> r \in removeLocalRoute(have) /\ r[1] \notin AWSPrefixes
  BY DEF Owned, removeLocalRoute, Ordinary
<1> QED BY <1>1, <1>2, <1>3

LEMMA OwnedLocal ==
  ASSUME NEW routes
  PROVE  Owned({LocalRoute}) = {} /\ Owned(routes \cup {LocalRoute}) = Owned(routes)
BY DEF Owned

LEMMA OwnedArePermitted ==
  ASSUME NEW routes, Ordinary(routes)
  PROVE  \A r \in Owned(routes) : r \in routes /\ Permitted(r)
BY DEF Owned, Ordinary, Permitted

----------------------------------------------------------------------------
(* How the invariant survives the ends of a pass.                          *)

LEMMA ErrorInv ==
  ASSUME RoutesInv, ~At("idle"), w' = onError
  PROVE  WorkerOK' /\ SyncedOK'
<1>1. w \in Worker
  BY TypeOKIs DEF RoutesInv
<1>2. w'.pc = "failed" /\ w'.routes = w.routes /\ w'.toDelete = w.toDelete /\ w'.toAdd = w.toAdd
  BY <1>1 DEF onError, Worker
<1> QED BY <1>2 DEF RoutesInv, WorkerOK, SyncedOK, SyncedIsExact, InHand, At, Permitted

LEMMA IdleInv ==
  ASSUME w' = IdleWorker
  PROVE  WorkerOK' /\ SyncedOK'
BY DEF IdleWorker, WorkerOK, SyncedOK, SyncedIsExact, InHand, At

LEMMA TableInHand ==
  ASSUME RoutesInv, w.pc \in InHand
  PROVE  w.id \in Ids /\ tables[w.id] \in Table /\ TableOK(tables[w.id])
<1>1. w.id \in Ids
  BY TypeOKIs DEF RoutesInv, WorkerOK, Worker
<1> QED BY <1>1, TypeOKIs DEF RoutesInv, TablesOK

\* One table changes, to one that is well formed.
LEMMA TableChanges ==
  ASSUME TypeOK, TablesOK, NEW i \in Ids, NEW t, TableOK(t),
         tables' = tables \/ tables' = [tables EXCEPT ![i] = t]
  PROVE  TablesOK'
<1>1. \A j \in Ids : tables'[j] = tables[j] \/ tables'[j] = t
  BY TypeOKIs
<1> QED BY <1>1 DEF TablesOK, TableOK, OneRoutePerDestination, Ordinary

LEMMA NoTableOK == TableOK(NoTable)
BY DEF TableOK, NoTable, OneRoutePerDestination, Ordinary

----------------------------------------------------------------------------
(* Each action keeps the invariant.                                        *)

LEMMA ReadInv ==
  ASSUME RoutesInv, Begin \/ sdkFind \/ ReadFails
  PROVE  TablesOK' /\ WorkerOK' /\ SyncedOK'
<1>1. TypeOK /\ w \in Worker /\ TablesOK
  BY TypeOKIs DEF RoutesInv
<1>2. tables' = tables /\ TablesOK'
  BY <1>1 DEF Begin, sdkFind, ReadFails, Go, Refused, TablesOK
<1>3. CASE Begin
  <2>1. /\ w'.pc = "describe" /\ w'.routes = cr.routes /\ w'.toDelete = {} /\ w'.toAdd = {}
    BY <1>3 DEF Begin, Go, IdleWorker
  <2>2. cr.routes \in SpecRoutes
    BY <1>1, TypeOKIs DEF CR
  <2> QED BY <1>2, <2>1, <2>2 DEF WorkerOK, SyncedOK, SyncedIsExact, InHand, At
<1>4. CASE sdkFind
  <2>1. CASE w' = onError
    BY <1>2, <1>4, <2>1, ErrorInv DEF sdkFind, At
  <2>2. CASE w' = NotFound
    <3>1. /\ w'.pc \in {"release", "manage"}
          /\ w'.routes = w.routes /\ w'.toDelete = w.toDelete /\ w'.toAdd = w.toAdd
      BY <1>1, <2>2 DEF NotFound, Worker
    <3> QED BY <1>2, <1>4, <3>1
            DEF RoutesInv, WorkerOK, SyncedOK, SyncedIsExact, InHand, At, sdkFind
  <2>3. CASE /\ w.id # 0 /\ tables[w.id].live
             /\ w' = [w EXCEPT !.pc = "found", !.have = tables[w.id].routes,
                              !.seenTags = tables[w.id].tags]
    <3>1. w.id \in Ids /\ TableOK(tables[w.id])
      BY <1>1, <2>3 DEF Worker, TablesOK
    <3>2. /\ w'.pc = "found" /\ w'.id = w.id /\ w'.routes = w.routes
          /\ w'.have = tables[w.id].routes /\ w'.seenTags = tables[w.id].tags
          /\ w'.toDelete = w.toDelete /\ w'.toAdd = w.toAdd
      BY <1>1, <2>3 DEF Worker
    <3>3. WorkerOK'
      BY <1>4, <2>3, <3>1, <3>2 DEF RoutesInv, WorkerOK, InHand, At, sdkFind, TableOK
    <3>4. SyncedOK'
      BY <1>2, <2>3, <3>2 DEF SyncedOK, SyncedIsExact, InHandOK, InHand, At
    <3> QED BY <1>2, <3>3, <3>4
  <2> QED BY <1>4, <2>1, <2>2, <2>3 DEF sdkFind, Go, Refused
<1>5. CASE ReadFails
  BY <1>2, <1>5, ErrorInv DEF ReadFails, At
<1> QED BY <1>3, <1>4, <1>5

LEMMA CreateInv ==
  ASSUME RoutesInv, setResourceManaged \/ sdkCreate
  PROVE  TablesOK' /\ WorkerOK' /\ SyncedOK'
<1>1. TypeOK /\ w \in Worker /\ TablesOK /\ tables \in [Ids -> Table]
  BY TypeOKIs DEF RoutesInv
<1>2. CASE setResourceManaged
  <2>1. TablesOK'
    BY <1>1, <1>2 DEF setResourceManaged, TablesOK
  <2>2. CASE w' = [w EXCEPT !.pc = "create", !.mode = "create"]
    <3>1. /\ w'.pc = "create" /\ w'.mode = "create" /\ w'.routes = w.routes
          /\ w'.toDelete = w.toDelete /\ w'.toAdd = w.toAdd
      BY <1>1, <2>2 DEF Worker
    <3> QED BY <1>2, <2>1, <3>1 DEF RoutesInv, WorkerOK, SyncedOK, SyncedIsExact, InHand,
                                    At, setResourceManaged
  <2> QED BY <1>2, <2>1, <2>2, IdleInv DEF setResourceManaged
<1>3. CASE sdkCreate
  <2> DEFINE t    == [live |-> TRUE, routes |-> {LocalRoute}, tags |-> w.tags]
             next == [w EXCEPT !.id = nextId, !.have = {},
                        !.want = w.routes \cup {LocalRoute},
                        !.pc = IF w.routes = {} THEN "synced" ELSE "excludeDesired"]
  <2>1. TableOK(t)
    BY DEF TableOK, OneRoutePerDestination, Ordinary
  <2>2. w.routes \in SpecRoutes
    BY <1>3 DEF RoutesInv, WorkerOK, At, sdkCreate
  <2>3. CASE Refused
    BY <1>1, <1>3, <2>3, ErrorInv DEF Refused, TablesOK, sdkCreate, At
  <2>4. CASE nextId \in Ids /\ Call([tables EXCEPT ![nextId] = t], next)
    <3>1. tables' = tables \/ tables' = [tables EXCEPT ![nextId] = t]
      BY <2>4 DEF Call
    <3>2. TablesOK'
      BY <1>1, <2>1, <2>4, <3>1, TableChanges
    <3>3. CASE w' = onError
      BY <1>3, <3>2, <3>3, ErrorInv DEF sdkCreate, At
    <3>4. CASE tables' = [tables EXCEPT ![nextId] = t] /\ w' = next
      <4>1. /\ w'.pc = IF w.routes = {} THEN "synced" ELSE "excludeDesired"
            /\ w'.id = nextId /\ w'.have = {} /\ w'.want = w.routes \cup {LocalRoute}
            /\ w'.routes = w.routes /\ w'.tags = w.tags
            /\ w'.toDelete = w.toDelete /\ w'.toAdd = w.toAdd
        BY <1>1, <3>4 DEF Worker
      <4>2. tables'[nextId] = t
        BY <1>1, <2>4, <3>4
      <4>3. nextId # 0
        BY <2>4 DEF Ids
      <4>4. WorkerOK'
        BY <2>2, <4>1, <4>3
           DEF RoutesInv, WorkerOK, InHand, At, OneRoutePerDestination
      <4>5. SyncedOK'
        <5>1. Owned({LocalRoute}) = {} /\ (w.routes = {} => Owned(w.routes) = {})
          BY OwnedLocal DEF Owned
        <5>2. tables'[w'.id].live /\ tables'[w'.id].routes = {LocalRoute}
              /\ tables'[w'.id].tags = w'.tags
          BY <4>1, <4>2
        <5> QED BY <4>1, <5>1, <5>2 DEF SyncedOK, SyncedIsExact, Exact, InHandOK, InHand, At
      <4> QED BY <3>2, <4>4, <4>5
    <3> HIDE DEF next
    <3> QED BY <2>4, <3>3, <3>4 DEF Call
  <2> QED BY <1>3, <2>3, <2>4 DEF sdkCreate
<1> QED BY <1>2, <1>3

LEMMA CompareInv ==
  ASSUME RoutesInv, customUpdateRouteTable
  PROVE  TablesOK' /\ WorkerOK' /\ SyncedOK'
<1>1. w \in Worker /\ w.pc = "found" /\ tables' = tables
  BY TypeOKIs DEF RoutesInv, customUpdateRouteTable, At, Go
<1>2. /\ w'.pc = IF w.tags # w.seenTags THEN "tags"
                 ELSE IF RoutesDiffer(w.routes, w.have) THEN "excludeLatest" ELSE "synced"
      /\ w'.want = w.routes /\ w'.routes = w.routes /\ w'.have = w.have /\ w'.id = w.id
      /\ w'.tags = w.tags /\ w'.seenTags = w.seenTags /\ w'.interfered = w.interfered
      /\ w'.toDelete = w.toDelete /\ w'.toAdd = w.toAdd
  BY <1>1 DEF customUpdateRouteTable, Go, Worker
<1>3. /\ w.routes \in SpecRoutes /\ w.id # 0 /\ OneRoutePerDestination(w.have)
      /\ Ordinary(w.have)
  BY <1>1 DEF RoutesInv, WorkerOK, InHand, At
<1>4. TablesOK'
  BY <1>1 DEF RoutesInv, TablesOK
<1>5. WorkerOK'
  BY <1>2, <1>3 DEF RoutesInv, WorkerOK, InHand, At
<1>6. SyncedOK'
  <2> SUFFICES ASSUME ~w.interfered PROVE SyncedOK'
    BY <1>2 DEF SyncedOK
  <2>1. /\ tables[w.id].live /\ tables[w.id].tags = w.seenTags
        /\ tables[w.id].routes = w.have
    BY <1>1 DEF RoutesInv, SyncedOK, InHandOK, InHand
  <2>2. ~RoutesDiffer(w.routes, w.have) => Owned(w.routes) = Owned(w.have)
    BY <1>3, SpecRoutesAre, NoDifference
  <2> QED BY <1>1, <1>2, <2>1, <2>2 DEF SyncedOK, SyncedIsExact, Exact, InHandOK, InHand, At
<1> QED BY <1>4, <1>5, <1>6

LEMMA TagsInv ==
  ASSUME RoutesInv, syncTags
  PROVE  TablesOK' /\ WorkerOK' /\ SyncedOK'
<1> DEFINE removed == tables[w.id].tags \ (w.seenTags \ w.tags)
           tags    == removed \cup (w.tags \ w.seenTags)
           next    == [w EXCEPT !.pc = IF RoutesDiffer(w.routes, w.have)
                                       THEN "excludeLatest" ELSE "synced"]
<1>1. w \in Worker /\ w.pc = "tags" /\ TypeOK /\ TablesOK /\ tables \in [Ids -> Table]
  BY TypeOKIs DEF RoutesInv, syncTags, At
<1>2. w.id \in Ids /\ TableOK(tables[w.id]) /\ tables[w.id] \in Table
  BY <1>1, TableInHand DEF InHand
<1>3. \/ Refused
      \/ tables[w.id].live /\ Call([tables EXCEPT ![w.id].tags = tags], next)
      \/ /\ tables[w.id].live /\ w' = onError
         /\ tables' = [tables EXCEPT ![w.id].tags = removed]
  BY DEF syncTags
<1>4. ASSUME NEW ts, tables[w.id].live
      PROVE  /\ [tables EXCEPT ![w.id].tags = ts]
                  = [tables EXCEPT ![w.id] = [tables[w.id] EXCEPT !.tags = ts]]
             /\ TableOK([tables[w.id] EXCEPT !.tags = ts])
  BY <1>1, <1>2, <1>4 DEF TableOK, Table
<1>5. TablesOK'
  <2> HIDE DEF removed, tags, next
  <2>1. CASE Refused
    BY <1>1, <2>1 DEF Refused, TablesOK
  <2>2. CASE tables[w.id].live /\ \E ts : \/ tables' = tables
                                         \/ tables' = [tables EXCEPT ![w.id].tags = ts]
    BY <1>1, <1>2, <1>4, <2>2, TableChanges
  <2> QED BY <1>3, <2>1, <2>2 DEF Call
<1>6. CASE w' = onError
  BY <1>1, <1>5, <1>6, ErrorInv DEF At
<1>7. CASE w' = next /\ tables[w.id].live /\ tables' = [tables EXCEPT ![w.id].tags = tags]
  <2>1. /\ w'.pc = IF RoutesDiffer(w.routes, w.have) THEN "excludeLatest" ELSE "synced"
        /\ w'.want = w.want /\ w'.routes = w.routes /\ w'.have = w.have /\ w'.id = w.id
        /\ w'.tags = w.tags /\ w'.interfered = w.interfered
        /\ w'.toDelete = w.toDelete /\ w'.toAdd = w.toAdd
    BY <1>1, <1>7 DEF Worker
  <2>2. /\ w.routes \in SpecRoutes /\ OneRoutePerDestination(w.have) /\ Ordinary(w.have)
    BY <1>1 DEF RoutesInv, WorkerOK, InHand, At
  <2>3. tables'[w.id].live /\ tables'[w.id].routes = tables[w.id].routes
        /\ tables'[w.id].tags = tags
    BY <1>1, <1>2, <1>7 DEF Table
  <2>4. WorkerOK'
    BY <1>1, <2>1, <2>2 DEF RoutesInv, WorkerOK, InHand, At
  <2>5. SyncedOK'
    <3> SUFFICES ASSUME ~w.interfered PROVE SyncedOK'
      BY <2>1 DEF SyncedOK
    <3>1. tables[w.id].tags = w.seenTags /\ tables[w.id].routes = w.have
      BY <1>1 DEF RoutesInv, SyncedOK, InHandOK, InHand
    <3>2. tags = w.tags
      BY <3>1
    <3>3. ~RoutesDiffer(w.routes, w.have) => Owned(w.routes) = Owned(w.have)
      BY <2>2, SpecRoutesAre, NoDifference
    <3> HIDE DEF tags
    <3> QED BY <2>1, <2>3, <3>1, <3>2, <3>3
            DEF SyncedOK, SyncedIsExact, Exact, InHandOK, InHand, At
  <2> QED BY <1>5, <2>4, <2>5
<1> HIDE DEF next, removed, tags
<1> QED BY <1>3, <1>6, <1>7 DEF Refused, Call

LEMMA ExcludeInv ==
  ASSUME RoutesInv, excludeFromLatest \/ excludeFromDesired
  PROVE  TablesOK' /\ WorkerOK' /\ SyncedOK'
<1>1. w \in Worker /\ tables' = tables /\ w.pc \in {"excludeLatest", "excludeDesired"}
  BY TypeOKIs DEF RoutesInv, excludeFromLatest, excludeFromDesired, At
<1>2. TablesOK' /\ TableOK(tables[w.id])
  BY <1>1, TableInHand DEF RoutesInv, TablesOK, InHand
<1>3. /\ w.routes \in SpecRoutes /\ OneRoutePerDestination(w.have) /\ w.id # 0
      /\ w.want = w.routes \/ w.want = w.routes \cup {LocalRoute}
      /\ \A r \in w.toDelete : Permitted(r)
      /\ \A r \in w.toAdd : r[2] # LocalRoute[2]
  BY <1>1 DEF RoutesInv, WorkerOK, InHand, At
<1>4. CASE excludeFromLatest
  <2>1. PICK answered \in BOOLEAN :
          w' = [w EXCEPT !.pc = "excludeDesired",
                 !.have = excludeAWSRoute(removeLocalRoute(w.have), answered),
                 !.plFailed = ~answered]
    BY <1>4 DEF excludeFromLatest
  <2> DEFINE have == excludeAWSRoute(removeLocalRoute(w.have), answered)
  <2>2. /\ w'.pc = "excludeDesired" /\ w'.have = have /\ w'.plFailed = ~answered
        /\ w'.want = w.want /\ w'.routes = w.routes /\ w'.id = w.id /\ w'.tags = w.tags
        /\ w'.interfered = w.interfered /\ w'.toDelete = w.toDelete /\ w'.toAdd = w.toAdd
    BY <1>1, <2>1 DEF Worker
  <2>3. have \subseteq w.have /\ (\A r \in have : Permitted(r))
        /\ (answered /\ Ordinary(w.have) => have = Owned(w.have))
    BY ExcludedAre
  <2> HIDE DEF have
  <2>4. OneRoutePerDestination(have)
    BY <1>3, <2>3 DEF OneRoutePerDestination
  <2>5. WorkerOK'
    BY <1>3, <2>2, <2>3, <2>4 DEF WorkerOK, InHand, At
  <2>6. SyncedOK'
    <3> SUFFICES ASSUME ~w.interfered PROVE SyncedOK'
      BY <2>2 DEF SyncedOK
    <3>1. /\ tables[w.id].live /\ tables[w.id].routes = w.have
          /\ tables[w.id].tags = w.tags /\ Ordinary(w.have)
      BY <1>1, <1>4 DEF RoutesInv, SyncedOK, InHandOK, InHand, At, excludeFromLatest, WorkerOK
    <3> QED BY <1>1, <2>2, <2>3, <3>1 DEF SyncedOK, SyncedIsExact, InHandOK, InHand, At
  <2> QED BY <1>2, <2>5, <2>6
<1>5. CASE excludeFromDesired
  <2>1. PICK answered \in BOOLEAN :
          LET want == excludeAWSRoute(removeLocalRoute(w.want), answered)
          IN  w' = [w EXCEPT !.pc = "routes", !.want = want,
                     !.toDelete = toDeleteOf(want, w.have),
                     !.toAdd = toAddOf(want, w.have),
                     !.plFailed = @ \/ ~answered]
    BY <1>5 DEF excludeFromDesired
  <2> DEFINE want == excludeAWSRoute(removeLocalRoute(w.want), answered)
  <2>2. /\ w'.pc = "routes" /\ w'.have = w.have /\ w'.plFailed = (w.plFailed \/ ~answered)
        /\ w'.routes = w.routes /\ w'.id = w.id /\ w'.tags = w.tags
        /\ w'.interfered = w.interfered
        /\ w'.toDelete = w.have \ want /\ w'.toAdd = want \ w.have
    BY <1>1, <2>1 DEF Worker, toDeleteOf, toAddOf
  <2>3. \A r \in w.have : Permitted(r)
    BY <1>5 DEF RoutesInv, WorkerOK, At, excludeFromDesired
  <2>4. (\A r \in want : Permitted(r)) /\ (answered => want = Owned(w.routes))
    <3>1. Ordinary(w.want) /\ Owned(w.want) = Owned(w.routes)
      BY <1>3, SpecRoutesAre, OwnedLocal DEF Ordinary
    <3> QED BY <3>1, ExcludedAre
  <2> HIDE DEF want
  <2>5. WorkerOK'
    <3>1. ~w'.plFailed => want = Owned(w.routes)
      BY <2>2, <2>4
    <3>2. (\A r \in w'.toDelete : Permitted(r)) /\ \A r \in w'.toAdd : r[2] # LocalRoute[2]
      BY <2>2, <2>3, <2>4 DEF Permitted
    <3> QED BY <1>3, <2>2, <3>1, <3>2 DEF WorkerOK, InHand, At
  <2>6. SyncedOK'
    <3> SUFFICES ASSUME ~w.interfered PROVE SyncedOK'
      BY <2>2 DEF SyncedOK
    <3>1. tables[w.id].live /\ tables[w.id].tags = w.tags
          /\ (~w.plFailed => w.have = Owned(tables[w.id].routes))
      BY <1>1, <1>5 DEF RoutesInv, SyncedOK, InHandOK, InHand, At, excludeFromDesired
    <3>2. ~w'.plFailed => want = Owned(w.routes) /\ w.have = Owned(tables[w.id].routes)
      BY <2>2, <2>4, <3>1
    <3> DEFINE now == Owned(tables[w.id].routes)
               goal == Owned(w.routes)
    <3>3. InHandOK(tables[w.id])'
      <4>1. ~w'.plFailed => w'.toDelete = now \ goal /\ w'.toAdd = goal \ now
        BY <2>2, <3>2
      <4>2. ~w'.plFailed => /\ w'.toDelete \subseteq now /\ w'.toAdd \cap now = {}
                            /\ (now \ w'.toDelete) \cup w'.toAdd = goal
        <5> HIDE DEF now, goal
        <5> QED BY <4>1
      <4>3. tables'[w'.id] = tables[w.id]
        BY <1>1, <2>2
      <4> QED BY <2>2, <3>1, <4>2, <4>3 DEF InHandOK, InHand, At
    <3> QED BY <1>1, <2>2, <3>3 DEF SyncedOK, SyncedIsExact, At
  <2> QED BY <1>2, <2>5, <2>6
<1> QED BY <1>4, <1>5

\* Nothing the plan deletes or adds makes a table ill formed, or loses it its
\* local route.
LEMMA RoutesChange ==
  ASSUME NEW t \in Table, TableOK(t), t.live, NEW rs, LocalRoute \in rs,
         \/ rs \subseteq t.routes
         \/ \E r : /\ rs = t.routes \cup {r} /\ r[2] # LocalRoute[2]
                  /\ \A q \in t.routes : q[1] # r[1]
  PROVE  TableOK([t EXCEPT !.routes = rs])
<1>1. [t EXCEPT !.routes = rs].live /\ [t EXCEPT !.routes = rs].routes = rs
  BY DEF Table
<1>2. OneRoutePerDestination(rs) /\ Ordinary(rs)
  BY DEF TableOK, OneRoutePerDestination, Ordinary
<1> QED BY <1>1, <1>2 DEF TableOK

LEMMA DeleteRouteInv ==
  ASSUME RoutesInv, deleteRoute
  PROVE  TablesOK' /\ WorkerOK' /\ SyncedOK'
<1>1. w \in Worker /\ w.pc = "routes" /\ TypeOK /\ TablesOK /\ tables \in [Ids -> Table]
  BY TypeOKIs DEF RoutesInv, deleteRoute, At
<1>2. w.id \in Ids /\ TableOK(tables[w.id]) /\ tables[w.id] \in Table
  BY <1>1, TableInHand DEF InHand
<1> DEFINE now     == tables[w.id].routes
           rest(r) == now \ {q \in now : q[1] = r[1]}
           t(r)    == [tables[w.id] EXCEPT !.routes = rest(r)]
           next(r) == [w EXCEPT !.toDelete = @ \ {r}]
<1>3. PICK r \in w.toDelete :
        \/ Refused
        \/ /\ {q \in now : q[1] = r[1]} # {} /\ r[1] # LocalRoute[1]
           /\ Call([tables EXCEPT ![w.id].routes = rest(r)], next(r))
  BY DEF deleteRoute
<1>4. [tables EXCEPT ![w.id].routes = rest(r)] = [tables EXCEPT ![w.id] = t(r)]
  BY <1>1, <1>2
<1>5. CASE Refused
  BY <1>1, <1>5, ErrorInv DEF Refused, TablesOK, At
<1>6. CASE /\ {q \in now : q[1] = r[1]} # {} /\ r[1] # LocalRoute[1]
           /\ Call([tables EXCEPT ![w.id] = t(r)], next(r))
  <2>1. tables[w.id].live
    BY <1>2, <1>6 DEF TableOK, NoTable
  <2>2. TableOK(t(r))
    <3>1. LocalRoute \in rest(r)
      BY <1>2, <1>6, <2>1 DEF TableOK
    <3> QED BY <1>2, <2>1, <3>1, RoutesChange
  <2> HIDE DEF t, next
  <2>3. TablesOK'
    BY <1>1, <1>2, <1>6, <2>2, TableChanges DEF Call
  <2>4. CASE w' = onError
    BY <1>1, <2>3, <2>4, ErrorInv DEF At
  <2>5. CASE w' = next(r) /\ tables' = [tables EXCEPT ![w.id] = t(r)]
    <3>1. /\ w'.pc = "routes" /\ w'.have = w.have /\ w'.plFailed = w.plFailed
          /\ w'.routes = w.routes /\ w'.id = w.id /\ w'.tags = w.tags
          /\ w'.interfered = w.interfered
          /\ w'.toDelete = w.toDelete \ {r} /\ w'.toAdd = w.toAdd
      BY <1>1, <2>5 DEF Worker, next
    <3>2. WorkerOK'
      BY <1>1, <3>1 DEF RoutesInv, WorkerOK, InHand, At
    <3>3. SyncedOK'
      <4> SUFFICES ASSUME ~w.interfered, ~w.plFailed PROVE InHandOK(tables[w.id])'
        <5> SUFFICES ASSUME ~w.interfered PROVE InHandOK(tables[w.id])'
          BY <3>1 DEF SyncedOK, SyncedIsExact, At
        <5>1. tables'[w'.id].live /\ tables'[w'.id].tags = w'.tags
          BY <1>1, <1>2, <2>1, <2>5, <3>1
             DEF t, Table, RoutesInv, SyncedOK, InHandOK, InHand
        <5> QED BY <3>1, <5>1 DEF InHandOK, InHand, At
      <4>1. /\ tables[w.id].tags = w.tags
            /\ w.toDelete \subseteq Owned(now) /\ w.toAdd \cap Owned(now) = {}
            /\ (Owned(now) \ w.toDelete) \cup w.toAdd = Owned(w.routes)
        BY <1>1 DEF RoutesInv, SyncedOK, InHandOK, InHand, At
      <4>2. tables'[w'.id].live /\ tables'[w'.id].tags = w'.tags
            /\ tables'[w'.id].routes = rest(r)
        BY <1>1, <1>2, <2>1, <2>5, <3>1, <4>1 DEF t, Table
      <4>3. Owned(rest(r)) = Owned(now) \ {r}
        <5>1. r \in now
          BY <4>1 DEF Owned
        <5>2. \A q \in now : q[1] = r[1] => q = r
          BY <1>2, <5>1 DEF TableOK, OneRoutePerDestination
        <5>3. rest(r) = now \ {r}
          BY <5>1, <5>2
        <5> QED BY <5>3 DEF Owned
      <4> HIDE DEF rest, now
      <4>4. /\ w'.toDelete \subseteq Owned(rest(r)) /\ w'.toAdd \cap Owned(rest(r)) = {}
            /\ (Owned(rest(r)) \ w'.toDelete) \cup w'.toAdd = Owned(w.routes)
        BY <3>1, <4>1, <4>3
      <4> QED BY <3>1, <4>2, <4>4 DEF InHandOK, InHand, At
    <3> QED BY <2>3, <3>2, <3>3
  <2> QED BY <1>6, <2>4, <2>5 DEF Call
<1> QED BY <1>3, <1>4, <1>5, <1>6

LEMMA CreateRouteInv ==
  ASSUME RoutesInv, createRoute
  PROVE  TablesOK' /\ WorkerOK' /\ SyncedOK'
<1>1. /\ w \in Worker /\ w.pc = "routes" /\ w.toDelete = {}
      /\ TypeOK /\ TablesOK /\ tables \in [Ids -> Table]
  BY TypeOKIs DEF RoutesInv, createRoute, At
<1>2. w.id \in Ids /\ TableOK(tables[w.id]) /\ tables[w.id] \in Table
  BY <1>1, TableInHand DEF InHand
<1> DEFINE now     == tables[w.id].routes
           more(r) == now \cup {r}
           t(r)    == [tables[w.id] EXCEPT !.routes = more(r)]
           next(r) == [w EXCEPT !.toAdd = @ \ {r}]
<1>3. PICK r \in w.toAdd :
        \/ Refused
        \/ /\ tables[w.id].live /\ \A q \in now : q[1] # r[1]
           /\ Call([tables EXCEPT ![w.id].routes = more(r)], next(r))
  BY DEF createRoute
<1>4. [tables EXCEPT ![w.id].routes = more(r)] = [tables EXCEPT ![w.id] = t(r)]
  BY <1>1, <1>2
<1>5. CASE Refused
  BY <1>1, <1>5, ErrorInv DEF Refused, TablesOK, At
<1>6. CASE /\ tables[w.id].live /\ \A q \in now : q[1] # r[1]
           /\ Call([tables EXCEPT ![w.id] = t(r)], next(r))
  <2>1. r[2] # LocalRoute[2]
    BY DEF RoutesInv, WorkerOK
  <2>2. TableOK(t(r))
    <3>1. LocalRoute \in more(r)
      BY <1>2, <1>6 DEF TableOK
    <3> QED BY <1>2, <1>6, <2>1, <3>1, RoutesChange
  <2> HIDE DEF t, next
  <2>3. TablesOK'
    BY <1>1, <1>2, <1>6, <2>2, TableChanges DEF Call
  <2>4. CASE w' = onError
    BY <1>1, <2>3, <2>4, ErrorInv DEF At
  <2>5. CASE w' = next(r) /\ tables' = [tables EXCEPT ![w.id] = t(r)]
    <3>1. /\ w'.pc = "routes" /\ w'.have = w.have /\ w'.plFailed = w.plFailed
          /\ w'.routes = w.routes /\ w'.id = w.id /\ w'.tags = w.tags
          /\ w'.interfered = w.interfered
          /\ w'.toDelete = w.toDelete /\ w'.toAdd = w.toAdd \ {r}
      BY <1>1, <2>5 DEF Worker, next
    <3>2. WorkerOK'
      BY <1>1, <3>1 DEF RoutesInv, WorkerOK, InHand, At
    <3>3. SyncedOK'
      <4> SUFFICES ASSUME ~w.interfered PROVE InHandOK(tables[w.id])'
        BY <3>1 DEF SyncedOK, SyncedIsExact, At
      <4>1. tables[w.id].tags = w.tags
        BY <1>1 DEF RoutesInv, SyncedOK, InHandOK, InHand
      <4>2. tables'[w'.id].live /\ tables'[w'.id].tags = w'.tags
            /\ tables'[w'.id].routes = more(r)
        BY <1>1, <1>2, <1>6, <2>5, <3>1, <4>1 DEF t, Table
      <4>3. ~w.plFailed =>
              /\ w.toAdd \cap Owned(now) = {} /\ r \in Owned(w.routes)
              /\ Owned(now) \cup w.toAdd = Owned(w.routes)
        BY <1>1 DEF RoutesInv, SyncedOK, InHandOK, InHand, At, WorkerOK
      <4>4. r \in Owned(w.routes) => Owned(more(r)) = Owned(now) \cup {r}
        BY DEF Owned
      <4> HIDE DEF more, now
      <4>5. ~w.plFailed =>
              /\ w'.toDelete \subseteq Owned(more(r)) /\ w'.toAdd \cap Owned(more(r)) = {}
              /\ (Owned(more(r)) \ w'.toDelete) \cup w'.toAdd = Owned(w.routes)
        BY <1>1, <3>1, <4>3, <4>4
      <4> QED BY <3>1, <4>2, <4>5 DEF InHandOK, InHand, At
    <3> QED BY <2>3, <3>2, <3>3
  <2> QED BY <1>6, <2>4, <2>5 DEF Call
<1> QED BY <1>3, <1>4, <1>5, <1>6

LEMMA EndInv ==
  ASSUME RoutesInv,
         \/ syncRoutes \/ refreshStatus \/ sdkDelete
         \/ setResourceUnmanaged \/ PatchStatus \/ Crash
  PROVE  TablesOK' /\ WorkerOK' /\ SyncedOK'
<1>1. w \in Worker /\ TypeOK /\ TablesOK
  BY TypeOKIs DEF RoutesInv
<1>2. CASE syncRoutes \/ refreshStatus
  <2>1. tables' = tables /\ TablesOK' /\ w.pc \in {"routes", "refresh"}
    BY <1>1, <1>2 DEF syncRoutes, refreshStatus, Go, Refused, At, TablesOK
  <2>2. CASE Refused
    BY <2>1, <2>2, ErrorInv DEF Refused, At
  <2>3. CASE \E label \in {"synced", "refresh"} : w' = [w EXCEPT !.pc = label]
    <3>1. /\ w'.pc \in {"synced", "refresh"}
          /\ w'.routes = w.routes /\ w'.id = w.id /\ w'.tags = w.tags
          /\ w'.interfered = w.interfered /\ w'.plFailed = w.plFailed
          /\ w'.toDelete = w.toDelete /\ w'.toAdd = w.toAdd
      BY <1>1, <2>3 DEF Worker
    <3>2. WorkerOK'
      BY <2>1, <3>1 DEF RoutesInv, WorkerOK, InHand, At
    <3>3. SyncedOK'
      <4> SUFFICES ASSUME ~w.interfered PROVE SyncedOK'
        BY <3>1 DEF SyncedOK
      <4>1. tables[w.id].live /\ tables[w.id].tags = w.tags
        BY <2>1 DEF RoutesInv, SyncedOK, InHandOK, InHand
      <4>2. ~w.plFailed => Owned(tables[w.id].routes) = Owned(w.routes)
        BY <1>2, <2>1
           DEF RoutesInv, SyncedOK, InHandOK, InHand, At, syncRoutes, refreshStatus
      <4> QED BY <2>1, <3>1, <4>1, <4>2 DEF SyncedOK, SyncedIsExact, Exact, InHandOK, InHand, At
    <3> QED BY <2>1, <3>2, <3>3
  <2> QED BY <1>2, <2>2, <2>3 DEF syncRoutes, refreshStatus, Go
<1>3. CASE sdkDelete
  <2>1. w.pc = "found"
    BY <1>3 DEF sdkDelete, At
  <2>2. w.id \in Ids
    BY <2>1, TableInHand DEF InHand
  <2>3. TablesOK'
    BY <1>1, <1>3, <2>2, NoTableOK, TableChanges DEF sdkDelete, Call, Refused
  <2>4. CASE w' = onError
    BY <2>1, <2>3, <2>4, ErrorInv DEF At
  <2>5. CASE w' = [w EXCEPT !.pc = "release"]
    <3>1. /\ w'.pc = "release" /\ w'.routes = w.routes
          /\ w'.toDelete = w.toDelete /\ w'.toAdd = w.toAdd
      BY <1>1, <2>5 DEF Worker
    <3> QED BY <2>1, <2>3, <3>1 DEF RoutesInv, WorkerOK, SyncedOK, SyncedIsExact, InHand, At
  <2> QED BY <1>3, <2>4, <2>5 DEF sdkDelete, Call, Refused
<1>4. CASE setResourceUnmanaged \/ PatchStatus \/ Crash
  <2>1. w' = IdleWorker /\ tables' = tables
    BY <1>4 DEF setResourceUnmanaged, PatchStatus, Crash
  <2> QED BY <1>1, <2>1, IdleInv DEF TablesOK
<1> QED BY <1>2, <1>3, <1>4

LEMMA WorldInv ==
  ASSUME RoutesInv, EditSpec \/ DeleteCR \/ RecreateCR \/ Drift
  PROVE  TablesOK' /\ WorkerOK' /\ SyncedOK'
<1>1. w \in Worker /\ TypeOK /\ TablesOK /\ tables \in [Ids -> Table]
  BY TypeOKIs DEF RoutesInv
<1>2. CASE EditSpec \/ DeleteCR \/ RecreateCR
  <2>1. w' = w /\ tables' = tables
    BY <1>2 DEF EditSpec, DeleteCR, RecreateCR
  <2>2. WorkerOK'
    BY <2>1 DEF RoutesInv, WorkerOK, At
  <2>3. SyncedOK'
    BY <2>1 DEF RoutesInv, SyncedOK, SyncedIsExact, Exact, InHandOK, At
  <2> QED BY <1>1, <2>1, <2>2, <2>3 DEF TablesOK
<1>3. CASE Drift
  <2>1. PICK i \in Live :
          \/ \E r \in Route :
               /\ \A q \in tables[i].routes : q[1] # r[1]
               /\ r[2] # LocalRoute[2]
               /\ tables' = [tables EXCEPT ![i].routes = tables[i].routes \cup {r}]
          \/ \E r \in tables[i].routes \ {LocalRoute} :
               tables' = [tables EXCEPT ![i].routes = tables[i].routes \ {r}]
          \/ tables' = [tables EXCEPT ![i] = NoTable]
    BY <1>1, <1>3 DEF Drift, Live
  <2>2. i \in Ids /\ tables[i].live /\ tables[i] \in Table /\ TableOK(tables[i])
    BY <1>1 DEF Live, TablesOK
  <2>3. LocalRoute \in tables[i].routes
    BY <2>2 DEF TableOK
  <2>4. ASSUME NEW rs
        PROVE  [tables EXCEPT ![i].routes = rs]
                 = [tables EXCEPT ![i] = [tables[i] EXCEPT !.routes = rs]]
    BY <1>1, <2>2
  <2>5. TablesOK'
    <3>1. CASE \E r \in Route :
                 /\ \A q \in tables[i].routes : q[1] # r[1]
                 /\ r[2] # LocalRoute[2]
                 /\ tables' = [tables EXCEPT ![i].routes = tables[i].routes \cup {r}]
      <4>1. PICK r : /\ \A q \in tables[i].routes : q[1] # r[1]
                     /\ r[2] # LocalRoute[2]
                     /\ tables' = [tables EXCEPT ![i].routes = tables[i].routes \cup {r}]
        BY <3>1
      <4>2. TableOK([tables[i] EXCEPT !.routes = tables[i].routes \cup {r}])
        BY <2>2, <2>3, <4>1, RoutesChange
      <4> QED BY <1>1, <2>2, <2>4, <4>1, <4>2, TableChanges
    <3>2. CASE \E r \in tables[i].routes \ {LocalRoute} :
                 tables' = [tables EXCEPT ![i].routes = tables[i].routes \ {r}]
      <4>1. PICK r \in tables[i].routes \ {LocalRoute} :
              tables' = [tables EXCEPT ![i].routes = tables[i].routes \ {r}]
        BY <3>2
      <4>2. TableOK([tables[i] EXCEPT !.routes = tables[i].routes \ {r}])
        BY <2>2, <2>3, RoutesChange
      <4> QED BY <1>1, <2>2, <2>4, <4>1, <4>2, TableChanges
    <3>3. CASE tables' = [tables EXCEPT ![i] = NoTable]
      BY <1>1, <2>2, <3>3, NoTableOK, TableChanges
    <3> QED BY <2>1, <3>1, <3>2, <3>3
  <2>6. CASE At("idle")
    <3>1. w' = w
      BY <1>3, <2>6 DEF Drift
    <3>2. WorkerOK'
      BY <3>1 DEF RoutesInv, WorkerOK, At
    <3>3. SyncedOK'
      BY <2>6, <3>1 DEF SyncedOK, SyncedIsExact, InHand, At
    <3> QED BY <2>5, <3>2, <3>3
  <2>7. CASE ~At("idle")
    <3>1. /\ w'.interfered = TRUE /\ w'.pc = w.pc /\ w'.mode = w.mode /\ w'.id = w.id
          /\ w'.routes = w.routes /\ w'.want = w.want /\ w'.have = w.have
          /\ w'.toDelete = w.toDelete /\ w'.toAdd = w.toAdd /\ w'.plFailed = w.plFailed
      BY <1>1, <1>3, <2>7 DEF Drift, Worker
    <3>2. WorkerOK'
      BY <3>1 DEF RoutesInv, WorkerOK, At
    <3>3. SyncedOK'
      BY <3>1 DEF SyncedOK
    <3> QED BY <2>5, <3>2, <3>3
  <2> QED BY <2>6, <2>7
<1> QED BY <1>2, <1>3

LEMMA RoutesInvStep == RoutesInv /\ [Next]_vars => RoutesInv'
<1> SUFFICES ASSUME RoutesInv, [Next]_vars PROVE RoutesInv'
  OBVIOUS
<1>1. TypeOK'
  BY NextType DEF RoutesInv
<1>2. CASE UNCHANGED vars
  <2>1. w' = w /\ tables' = tables
    BY <1>2 DEF vars
  <2>2. TablesOK'
    BY <2>1 DEF RoutesInv, TablesOK
  <2>3. WorkerOK'
    BY <2>1 DEF RoutesInv, WorkerOK, At
  <2>4. SyncedOK'
    BY <2>1 DEF RoutesInv, SyncedOK, SyncedIsExact, Exact, InHandOK, At
  <2> QED BY <1>1, <2>2, <2>3, <2>4 DEF RoutesInv
<1>3. CASE Next
  <2>1. TablesOK' /\ WorkerOK' /\ SyncedOK'
    BY <1>3, ReadInv, CreateInv, CompareInv, TagsInv, ExcludeInv, DeleteRouteInv,
       CreateRouteInv, EndInv, WorldInv DEF Next, Reconcile
  <2> QED BY <1>1, <2>1 DEF RoutesInv
<1> QED BY <1>2, <1>3

LEMMA RoutesInvInit == Init => RoutesInv
<1> SUFFICES ASSUME Init PROVE RoutesInv
  OBVIOUS
<1>1. TypeOK
  BY InitType
<1>2. TablesOK
  BY NoTableOK DEF Init, TablesOK
<1>3. WorkerOK /\ SyncedOK
  BY DEF Init, IdleWorker, WorkerOK, SyncedOK, SyncedIsExact, InHand, At
<1> QED BY <1>1, <1>2, <1>3 DEF RoutesInv

LEMMA RoutesInvAlways == Spec => []RoutesInv
BY RoutesInvInit, RoutesInvStep, PTL DEF Spec

\* A pass of syncRoutes that reports success has left exactly the declared routes
\* and tags, unless another client interfered or a prefix list look-up failed.
THEOREM ExactCorrect == Spec => []SyncedIsExact
<1>1. RoutesInv => SyncedIsExact
  BY DEF RoutesInv, SyncedOK, SyncedIsExact
<1> QED BY <1>1, RoutesInvAlways, PTL

\* When the deletions are done, no route that CreateRoute is still to add meets
\* an existing one.
THEOREM CollisionFree == Spec => []NeverCollide
<1>1. RoutesInv => NeverCollide
  <2> SUFFICES ASSUME RoutesInv, At("routes"), w.toDelete = {}, ~w.interfered, ~w.plFailed,
                      NEW r \in w.toAdd, NEW q \in tables[w.id].routes
               PROVE  q[1] # r[1]
    BY DEF NeverCollide
  <2> DEFINE now == tables[w.id].routes
  <2>1. /\ w.toAdd \cap Owned(now) = {} /\ Owned(now) \cup w.toAdd = Owned(w.routes)
        /\ r \in Owned(w.routes)
    BY DEF RoutesInv, SyncedOK, InHandOK, InHand, At
  <2>2. w.routes \in SpecRoutes
    BY DEF RoutesInv, WorkerOK, At
  <2>3. r \in w.routes /\ r # LocalRoute /\ r[1] \notin AWSPrefixes
    BY <2>1 DEF Owned
  <2>4. CASE q \in Owned(now)
    <3>1. q \in w.routes /\ q # r
      BY <2>1, <2>4 DEF Owned
    <3> QED BY <2>2, <2>3, <3>1, SpecRoutesAre DEF OneRoutePerDestination
  <2>5. CASE q = LocalRoute
    BY <2>2, <2>3, <2>5, SpecRoutesAre
  <2>6. CASE q[1] \in AWSPrefixes
    BY <2>3, <2>6
  <2> QED BY <2>4, <2>5, <2>6 DEF Owned
<1> QED BY <1>1, RoutesInvAlways, PTL

\* The plan of syncRoutes never asks EC2 to delete the local route or a route
\* that a gateway endpoint owns, however its look-ups of prefix lists end.
THEOREM PlanCorrect == Spec => []PlanIsPermitted
<1>1. RoutesInv => PlanIsPermitted
  BY DEF RoutesInv, WorkerOK, PlanIsPermitted, Permitted
<1> QED BY <1>1, RoutesInvAlways, PTL

\* What DeclaredRouteStays says of one step.
RouteStaysInStep ==
  drifts' = drifts /\ ~w.plFailed /\ w.mode = "update" /\ w.id # 0 =>
    \A r \in Owned(w.routes) \cap tables[w.id].routes :
      (w.interfered => r \in w.have) => r \in tables'[w.id].routes

\* Only the calls that create, change or delete a table, and other clients, touch
\* the routes of a table.
LEMMA RoutesUntouched ==
  ASSUME TypeOK, [Next]_vars, NEW i \in Ids,
         ~sdkCreate, ~deleteRoute, ~createRoute, ~sdkDelete, ~Drift
  PROVE  tables'[i].routes = tables[i].routes
<1>1. tables \in [Ids -> Table]
  BY TypeOKIs
<1>2. CASE syncTags
  <2>1. \/ tables' = tables
        \/ \E ts : tables' = [tables EXCEPT ![w.id].tags = ts]
    BY <1>2 DEF syncTags, Call, Refused
  <2>2. ASSUME NEW ts PROVE [tables EXCEPT ![w.id].tags = ts][i].routes = tables[i].routes
    BY <1>1 DEF Table
  <2> QED BY <2>1, <2>2
<1>3. CASE \/ Begin \/ sdkFind \/ setResourceManaged \/ customUpdateRouteTable
           \/ excludeFromLatest \/ excludeFromDesired \/ syncRoutes \/ refreshStatus
           \/ setResourceUnmanaged \/ PatchStatus
  <2>1. tables' = tables
    BY <1>3 DEF Begin, sdkFind, setResourceManaged, customUpdateRouteTable,
                excludeFromLatest, excludeFromDesired, syncRoutes, refreshStatus,
                setResourceUnmanaged, PatchStatus, Go, Refused
  <2> QED BY <2>1
<1>4. CASE ReadFails \/ Crash \/ EditSpec \/ DeleteCR \/ RecreateCR \/ UNCHANGED vars
  <2>1. tables' = tables
    BY <1>4 DEF ReadFails, Crash, EditSpec, DeleteCR, RecreateCR, vars
  <2> QED BY <2>1
<1> QED BY <1>2, <1>3, <1>4 DEF Next, Reconcile

LEMMA RouteStays == RoutesInv /\ [Next]_vars => [RouteStaysInStep]_vars
<1> SUFFICES ASSUME RoutesInv, [Next]_vars,
                    drifts' = drifts, ~w.plFailed, w.mode = "update", w.id # 0,
                    NEW r \in Owned(w.routes) \cap tables[w.id].routes,
                    w.interfered => r \in w.have
             PROVE  r \in tables'[w.id].routes
  BY DEF RouteStaysInStep
<1>1. w \in Worker /\ w.id \in Ids /\ tables \in [Ids -> Table] /\ TypeOK
  BY TypeOKIs DEF RoutesInv, Worker
<1>2. ~sdkCreate /\ ~sdkDelete
  BY DEF sdkCreate, sdkDelete, RoutesInv, WorkerOK, At
<1>3. ~Drift
  <2>1. drifts \in Nat
    BY <1>1, TypeOKIs DEF Counters
  <2> QED BY <2>1 DEF Drift
<1>4. CASE deleteRoute
  <2>1. /\ w.pc = "routes" /\ w.toDelete \subseteq w.have /\ r \notin w.toDelete
        /\ OneRoutePerDestination(w.have)
    BY <1>4 DEF deleteRoute, At, RoutesInv, WorkerOK
  <2>2. OneRoutePerDestination(tables[w.id].routes)
    BY <1>1 DEF RoutesInv, TablesOK, TableOK
  <2>3. ~w.interfered => w.toDelete \subseteq tables[w.id].routes
    BY <2>1 DEF RoutesInv, SyncedOK, InHandOK, InHand, At, Owned
  <2>4. \A d \in w.toDelete : d[1] # r[1]
    BY <2>1, <2>2, <2>3 DEF OneRoutePerDestination
  <2>5. \/ tables' = tables
        \/ \E d \in w.toDelete :
             tables' = [tables EXCEPT ![w.id].routes =
                          tables[w.id].routes \ {q \in tables[w.id].routes : q[1] = d[1]}]
    BY <1>4 DEF deleteRoute, Call, Refused
  <2>6. ASSUME NEW rs
        PROVE  [tables EXCEPT ![w.id].routes = rs][w.id].routes = rs
    BY <1>1 DEF Table
  <2> QED BY <2>4, <2>5, <2>6
<1>5. CASE createRoute
  <2>1. \/ tables' = tables
        \/ \E a : tables' = [tables EXCEPT ![w.id].routes = tables[w.id].routes \cup {a}]
    BY <1>5 DEF createRoute, Call, Refused
  <2>2. ASSUME NEW rs
        PROVE  [tables EXCEPT ![w.id].routes = rs][w.id].routes = rs
    BY <1>1 DEF Table
  <2> QED BY <2>1, <2>2
<1>6. CASE ~deleteRoute /\ ~createRoute
  BY <1>1, <1>2, <1>3, <1>6, RoutesUntouched
<1> QED BY <1>4, <1>5, <1>6

\* A declared route that is in place stays while a pass updates the table, as
\* long as the prefix lists can be looked up: no plan deletes it, and no deletion
\* of another route, which names the destination only, takes it along.
THEOREM DeclaredRouteStaysCorrect == Spec => DeclaredRouteStays
<1>1. RoutesInv /\ [Next]_vars
        => [ drifts' = drifts /\ ~w.plFailed /\ w.mode = "update" /\ w.id # 0 =>
               \A r \in Owned(w.routes) \cap tables[w.id].routes :
                 (w.interfered => r \in w.have) => r \in tables'[w.id].routes ]_vars
  BY RouteStays DEF RouteStaysInStep
<1> QED BY <1>1, RoutesInvAlways, PTL DEF Spec, DeclaredRouteStays

----------------------------------------------------------------------------
(* The table, the finalizer and the id in the status.                      *)

\* The live tables that a CR's status has held: what Lifecycle calls objects.
Owning == recorded \cap Live

PhaseOK ==
  /\ cr.phase = "gone" => ~cr.managed
  /\ cr.phase = "deleting" \/ (cr.phase = "live" /\ cr.id # 0) => cr.managed

IdsOK ==
  /\ \A i \in recorded \cup Live : i < nextId
  /\ cr.id \in recorded \cup {0}

OwningOK == Owning \subseteq {cr.id} /\ (~cr.managed => Owning = {})

\* A pass holds the id it was started with, or that of the table it has just
\* created and nobody has recorded yet.
PassOK ==
  ~At("idle") =>
    /\ cr.phase = "gone" => cr.id = 0
    /\ w.mode # "create" => w.id = cr.id
    /\ w.mode = "create" =>
         /\ cr.managed /\ Owning = {} /\ w.id < nextId
         /\ w.id = cr.id \/ w.id \notin recorded
    /\ w.mode = "delete" => cr.phase = "deleting"
    /\ w.pc \in {"manage", "release"} => Owning = {}
    /\ w.pc \in {"describe", "manage"} => w.mode # "create"

Ownership == PhaseOK /\ IdsOK /\ OwningOK /\ PassOK

\* A table's routes or tags change: it stays the live table it was.
LEMMA LiveStays ==
  ASSUME TypeOK, NEW i \in Ids, NEW x,
         \/ tables' = tables
         \/ tables' = [tables EXCEPT ![i].routes = x]
         \/ tables' = [tables EXCEPT ![i].tags = x]
  PROVE  Live' = Live
<1>1. tables \in [Ids -> Table]
  BY TypeOKIs
<1>2. CASE tables' = [tables EXCEPT ![i].routes = x]
  <2>1. \A j \in Ids : tables'[j].live = tables[j].live
    BY <1>1, <1>2 DEF Table
  <2> QED BY <2>1 DEF Live
<1>3. CASE tables' = [tables EXCEPT ![i].tags = x]
  <2>1. \A j \in Ids : tables'[j].live = tables[j].live
    BY <1>1, <1>3 DEF Table
  <2> QED BY <2>1 DEF Live
<1>4. CASE tables' = tables
  BY <1>4 DEF Live
<1> QED BY <1>2, <1>3, <1>4

\* The steps of a pass on the table in hand move neither the CR nor the ids; they
\* keep the id in hand, or an error in a creation drops it.
LEMMA PassSteps ==
  ASSUME RoutesInv,
         \/ customUpdateRouteTable \/ syncTags \/ excludeFromLatest \/ excludeFromDesired
         \/ deleteRoute \/ createRoute \/ syncRoutes \/ refreshStatus
  PROVE  /\ UNCHANGED <<cr, nextId, recorded>> /\ Live' = Live
         /\ ~At("idle") /\ w'.mode = w.mode
         /\ w'.pc \notin {"idle", "describe", "manage", "release", "create"}
         /\ w'.id = w.id \/ (w.mode = "create" /\ w'.id = cr.id)
<1>1. w \in Worker /\ TypeOK
  BY TypeOKIs DEF RoutesInv
<1> DEFINE Kept(r) == /\ r.mode = w.mode
                      /\ r.pc \notin {"idle", "describe", "manage", "release", "create"}
                      /\ r.id = w.id \/ (w.mode = "create" /\ r.id = cr.id)
<1>2. Kept(onError)
  BY <1>1 DEF onError, Worker
<1>3. CASE \/ customUpdateRouteTable \/ excludeFromLatest \/ excludeFromDesired
           \/ syncRoutes \/ refreshStatus
  <2>1. UNCHANGED <<cr, nextId, recorded>> /\ tables' = tables /\ ~At("idle")
    BY <1>3 DEF customUpdateRouteTable, excludeFromLatest, excludeFromDesired, syncRoutes,
                refreshStatus, Go, Refused, At
  <2>2. Kept(w')
    BY <1>1, <1>2, <1>3
       DEF customUpdateRouteTable, excludeFromLatest, excludeFromDesired, syncRoutes,
           refreshStatus, Go, Refused, Worker
  <2> QED BY <2>1, <2>2 DEF Live
<1>4. CASE syncTags
  <2>1. w.id \in Ids /\ ~At("idle")
    BY <1>4, TableInHand DEF syncTags, At, InHand
  <2>2. tables' = tables \/ \E x : tables' = [tables EXCEPT ![w.id].tags = x]
    BY <1>4 DEF syncTags, Call, Refused
  <2>3. Kept(w')
    BY <1>1, <1>2, <1>4 DEF syncTags, Call, Refused, Worker
  <2>4. Live' = Live
    BY <1>1, <2>1, <2>2, LiveStays
  <2> QED BY <1>4, <2>1, <2>3, <2>4 DEF syncTags
<1>5. CASE deleteRoute \/ createRoute
  <2>1. w.id \in Ids /\ ~At("idle") /\ w.pc = "routes"
    BY <1>5, TableInHand DEF deleteRoute, createRoute, At, InHand
  <2>2. tables' = tables \/ \E x : tables' = [tables EXCEPT ![w.id].routes = x]
    BY <1>5 DEF deleteRoute, createRoute, Call, Refused
  <2>3. Kept(w')
    BY <1>1, <1>2, <1>5, <2>1 DEF deleteRoute, createRoute, Call, Refused, Worker
  <2>4. Live' = Live
    BY <1>1, <2>1, <2>2, LiveStays
  <2> QED BY <1>5, <2>1, <2>3, <2>4 DEF deleteRoute, createRoute
<1> QED BY <1>3, <1>4, <1>5

LEMMA OwnershipPass ==
  ASSUME RoutesInv, Ownership,
         \/ customUpdateRouteTable \/ syncTags \/ excludeFromLatest \/ excludeFromDesired
         \/ deleteRoute \/ createRoute \/ syncRoutes \/ refreshStatus
         \/ ReadFails \/ Begin \/ sdkFind
  PROVE  Ownership' /\ UNCHANGED cr /\ Owning' = Owning
<1>1. /\ w \in Worker /\ TypeOK /\ 0 \notin Ids /\ recorded \subseteq Ids
      /\ cr.id \in Ids \cup {0} /\ nextId \in Nat \ {0}
  BY TypeOKIs, RouteTableAssumption DEF RoutesInv, CR, Ids
<1>2. /\ UNCHANGED <<cr, nextId, recorded>> /\ Live' = Live
  <2>1. CASE Begin \/ sdkFind \/ ReadFails
    BY <2>1 DEF Begin, sdkFind, ReadFails, Go, Refused, Live
  <2> QED BY <2>1, PassSteps
<1>3. Owning' = Owning /\ PhaseOK' /\ IdsOK' /\ OwningOK'
  <2>1. Owning' = Owning
    BY <1>2 DEF Owning
  <2>2. PhaseOK'
    BY <1>2 DEF Ownership, PhaseOK
  <2>3. IdsOK'
    <3>1. recorded' \cup Live' = recorded \cup Live /\ nextId' = nextId /\ cr' = cr
      BY <1>2
    <3> QED BY <1>2, <3>1 DEF Ownership, IdsOK
  <2>4. OwningOK'
    BY <1>2, <2>1 DEF Ownership, OwningOK
  <2> QED BY <2>1, <2>2, <2>3, <2>4
<1>4. PassOK'
  <2>1. CASE Begin
    <3>1. /\ w'.pc = "describe" /\ w'.id = cr.id
          /\ w'.mode = IF cr.phase = "deleting" THEN "delete" ELSE "update"
      BY <2>1 DEF Begin, Go, IdleWorker
    <3> QED BY <1>2, <2>1, <3>1 DEF Begin, PassOK, At
  <2>2. CASE sdkFind
    <3>1. w.pc = "describe" /\ w.mode # "create" /\ w.id = cr.id
      BY <2>2 DEF sdkFind, At, Ownership, PassOK
    <3>2. \/ w'.pc \in {"manage", "release"} /\ (w.id = 0 \/ ~tables[w.id].live)
          \/ w'.pc \in {"found", "failed"}
      BY <1>1, <2>2 DEF sdkFind, Go, Refused, NotFound, onError, Worker
    <3>3. w'.mode = w.mode /\ w'.id = w.id
      BY <1>1, <2>2, <3>1 DEF sdkFind, Go, Refused, NotFound, onError, Worker
    <3>4. (w.id = 0 \/ ~tables[w.id].live) => Owning = {}
      <4>1. Owning \subseteq {w.id}
        BY <3>1 DEF Ownership, OwningOK
      <4> QED BY <1>1, <4>1 DEF Owning, Live
    <3> QED BY <1>2, <1>3, <3>1, <3>2, <3>3, <3>4 DEF Ownership, PassOK, At
  <2>3. CASE ReadFails
    <3>1. w'.pc = "failed" /\ w'.mode = w.mode /\ ~At("idle")
      BY <1>1, <2>3 DEF ReadFails, onError, Worker, At
    <3>2. w'.id = w.id \/ (w.mode = "create" /\ w'.id = cr.id)
      BY <1>1, <2>3 DEF ReadFails, onError, Worker
    <3>3. cr.id < nextId
      BY <1>1 DEF Ownership, IdsOK
    <3> QED BY <1>2, <1>3, <3>1, <3>2, <3>3 DEF Ownership, PassOK, At
  <2>4. CASE \/ customUpdateRouteTable \/ syncTags \/ excludeFromLatest \/ excludeFromDesired
             \/ deleteRoute \/ createRoute \/ syncRoutes \/ refreshStatus
    <3>1. cr.id < nextId
      BY <1>1 DEF Ownership, IdsOK
    <3>2. /\ ~At("idle") /\ w'.mode = w.mode
          /\ w'.pc \notin {"idle", "describe", "manage", "release", "create"}
          /\ w'.id = w.id \/ (w.mode = "create" /\ w'.id = cr.id)
      BY <2>4, PassSteps
    <3> QED BY <1>2, <1>3, <3>1, <3>2 DEF Ownership, PassOK, At
  <2> QED BY <2>1, <2>2, <2>3, <2>4
<1> QED BY <1>2, <1>3, <1>4 DEF Ownership

LEMMA OwnershipCreate ==
  ASSUME RoutesInv, Ownership, setResourceManaged \/ sdkCreate
  PROVE  Ownership' /\ Owning' = Owning
<1>1. /\ w \in Worker /\ TypeOK /\ tables \in [Ids -> Table] /\ recorded \subseteq Ids
      /\ cr \in CR /\ nextId \in Nat \ {0} /\ 0 \notin Ids
  BY TypeOKIs, RouteTableAssumption DEF RoutesInv, Ids
<1>2. CASE setResourceManaged
  <2>1. UNCHANGED <<nextId, recorded>> /\ Live' = Live /\ Owning' = Owning
    BY <1>2 DEF setResourceManaged, Live, Owning
  <2>2. cr.phase = "gone" => cr' = cr /\ w'.pc = "idle"
    BY <1>2 DEF setResourceManaged, IdleWorker
  <2>3. cr.phase # "gone" =>
          /\ cr'.phase = cr.phase /\ cr'.id = cr.id /\ cr'.managed
          /\ w'.pc = "create" /\ w'.mode = "create" /\ w'.id = w.id
    BY <1>1, <1>2 DEF setResourceManaged, CR, Worker
  <2>4. w.pc = "manage" /\ Owning = {} /\ w.id = cr.id
    BY <1>2 DEF setResourceManaged, At, Ownership, PassOK
  <2>5. cr'.id = cr.id /\ cr.id < nextId
    BY <1>1, <2>2, <2>3 DEF Ownership, IdsOK
  <2>6. PhaseOK' /\ OwningOK'
    BY <2>1, <2>2, <2>3, <2>4 DEF Ownership, PhaseOK, OwningOK
  <2>7. IdsOK'
    <3>1. recorded' \cup Live' = recorded \cup Live /\ recorded' = recorded /\ nextId' = nextId
      BY <2>1
    <3> QED BY <2>5, <3>1 DEF Ownership, IdsOK
  <2>8. PassOK'
    BY <2>1, <2>2, <2>3, <2>4, <2>5 DEF PassOK, At
  <2> QED BY <2>1, <2>6, <2>7, <2>8 DEF Ownership
<1>3. CASE sdkCreate
  <2> DEFINE t == [live |-> TRUE, routes |-> {LocalRoute}, tags |-> w.tags]
  <2>1. /\ w.mode = "create" /\ cr.managed /\ Owning = {}
        /\ w.id < nextId /\ (w.id = cr.id \/ w.id \notin recorded)
    BY <1>3 DEF sdkCreate, At, RoutesInv, WorkerOK, Ownership, PassOK
  <2>2. UNCHANGED <<cr, recorded>>
    BY <1>3 DEF sdkCreate
  <2>3. \/ tables' = tables
        \/ nextId \in Ids /\ tables' = [tables EXCEPT ![nextId] = t]
    BY <1>3 DEF sdkCreate, Call, Refused
  <2>4. nextId \notin recorded /\ nextId \notin Live /\ cr.id < nextId
    BY <1>1 DEF Ownership, IdsOK
  <2>5. CASE tables' = tables
    <3>1. nextId' = nextId
      BY <1>3, <2>4, <2>5 DEF sdkCreate, Live, Refused
    <3>2. w'.pc = "failed" /\ w'.mode = "create" /\ w'.id = cr.id
      <4>1. w' = onError
        <5>1. nextId \in Ids => tables # [tables EXCEPT ![nextId] = t]
          BY <1>1, <2>4 DEF Live
        <5> QED BY <1>3, <2>5, <5>1 DEF sdkCreate, Call, Refused
      <4> QED BY <1>1, <2>1, <4>1 DEF onError, Worker
    <3>3. Live' = Live /\ Owning' = Owning
      BY <2>2, <2>5 DEF Live, Owning
    <3>4. PhaseOK' /\ OwningOK'
      BY <2>2, <3>3 DEF Ownership, PhaseOK, OwningOK
    <3>5. IdsOK'
      BY <2>2, <3>1, <3>3 DEF Ownership, IdsOK
    <3>6. PassOK'
      BY <1>3, <2>1, <2>2, <2>4, <3>1, <3>2, <3>3 DEF sdkCreate, Ownership, PassOK, At
    <3> QED BY <3>3, <3>4, <3>5, <3>6 DEF Ownership
  <2>6. CASE nextId \in Ids /\ tables' = [tables EXCEPT ![nextId] = t]
    <3>1. tables'[nextId].live /\ \A j \in Ids : j # nextId => tables'[j] = tables[j]
      BY <1>1, <2>6
    <3>2. nextId' = nextId + 1
      BY <1>3, <2>6, <3>1 DEF sdkCreate
    <3>3. Live' = Live \cup {nextId}
      BY <2>6, <3>1 DEF Live
    <3>4. Owning' = Owning
      BY <2>2, <2>4, <3>3 DEF Owning
    <3>5. /\ w'.mode = "create" /\ w'.pc \in {"failed", "synced", "excludeDesired"}
          /\ w'.id = nextId \/ w'.id = cr.id
      BY <1>1, <1>3, <2>1 DEF sdkCreate, Call, Refused, onError, Worker
    <3>6. PhaseOK' /\ OwningOK'
      BY <2>2, <3>4 DEF Ownership, PhaseOK, OwningOK
    <3>7. IdsOK'
      <4>1. \A i \in recorded \cup Live : i < nextId
        BY DEF Ownership, IdsOK
      <4>2. ASSUME NEW i \in recorded' \cup Live' PROVE i < nextId'
        <5>1. i \in Nat /\ (i < nextId \/ i = nextId)
          BY <1>1, <2>2, <3>3, <4>1 DEF Live, Ids
        <5> QED BY <1>1, <3>2, <5>1
      <4> QED BY <2>2, <4>2 DEF Ownership, IdsOK
    <3>8. PassOK'
      <4>1. w'.id < nextId' /\ (w'.id = cr.id \/ w'.id \notin recorded)
        BY <1>1, <2>4, <3>2, <3>5 DEF CR, Ids
      <4> QED BY <1>3, <2>1, <2>2, <3>4, <3>5, <4>1 DEF sdkCreate, Ownership, PassOK, At
    <3> QED BY <3>4, <3>6, <3>7, <3>8 DEF Ownership
  <2> QED BY <2>3, <2>5, <2>6
<1> QED BY <1>2, <1>3

\* The last steps of a pass: the table goes, then the finalizer; or the status is
\* patched, which is when a new table becomes the CR's.
LEMMA OwnershipEnd ==
  ASSUME RoutesInv, Ownership, sdkDelete \/ setResourceUnmanaged \/ PatchStatus \/ Crash
  PROVE  /\ Ownership'
         /\ \/ cr'.managed = cr.managed /\ (Owning' = Owning \/ Owning' = {})
            \/ ~cr'.managed /\ Owning = {} /\ Owning' = {}
            \/ /\ cr.managed /\ cr'.managed /\ Owning = {}
               /\ \E i \in Owning' : Owning' = {i}
<1>1. /\ w \in Worker /\ TypeOK /\ tables \in [Ids -> Table] /\ recorded \subseteq Ids
      /\ cr \in CR /\ nextId \in Nat \ {0} /\ 0 \notin Ids
  BY TypeOKIs, RouteTableAssumption DEF RoutesInv, Ids
<1>2. CASE sdkDelete
  <2>1. w.pc = "found" /\ w.mode = "delete" /\ w.id = cr.id /\ w.id \in Ids
    BY <1>2, TableInHand DEF sdkDelete, At, InHand, Ownership, PassOK
  <2>2. UNCHANGED <<cr, recorded, nextId>>
    BY <1>2 DEF sdkDelete
  <2>3. CASE tables' = tables /\ w' = onError
    <3>1. Live' = Live /\ Owning' = Owning
      BY <2>2, <2>3 DEF Live, Owning
    <3>2. w'.pc = "failed" /\ w'.mode = "delete" /\ w'.id = cr.id
      BY <1>1, <2>1, <2>3 DEF onError, Worker
    <3>3. PhaseOK' /\ IdsOK' /\ OwningOK'
      BY <2>2, <3>1 DEF Ownership, PhaseOK, IdsOK, OwningOK
    <3>4. PassOK'
      BY <2>1, <2>2, <3>1, <3>2 DEF Ownership, PassOK, At
    <3> QED BY <2>2, <3>1, <3>3, <3>4 DEF Ownership
  <2>4. CASE tables' = [tables EXCEPT ![w.id] = NoTable]
    <3>1. Live' = Live \ {w.id}
      BY <1>1, <2>1, <2>4 DEF Live, NoTable
    <3>2. Owning' = {}
      BY <2>1, <2>2, <3>1 DEF Owning, Ownership, OwningOK
    <3>3. w'.pc \in {"failed", "release"} /\ w'.mode = "delete" /\ w'.id = cr.id
      BY <1>1, <1>2, <2>1 DEF sdkDelete, Call, Refused, onError, Worker
    <3>4. PhaseOK' /\ OwningOK'
      BY <2>2, <3>2 DEF Ownership, PhaseOK, OwningOK
    <3>5. IdsOK'
      BY <2>2, <3>1 DEF Ownership, IdsOK
    <3>6. PassOK'
      BY <2>1, <2>2, <3>2, <3>3 DEF Ownership, PassOK, At
    <3> QED BY <2>2, <3>2, <3>4, <3>5, <3>6 DEF Ownership
  <2>5. CASE tables' = tables /\ w' = [w EXCEPT !.pc = "release"]
    <3>1. onError.pc = "failed" /\ w'.pc = "release"
      BY <1>1, <2>5 DEF onError, Worker
    <3>2. tables' = [tables EXCEPT ![w.id] = NoTable]
      BY <1>2, <3>1 DEF sdkDelete, Call, Refused
    <3> QED BY <2>4, <3>2
  <2> QED BY <1>2, <2>3, <2>4, <2>5 DEF sdkDelete, Call, Refused
<1>3. CASE setResourceUnmanaged
  <2>1. Owning = {} /\ w.pc = "release"
    BY <1>3 DEF setResourceUnmanaged, At, Ownership, PassOK
  <2>2. UNCHANGED <<recorded, nextId>> /\ Live' = Live /\ Owning' = Owning /\ w'.pc = "idle"
    BY <1>3 DEF setResourceUnmanaged, Live, Owning, IdleWorker
  <2>3. cr'.phase = "gone" /\ cr'.managed = FALSE /\ cr'.id = cr.id
    BY <1>1, <1>3 DEF setResourceUnmanaged, CR
  <2>4. IdsOK'
    BY <2>2, <2>3 DEF Ownership, IdsOK
  <2>5. PhaseOK' /\ OwningOK' /\ PassOK'
    BY <2>1, <2>2, <2>3 DEF PhaseOK, OwningOK, PassOK, At
  <2> QED BY <2>1, <2>2, <2>3, <2>4, <2>5 DEF Ownership
<1>4. CASE PatchStatus
  <2>1. ~At("idle") /\ w.pc \in {"synced", "failed"}
    BY <1>4 DEF PatchStatus, At
  <2>2. UNCHANGED nextId /\ Live' = Live /\ w'.pc = "idle"
        /\ recorded' = (recorded \cup {cr'.id}) \ {0}
    BY <1>4 DEF PatchStatus, Live, IdleWorker
  <2>3. PassOK'
    BY <2>2 DEF PassOK, At
  <2>4. CASE cr.phase = "gone" \/ w.id = cr.id
    <3>1. cr'.id = cr.id /\ cr'.phase = cr.phase /\ cr'.managed = cr.managed
      BY <1>1, <1>4, <2>4 DEF PatchStatus, CR
    <3>2. recorded' = recorded /\ Owning' = Owning
      BY <1>1, <2>2, <3>1 DEF Ownership, IdsOK, Owning
    <3>3. PhaseOK' /\ IdsOK' /\ OwningOK'
      BY <2>2, <3>1, <3>2 DEF Ownership, PhaseOK, IdsOK, OwningOK
    <3> QED BY <2>3, <3>1, <3>2, <3>3 DEF Ownership
  <2>5. CASE cr.phase # "gone" /\ w.id # cr.id
    <3>1. w.mode = "create" /\ cr.managed /\ Owning = {} /\ w.id < nextId
      BY <1>1, <2>1, <2>5 DEF Worker, Ownership, PassOK
    <3>2. cr'.id = w.id /\ cr'.phase = cr.phase /\ cr'.managed = cr.managed
      BY <1>1, <1>4, <2>5 DEF PatchStatus, CR
    <3>3. recorded' = recorded \cup ({w.id} \ {0})
      BY <1>1, <2>2, <3>2
    <3>4. Owning' = {w.id} \/ Owning' = {}
      BY <1>1, <2>2, <3>1, <3>3 DEF Owning, Live
    <3>5. PhaseOK' /\ OwningOK'
      BY <3>1, <3>2, <3>4 DEF Ownership, PhaseOK, OwningOK
    <3>6. IdsOK'
      <4>1. \A i \in recorded \cup Live : i < nextId
        BY DEF Ownership, IdsOK
      <4>2. \A i \in recorded' \cup Live' : i < nextId
        BY <2>2, <3>1, <3>3, <4>1
      <4>3. cr'.id \in recorded' \cup {0}
        BY <3>2, <3>3
      <4> QED BY <2>2, <4>2, <4>3 DEF IdsOK
    <3> QED BY <2>3, <3>1, <3>2, <3>4, <3>5, <3>6 DEF Ownership
  <2> QED BY <2>4, <2>5
<1>5. CASE Crash
  <2>1. UNCHANGED <<cr, recorded, nextId>> /\ Live' = Live /\ Owning' = Owning /\ w'.pc = "idle"
    BY <1>5 DEF Crash, Live, Owning, IdleWorker
  <2>2. PhaseOK' /\ IdsOK' /\ OwningOK'
    BY <2>1 DEF Ownership, PhaseOK, IdsOK, OwningOK
  <2> QED BY <2>1, <2>2 DEF Ownership, PassOK, At
<1> QED BY <1>2, <1>3, <1>4, <1>5

LEMMA OwnershipWorld ==
  ASSUME RoutesInv, Ownership, EditSpec \/ DeleteCR \/ RecreateCR \/ Drift
  PROVE  /\ Ownership'
         /\ \/ cr'.managed = cr.managed /\ (Owning' = Owning \/ Owning' = {})
            \/ ~cr'.managed /\ Owning = {} /\ Owning' = {}
<1>1. /\ w \in Worker /\ TypeOK /\ tables \in [Ids -> Table] /\ recorded \subseteq Ids
      /\ cr \in CR /\ nextId \in Nat \ {0} /\ 0 \notin Ids
  BY TypeOKIs, RouteTableAssumption DEF RoutesInv, Ids
<1>2. CASE EditSpec \/ DeleteCR \/ RecreateCR
  <2>1. UNCHANGED <<w, recorded, nextId>> /\ Live' = Live /\ Owning' = Owning
    BY <1>2 DEF EditSpec, DeleteCR, RecreateCR, Live, Owning
  <2>2. CASE EditSpec
    <3>1. cr'.id = cr.id /\ cr'.phase = cr.phase /\ cr'.managed = cr.managed
      BY <1>1, <2>2 DEF EditSpec, CR
    <3>2. PhaseOK' /\ IdsOK' /\ OwningOK' /\ PassOK'
      BY <2>1, <3>1 DEF Ownership, PhaseOK, IdsOK, OwningOK, PassOK, At
    <3> QED BY <2>1, <3>1, <3>2 DEF Ownership
  <2>3. CASE DeleteCR
    <3>1. /\ cr.phase = "live" /\ cr'.id = cr.id /\ cr'.managed = cr.managed
          /\ cr'.phase = IF cr.managed THEN "deleting" ELSE "gone"
      BY <1>1, <2>3 DEF DeleteCR, CR
    <3>2. PhaseOK' /\ OwningOK'
      BY <2>1, <3>1 DEF Ownership, PhaseOK, OwningOK
    <3>3. IdsOK'
      BY <2>1, <3>1 DEF Ownership, IdsOK
    <3>4. PassOK'
      BY <2>1, <3>1 DEF Ownership, PhaseOK, PassOK, At
    <3> QED BY <2>1, <3>1, <3>2, <3>3, <3>4 DEF Ownership
  <2>4. CASE RecreateCR
    <3>1. /\ cr.phase = "gone" /\ cr'.id = 0 /\ cr'.managed = FALSE /\ cr'.phase = "live"
      BY <2>4 DEF RecreateCR, NewCR
    <3>2. ~cr.managed /\ Owning = {}
      BY <3>1 DEF Ownership, PhaseOK, OwningOK
    <3>3. PhaseOK' /\ OwningOK'
      BY <2>1, <3>1, <3>2 DEF PhaseOK, OwningOK
    <3>4. IdsOK'
      BY <2>1, <3>1 DEF Ownership, IdsOK
    <3>5. PassOK'
      BY <2>1, <3>1, <3>2 DEF Ownership, PassOK, At
    <3> QED BY <2>1, <3>1, <3>2, <3>3, <3>4, <3>5 DEF Ownership
  <2> QED BY <1>2, <2>2, <2>3, <2>4
<1>3. CASE Drift
  <2>1. UNCHANGED <<cr, recorded, nextId>>
    BY <1>3 DEF Drift
  <2>2. w'.pc = w.pc /\ w'.mode = w.mode /\ w'.id = w.id
    BY <1>1, <1>3 DEF Drift, Worker
  <2>3. \E i \in Live : Live' = Live \/ Live' = Live \ {i}
    <3>1. PICK i \in Live :
            \/ \E rs : tables' = [tables EXCEPT ![i].routes = rs]
            \/ tables' = [tables EXCEPT ![i] = NoTable]
      BY <1>3 DEF Drift
    <3>2. i \in Ids
      BY DEF Live
    <3>3. CASE tables' = [tables EXCEPT ![i] = NoTable]
      BY <1>1, <3>2, <3>3 DEF Live, NoTable
    <3>4. CASE \E rs : tables' = [tables EXCEPT ![i].routes = rs]
      BY <1>1, <3>2, <3>4, LiveStays
    <3> QED BY <3>1, <3>3, <3>4
  <2>4. Live' \subseteq Live /\ Owning' \subseteq Owning
    BY <2>1, <2>3 DEF Owning
  <2>5. Owning' = Owning \/ Owning' = {}
    BY <2>4 DEF Ownership, OwningOK
  <2>6. PhaseOK' /\ OwningOK'
    BY <2>1, <2>4 DEF Ownership, PhaseOK, OwningOK
  <2>7. IdsOK'
    BY <2>1, <2>4 DEF Ownership, IdsOK
  <2>8. PassOK'
    BY <2>1, <2>2, <2>4 DEF Ownership, PassOK, At
  <2> QED BY <2>1, <2>5, <2>6, <2>7, <2>8 DEF Ownership
<1> QED BY <1>2, <1>3

LEMMA OwnershipNext ==
  ASSUME RoutesInv, Ownership, [Next]_vars
  PROVE  /\ Ownership'
         /\ \/ cr'.managed = cr.managed /\ (Owning' = Owning \/ Owning' = {})
            \/ ~cr.managed /\ cr'.managed /\ Owning' = Owning
            \/ ~cr'.managed /\ Owning = {} /\ Owning' = {}
            \/ /\ cr.managed /\ cr'.managed /\ Owning = {}
               /\ \E i \in Owning' : Owning' = {i}
<1>1. CASE setResourceManaged \/ sdkCreate
  <2>1. Ownership' /\ Owning' = Owning
    BY <1>1, OwnershipCreate
  <2>2. cr \in CR
    BY TypeOKIs DEF RoutesInv
  <2>3. cr'.managed = cr.managed \/ cr'.managed = TRUE
    BY <1>1, <2>2 DEF setResourceManaged, sdkCreate, CR
  <2>4. cr.managed \in BOOLEAN
    BY <2>2 DEF CR
  <2> QED BY <2>1, <2>3, <2>4
<1>2. CASE UNCHANGED vars
  <2>1. Live' = Live /\ Owning' = Owning
    BY <1>2 DEF vars, Live, Owning
  <2>2. PhaseOK' /\ IdsOK' /\ OwningOK' /\ PassOK'
    BY <1>2, <2>1 DEF vars, Ownership, PhaseOK, IdsOK, OwningOK, PassOK, At
  <2> QED BY <1>2, <2>1, <2>2 DEF vars, Ownership
<1>3. CASE sdkDelete \/ setResourceUnmanaged \/ PatchStatus \/ Crash
  BY <1>3, OwnershipEnd
<1>4. CASE EditSpec \/ DeleteCR \/ RecreateCR \/ Drift
  BY <1>4, OwnershipWorld
<1>5. CASE \/ customUpdateRouteTable \/ syncTags \/ excludeFromLatest \/ excludeFromDesired
           \/ deleteRoute \/ createRoute \/ syncRoutes \/ refreshStatus
           \/ ReadFails \/ Begin \/ sdkFind
  BY <1>5, OwnershipPass
<1> QED BY <1>1, <1>2, <1>3, <1>4, <1>5 DEF Next, Reconcile

LEMMA OwnershipInit == Init => Ownership
<1> SUFFICES ASSUME Init PROVE Ownership
  OBVIOUS
<1>1. Live = {} /\ Owning = {} /\ w.pc = "idle" /\ cr.id = 0
      /\ cr.phase = "live" /\ recorded = {}
  BY DEF Init, NewCR, IdleWorker, NoTable, Live, Owning
<1> QED BY <1>1 DEF Ownership, PhaseOK, IdsOK, OwningOK, PassOK, At

LEMMA OwnershipAlways == Spec => []Ownership
<1>1. RoutesInv /\ Ownership /\ [Next]_vars => Ownership'
  BY OwnershipNext
<1> QED BY <1>1, OwnershipInit, RoutesInvAlways, PTL DEF Spec

LEMMA LifecycleStep == RoutesInv /\ Ownership /\ [Next]_vars => [Abs!Next]_(Abs!vars)
<1> SUFFICES ASSUME RoutesInv, Ownership, [Next]_vars
             PROVE  Abs!Next \/ UNCHANGED <<cr.managed, Owning>>
  BY DEF Abs!vars, Owning
<1>1. CASE cr'.managed = cr.managed /\ (Owning' = Owning \/ Owning' = {})
  BY <1>1 DEF Abs!Next, Abs!Vanish, Owning
<1>2. CASE ~cr.managed /\ cr'.managed /\ Owning' = Owning
  <2>1. cr \in CR /\ cr' \in CR
    BY NextType, TypeOKIs, TypeOKWillBe DEF RoutesInv
  <2>2. cr'.managed = TRUE
    BY <1>2, <2>1 DEF CR
  <2> QED BY <1>2, <2>2 DEF Abs!Next, Abs!Claim, Owning
<1>3. CASE ~cr'.managed /\ Owning = {} /\ Owning' = {}
  <2>1. cr' \in CR
    BY NextType, TypeOKWillBe DEF RoutesInv
  <2>2. cr'.managed = FALSE
    BY <1>3, <2>1 DEF CR
  <2> QED BY <1>3, <2>2 DEF Abs!Next, Abs!Release, Owning
<1>4. CASE cr.managed /\ cr'.managed /\ Owning = {} /\ \E i \in Owning' : Owning' = {i}
  <2>1. cr \in CR /\ cr' \in CR
    BY NextType, TypeOKIs, TypeOKWillBe DEF RoutesInv
  <2>2. cr'.managed = cr.managed
    BY <1>4, <2>1 DEF CR
  <2> QED BY <1>4, <2>2 DEF Abs!Next, Abs!Create, Owning
<1> QED BY <1>1, <1>2, <1>3, <1>4, OwnershipNext

\* RouteTable implements Lifecycle: the tables whose id reached the CR's status come
\* one at a time, under the finalizer, which goes last.
THEOREM LifecycleCorrect == Spec => ImplementsLifecycle
<1>1. Init => Abs!Init
  <2> SUFFICES ASSUME Init PROVE Abs!Init
    OBVIOUS
  <2>1. cr.managed = FALSE /\ Owning = {}
    BY DEF Init, NewCR, Owning
  <2> QED BY <2>1 DEF Abs!Init, Owning
<1> QED
  BY <1>1, LifecycleStep, RoutesInvAlways, OwnershipAlways, PTL
     DEF Spec, ImplementsLifecycle, Abs!Spec

=============================================================================
