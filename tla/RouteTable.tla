----------------------------- MODULE RouteTable -----------------------------
(***************************************************************************)
(* The RouteTable controller: one custom resource (CR), the route tables   *)
(* created for it in EC2, and the reconciler.  Source:                     *)
(* pkg/resource/route_table/{hooks,sdk}.go.                                *)
(*                                                                         *)
(* A route table has no name EC2 keeps unique: its id, recorded in the     *)
(* CR's status at the end of the pass that creates it, is all that ties    *)
(* the two together.  So there may be several tables, and `tables` holds   *)
(* all that were created on behalf of the CR.                              *)
(*                                                                         *)
(* A route is a pair <<destination, target>>; a table has at most one      *)
(* route to a destination.  A spec is written in the form EC2 reads back.  *)
(***************************************************************************)
EXTENDS Integers, FiniteSets

CONSTANTS
  Destinations,
  Prefixes,      \* destinations that are managed prefix lists
  AWSPrefixes,   \* prefix lists that AWS owns (those of gateway endpoints)
  Targets,
  BadTargets,    \* targets CreateRoute refuses: they do not exist
  LocalRoute,    \* the route every table has for its VPC, target "local"
  Tags,
  SpecRoutes,    \* the route lists a user may declare
  SpecTags,
  MissingIsError,  \* DescribeRouteTables of a dead id: an error, or an empty list
  OthersMayDelete, \* may another AWS client delete a table?
  MaxTables,     \* bound: tables ever created
  MaxFaults,     \* bound: failed calls, lost replies and crashes
  MaxEdits,      \* bound: edits and re-creations of the CR
  MaxDrifts      \* bound: changes made by other AWS clients

Route == Destinations \X Targets

OneRoutePerDestination(routes) ==
  \A r1, r2 \in routes : r1[1] = r2[1] => r1 = r2

ASSUME RouteTableAssumption ==
  /\ AWSPrefixes \subseteq Prefixes /\ Prefixes \subseteq Destinations
  /\ BadTargets \subseteq Targets
  /\ LocalRoute \in (Destinations \ Prefixes) \X (Targets \ BadTargets)
  /\ \A s \in SpecRoutes : s \subseteq Route /\ OneRoutePerDestination(s)
  /\ \A s \in SpecRoutes : \A r \in s : r[1] = LocalRoute[1] <=> r[2] = LocalRoute[2]
  /\ SpecTags \subseteq SUBSET Tags
  /\ MissingIsError \in BOOLEAN /\ OthersMayDelete \in BOOLEAN
  /\ MaxTables \in Nat /\ MaxFaults \in Nat /\ MaxEdits \in Nat /\ MaxDrifts \in Nat

VARIABLES
  cr,        \* the custom resource, as the API server has it
  tables,    \* the tables in EC2, by id; NoTable where there is none
  nextId,    \* the id EC2 gives to the next table
  recorded,  \* the ids a CR's status has ever held
  w,         \* the reconcile worker
  faults, edits, drifts

vars == <<cr, tables, nextId, recorded, w, faults, edits, drifts>>

Ids     == 1 .. MaxTables
NoTable == [live |-> FALSE, routes |-> {}, tags |-> {}]
Live    == {i \in Ids : tables[i].live}

NewCR(routes, tags) ==
  [phase |-> "live", managed |-> FALSE, id |-> 0, routes |-> routes,
   tags |-> tags, synced |-> FALSE]

\* Fields of w: `routes` and `tags` are the desired object the pass started
\* from; `id` is the table in hand; `want` and `have` are the desired and the
\* latest routes that syncRoutes compares; toDelete and toAdd its plan.
\* `plFailed` records that DescribeManagedPrefixLists failed in this pass,
\* `interfered` that another client changed the table after it began.
IdleWorker ==
  [pc |-> "idle", mode |-> "update", id |-> 0, routes |-> {}, tags |-> {},
   seenTags |-> {}, want |-> {}, have |-> {}, toDelete |-> {}, toAdd |-> {},
   plFailed |-> FALSE, interfered |-> FALSE]

At(label) == w.pc = label

----------------------------------------------------------------------------
(* Pure helpers of hooks.go.                                               *)

removeLocalRoute(routes) == {r \in routes : r[2] # LocalRoute[2]}

\* mutant of excludeAWSRoute: the owner of a prefix list is not looked at.
excludeAWSRoute_keep(routes, answered) == routes

\* Drops the routes of the prefix lists that AWS owns.  If
\* DescribeManagedPrefixLists fails, no route to any prefix list is returned,
\* and no error.
excludeAWSRoute(routes, answered) ==
  {r \in routes : r[1] \notin IF answered THEN AWSPrefixes ELSE Prefixes}

\* getRoutesDifference compares all fields of a route.
toAddOf(desired, latest)    == desired \ latest

\* mutant of toDeleteOf: every route is replaced.
toDeleteOf_all(desired, latest) == latest

\* mutant of toDeleteOf: destinations that stay in use are left to CreateRoute.
toDeleteOf_byDestination(desired, latest) ==
  {r \in latest : \A d \in desired : d[1] # r[1]}

toDeleteOf(desired, latest) == latest \ desired

\* mutant of RoutesDiffer: only additions count.
RoutesDiffer_addedOnly(desired, latest) ==
  ~(removeLocalRoute(desired) \subseteq removeLocalRoute(latest))

\* customPreCompare: routes AWS manages are not left out of the comparison.
RoutesDiffer(desired, latest) ==
  removeLocalRoute(desired) # removeLocalRoute(latest)

\* mutant of onError: the table in hand is forgotten by an update too.
onError_forget == [w EXCEPT !.pc = "failed", !.id = 0]

\* What manager.go's onError is given: sdkCreate returns nil with its errors,
\* so the object in hand is the CR as it was, without the id of a new table.
onError == [w EXCEPT !.pc = "failed", !.id = IF w.mode = "create" THEN cr.id ELSE @]

\* An AWS call on the table in hand that EC2 accepts: it takes effect, or is
\* throttled, or takes effect and the reply is lost.
Call(newTables, next) ==
  \/ tables' = newTables /\ w' = next /\ UNCHANGED faults
  \/ /\ faults < MaxFaults
     /\ faults' = faults + 1
     /\ tables' \in {tables, newTables}
     /\ w' = onError

Refused  == w' = onError /\ UNCHANGED <<tables, faults>>
Go(next) == w' = next /\ UNCHANGED <<tables, faults>>

----------------------------------------------------------------------------
(* Reading and creating.                                                   *)

NotFound == [w EXCEPT !.pc = IF w.mode = "delete" THEN "release" ELSE "manage"]

\* The reconciler takes the CR from the queue.
Begin ==
  /\ At("idle")
  /\ cr.phase # "gone"
  /\ Go([IdleWorker EXCEPT
           !.pc = "describe",
           !.mode = IF cr.phase = "deleting" THEN "delete" ELSE "update",
           !.id = cr.id, !.routes = cr.routes, !.tags = cr.tags])
  /\ UNCHANGED <<cr, nextId, recorded, edits, drifts>>

\* mutant of sdkFind: without an id DescribeRouteTables lists every table, and
\* the first, somebody else's, is taken.
sdkFind_anyTable ==
  /\ At("describe")
  /\ IF w.id = 0
     THEN Go([w EXCEPT !.pc = "found", !.id = MaxTables + 1])
     ELSE IF tables[w.id].live
     THEN Go([w EXCEPT !.pc = "found", !.have = tables[w.id].routes,
                       !.seenTags = tables[w.id].tags])
     ELSE IF MissingIsError THEN Refused ELSE Go(NotFound)
  /\ UNCHANGED <<cr, nextId, recorded, edits, drifts>>

\* sdkFind: a CR without an id has no table yet.
sdkFind ==
  /\ At("describe")
  /\ IF w.id = 0 THEN Go(NotFound)
     ELSE IF tables[w.id].live
     THEN Go([w EXCEPT !.pc = "found", !.have = tables[w.id].routes,
                       !.seenTags = tables[w.id].tags])
     ELSE IF MissingIsError THEN Refused ELSE Go(NotFound)
  /\ UNCHANGED <<cr, nextId, recorded, edits, drifts>>

ReadFails ==
  /\ At("describe") \/ At("refresh")
  /\ faults < MaxFaults
  /\ faults' = faults + 1
  /\ w' = onError
  /\ UNCHANGED <<cr, tables, nextId, recorded, edits, drifts>>

\* The runtime puts the finalizer on the CR before it calls Create.
setResourceManaged ==
  /\ At("manage")
  /\ IF cr.phase = "gone"
     THEN w' = IdleWorker /\ UNCHANGED cr
     ELSE /\ w' = [w EXCEPT !.pc = "create", !.mode = "create"]
          /\ cr' = [cr EXCEPT !.managed = TRUE]
  /\ UNCHANGED <<tables, nextId, recorded, faults, edits, drifts>>

\* sdkCreate, the CreateRouteTable call; it carries the tags.
sdkCreate ==
  /\ At("create")
  /\ IF nextId \in Ids
     THEN /\ Call([tables EXCEPT ![nextId] =
                     [live |-> TRUE, routes |-> {LocalRoute}, tags |-> w.tags]],
                  [w EXCEPT !.id = nextId, !.have = {},
                     !.want = w.routes \cup {LocalRoute},
                     !.pc = IF w.routes = {} THEN "synced" ELSE "excludeDesired"])
          /\ nextId' = IF tables'[nextId].live THEN nextId + 1 ELSE nextId
     ELSE Refused /\ UNCHANGED nextId        \* RouteTableLimitExceeded
  /\ UNCHANGED <<cr, recorded, edits, drifts>>

----------------------------------------------------------------------------
(* Updating: the tags, then the routes, then sdkFind once more.            *)

\* The delta the runtime computed, and what customUpdateRouteTable does first.
customUpdateRouteTable ==
  /\ At("found") /\ w.mode = "update"
  /\ Go([w EXCEPT !.want = w.routes,
            !.pc = IF w.tags # w.seenTags THEN "tags"
                   ELSE IF RoutesDiffer(w.routes, w.have) THEN "excludeLatest"
                   ELSE "synced"])
  /\ UNCHANGED <<cr, nextId, recorded, edits, drifts>>

\* tags.Sync: DeleteTags, then CreateTags; it may stop between the two.
syncTags ==
  /\ At("tags")
  /\ LET Tagged(tags) == [tables EXCEPT ![w.id].tags = tags]
         now      == tables[w.id].tags
         removed  == now \ (w.seenTags \ w.tags)
         next     == [w EXCEPT !.pc = IF RoutesDiffer(w.routes, w.have)
                                      THEN "excludeLatest" ELSE "synced"]
     IN  IF tables[w.id].live
         THEN \/ Call(Tagged(removed \cup (w.tags \ w.seenTags)), next)
              \/ /\ faults < MaxFaults /\ faults' = faults + 1
                 /\ tables' = Tagged(removed) /\ w' = onError
         ELSE Refused
  /\ UNCHANGED <<cr, nextId, recorded, edits, drifts>>

\* syncRoutes looks the prefix lists up twice: for the latest routes, then for
\* the desired ones.  A failed look-up is not a failed pass.
DescribeManagedPrefixLists(answered) ==
  \/ answered /\ UNCHANGED faults
  \/ ~answered /\ faults < MaxFaults /\ faults' = faults + 1

excludeFromLatest ==
  /\ At("excludeLatest")
  /\ \E answered \in BOOLEAN :
       /\ DescribeManagedPrefixLists(answered)
       /\ w' = [w EXCEPT !.pc = "excludeDesired",
            !.have = excludeAWSRoute(removeLocalRoute(w.have), answered),
            !.plFailed = ~answered]
  /\ UNCHANGED <<cr, tables, nextId, recorded, edits, drifts>>

excludeFromDesired ==
  /\ At("excludeDesired")
  /\ \E answered \in BOOLEAN :
       LET want == excludeAWSRoute(removeLocalRoute(w.want), answered)
       IN  /\ DescribeManagedPrefixLists(answered)
           /\ w' = [w EXCEPT !.pc = "routes", !.want = want,
                !.toDelete = toDeleteOf(want, w.have),
                !.toAdd = toAddOf(want, w.have),
                !.plFailed = @ \/ ~answered]
  /\ UNCHANGED <<cr, tables, nextId, recorded, edits, drifts>>

\* DeleteRoute names the destination only.  EC2 keeps the local route and the
\* routes of gateway endpoints from it.
deleteRoute ==
  /\ At("routes") /\ w.toDelete # {}
  /\ \E r \in w.toDelete :
       LET now  == tables[w.id].routes
           hit  == {q \in now : q[1] = r[1]}
       IN  IF hit # {} /\ r[1] \notin AWSPrefixes \cup {LocalRoute[1]}
           THEN Call([tables EXCEPT ![w.id].routes = now \ hit],
                     [w EXCEPT !.toDelete = @ \ {r}])
           ELSE Refused
  /\ UNCHANGED <<cr, nextId, recorded, edits, drifts>>

\* CreateRoute: one route per destination, to a target that exists.
createRoute ==
  /\ At("routes") /\ w.toDelete = {}
  /\ \E r \in w.toAdd :
       LET now == tables[w.id].routes
       IN  IF /\ tables[w.id].live
              /\ \A q \in now : q[1] # r[1]
              /\ r[1] \notin AWSPrefixes /\ r[2] \notin BadTargets
           THEN Call([tables EXCEPT ![w.id].routes = now \cup {r}],
                     [w EXCEPT !.toAdd = @ \ {r}])
           ELSE Refused
  /\ UNCHANGED <<cr, nextId, recorded, edits, drifts>>

syncRoutes ==
  /\ At("routes") /\ w.toDelete = {} /\ w.toAdd = {}
  /\ Go([w EXCEPT !.pc = IF w.mode = "create" THEN "synced" ELSE "refresh"])
  /\ UNCHANGED <<cr, nextId, recorded, edits, drifts>>

\* The sdkFind at the end of customUpdateRouteTable; the routes it reads go to
\* Status.RouteStatuses, and its NotFound is an error.
refreshStatus ==
  /\ At("refresh")
  /\ IF tables[w.id].live THEN Go([w EXCEPT !.pc = "synced"]) ELSE Refused
  /\ UNCHANGED <<cr, nextId, recorded, edits, drifts>>

----------------------------------------------------------------------------
(* Deleting, and the end of a pass.                                        *)

sdkDelete ==
  /\ At("found") /\ w.mode = "delete"
  /\ IF tables[w.id].live
     THEN Call([tables EXCEPT ![w.id] = NoTable], [w EXCEPT !.pc = "release"])
     ELSE Refused
  /\ UNCHANGED <<cr, nextId, recorded, edits, drifts>>

setResourceUnmanaged ==
  /\ At("release")
  /\ cr' = [cr EXCEPT !.phase = "gone", !.managed = FALSE]
  /\ w' = IdleWorker
  /\ UNCHANGED <<tables, nextId, recorded, faults, edits, drifts>>

\* The status of the object in hand is patched in.
PatchStatus ==
  /\ At("synced") \/ At("failed")
  /\ cr' = IF cr.phase = "gone" THEN cr
           ELSE [cr EXCEPT !.id = w.id, !.synced = At("synced")]
  /\ recorded' = (recorded \cup {cr'.id}) \ {0}
  /\ w' = IdleWorker
  /\ UNCHANGED <<tables, nextId, faults, edits, drifts>>

\* The controller stops, or its status patch is lost; it starts over.
Crash ==
  /\ ~At("idle")
  /\ faults < MaxFaults
  /\ faults' = faults + 1
  /\ w' = IdleWorker
  /\ UNCHANGED <<cr, tables, nextId, recorded, edits, drifts>>

Reconcile ==
  \/ Begin \/ sdkFind \/ setResourceManaged \/ sdkCreate
  \/ customUpdateRouteTable \/ syncTags \/ excludeFromLatest
  \/ excludeFromDesired \/ deleteRoute \/ createRoute \/ syncRoutes
  \/ refreshStatus \/ sdkDelete \/ setResourceUnmanaged \/ PatchStatus

----------------------------------------------------------------------------
(* The user and the rest of the world.                                     *)

EditSpec ==
  /\ cr.phase = "live"
  /\ edits < MaxEdits /\ edits' = edits + 1
  /\ \E routes \in SpecRoutes, tags \in SpecTags :
       cr' = [cr EXCEPT !.routes = routes, !.tags = tags]
  /\ UNCHANGED <<tables, nextId, recorded, w, faults, drifts>>

\* Without a finalizer the API server drops the object at once.
DeleteCR ==
  /\ cr.phase = "live"
  /\ cr' = [cr EXCEPT !.phase = IF cr.managed THEN "deleting" ELSE "gone"]
  /\ UNCHANGED <<tables, nextId, recorded, w, faults, edits, drifts>>

RecreateCR ==
  /\ cr.phase = "gone"
  /\ edits < MaxEdits /\ edits' = edits + 1
  /\ \E routes \in SpecRoutes, tags \in SpecTags : cr' = NewCR(routes, tags)
  /\ UNCHANGED <<tables, nextId, recorded, w, faults, drifts>>

\* Another client adds or removes a route, a gateway endpoint adds its own, or
\* the table is deleted.
Drift ==
  /\ drifts < MaxDrifts /\ drifts' = drifts + 1
  /\ \E i \in Live :
       \/ \E r \in Route :
            /\ \A q \in tables[i].routes : q[1] # r[1]
            /\ r[2] \notin BadTargets \cup {LocalRoute[2]}
            /\ tables' = [tables EXCEPT ![i].routes = @ \cup {r}]
       \/ \E r \in tables[i].routes \ {LocalRoute} :
            tables' = [tables EXCEPT ![i].routes = @ \ {r}]
       \/ OthersMayDelete /\ tables' = [tables EXCEPT ![i] = NoTable]
  /\ w' = IF At("idle") THEN w ELSE [w EXCEPT !.interfered = TRUE]
  /\ UNCHANGED <<cr, nextId, recorded, faults, edits>>

----------------------------------------------------------------------------
Init ==
  /\ \E routes \in SpecRoutes, tags \in SpecTags : cr = NewCR(routes, tags)
  /\ tables = [i \in Ids |-> NoTable]
  /\ nextId = 1
  /\ recorded = {}
  /\ w = IdleWorker
  /\ faults = 0 /\ edits = 0 /\ drifts = 0

Next ==
  \/ Reconcile \/ ReadFails \/ Crash
  \/ EditSpec \/ DeleteCR \/ RecreateCR \/ Drift

Spec == Init /\ [][Next]_vars

\* Every CR is requeued, after an error and on the resync period.
FairSpec == Spec /\ WF_vars(Reconcile)

----------------------------------------------------------------------------
(* Properties.                                                             *)

Labels ==
  {"idle", "describe", "found", "manage", "create", "tags", "excludeLatest",
   "excludeDesired", "routes", "refresh", "release", "synced", "failed"}

\* Every variable keeps its type.
TypeOK ==
  /\ cr \in [phase: {"live", "deleting", "gone"}, managed: BOOLEAN,
             id: Ids \cup {0}, routes: SpecRoutes, tags: SpecTags, synced: BOOLEAN]
  /\ tables \in [Ids -> [live: BOOLEAN, routes: SUBSET Route, tags: SUBSET Tags]]
  /\ nextId \in 1 .. MaxTables + 1 /\ recorded \subseteq Ids
  /\ w \in [pc: Labels, mode: {"update", "create", "delete"}, id: Ids \cup {0},
            routes: SUBSET Route, tags: SUBSET Tags, seenTags: SUBSET Tags,
            want: SUBSET Route, have: SUBSET Route, toDelete: SUBSET Route,
            toAdd: SUBSET Route, plFailed: BOOLEAN, interfered: BOOLEAN]
  /\ faults \in Nat /\ edits \in Nat /\ drifts \in Nat

\* The routes a controller has a say in: not the local one, and none to a
\* prefix list of AWS.
Owned(routes) == {r \in routes : r # LocalRoute /\ r[1] \notin AWSPrefixes}

Exact(i, routes, tags) ==
  tables[i].live /\ Owned(tables[i].routes) = Owned(routes) /\ tables[i].tags = tags

\* A pass that ends in "synced" leaves exactly the declared routes and tags,
\* unless another client interfered or a prefix-list look-up failed.
SyncedIsExact ==
  At("synced") /\ ~w.interfered /\ ~w.plFailed => Exact(w.id, w.routes, w.tags)

\* syncRoutes frees a destination before it is routed elsewhere: when the
\* deletions are done no route in toAdd meets an existing one.
NeverCollide ==
  At("routes") /\ w.toDelete = {} /\ ~w.interfered /\ ~w.plFailed =>
    \A r \in w.toAdd, q \in tables[w.id].routes : q[1] # r[1]

\* The plan never asks EC2 for what it refuses by principle: to delete the
\* local route or one that a gateway endpoint owns, which would fail every
\* later step of every pass.
PlanIsPermitted ==
  \A r \in w.toDelete : r # LocalRoute /\ r[1] \notin AWSPrefixes

\* The tables whose id was recorded come and go as the abstract specification
\* allows: at most one at a time, under the finalizer, which goes last.
Abs == INSTANCE Lifecycle WITH claimed <- cr.managed, objects <- recorded \cap Live
ImplementsLifecycle == Abs!Spec

\* sdkFind's comment, taken at its word: if the id is missing, the "AWS
\* resource is not created yet".
MissingIdMeansNotCreated ==
  At("manage") /\ w.id = 0 /\ drifts = 0 /\ edits = 0 => Live = {}

\* A declared route that is in place is never taken away by the controller, as
\* long as the prefix lists can be looked up: not one that was in place when the
\* pass read the table, whatever other clients do, and no other one either while
\* they do nothing.  (DeleteRoute names the destination only: it takes a route that
\* another client put in the place of the one the pass read.)
DeclaredRouteStays ==
  [][ drifts' = drifts /\ ~w.plFailed /\ w.mode = "update" /\ w.id # 0 =>
        \A r \in Owned(w.routes) \cap tables[w.id].routes :
          (w.interfered => r \in w.have) => r \in tables'[w.id].routes ]_vars

\* After the last edit, drift and fault a live CR has exactly its routes and
\* tags and says so.
Converges ==
  <>[](cr.phase = "live" /\ (cr.id # 0 => tables[cr.id].live) =>
         cr.synced /\ cr.id # 0 /\ Exact(cr.id, cr.routes, cr.tags))
=============================================================================
