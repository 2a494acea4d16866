------------------------ MODULE CapacityReservation ------------------------
(***************************************************************************)
(* The capacity reservation controller.                                    *)
(* Source: pkg/resource/capacity_reservation/sdk.go.                       *)
(* A reservation that was cancelled is not live, but still described, and  *)
(* EC2 changes and cancels it no more.  The instance count stands for the  *)
(* fields of the second modify call.                                       *)
(***************************************************************************)
EXTENDS Controller

CONSTANT NoInfo  \* no Spec.AdditionalInfo

\* sdkFind: the additional information is never reported.
sdkFindCapacityReservation ==
  /\ Kind("capacity_reservation")
  /\ Describe([Found EXCEPT !.seen.info = w.spec.info], onError)

newCapacityReservationDelta == DifferentAt({"tags", "count"})

\* What newCreateRequestPayload asks for.
newCapacityReservation ==
  [live |-> TRUE, count |-> w.spec.count, info |-> NoInfo, tags |-> w.spec.tags]

sdkCreateCapacityReservation ==
  /\ Kind("capacity_reservation") /\ At("create")
  /\ CreateObject(newCapacityReservation, [w EXCEPT !.pc = "synced"])

\* mutant of sdkUpdateCapacityReservation: the additional information only.
sdkUpdateCapacityReservation_infoOnly ==
  /\ Kind("capacity_reservation") /\ Updating
  /\ LET differs == "count" \in newCapacityReservationDelta
     IN  Go(Plan(When("tags" \in newCapacityReservationDelta, "tags", {})
                   \o When(differs /\ w.spec.info # NoInfo, "modifyInfo", w.spec.info)
                   \o When(differs /\ w.spec.info = NoInfo, "modifyCount", w.spec.count)
                   \o When(differs, "findReservation", {})))

\* sdkUpdate: the tags, the additional information in a call of its own, the
\* rest, and sdkFind once more.
sdkUpdateCapacityReservation ==
  /\ Kind("capacity_reservation") /\ Updating
  /\ LET differs == "count" \in newCapacityReservationDelta
     IN  Go(Plan(When("tags" \in newCapacityReservationDelta, "tags", {})
                   \o When(differs /\ w.spec.info # NoInfo, "modifyInfo", w.spec.info)
                   \o When(differs, "modifyCount", w.spec.count)
                   \o When(differs, "findReservation", {})))

\* ModifyCapacityReservation, twice.
modifyCapacityReservation ==
  \/ /\ Doing("modifyInfo")
     /\ IF Obj.live THEN Call([Obj EXCEPT !.info = Arg], Done, onError) ELSE Go(onError)
  \/ /\ Doing("modifyCount")
     /\ IF Obj.live THEN Call([Obj EXCEPT !.count = Arg], Done, onError) ELSE Go(onError)

findReservationAfterUpdate ==
  Doing("findReservation") /\ (Go(Done) \/ Unread(onError))

\* CancelCapacityReservation.
sdkDeleteCapacityReservation ==
  /\ Kind("capacity_reservation") /\ Deleting
  /\ IF Obj.live
     THEN Call([Obj EXCEPT !.live = FALSE], [w EXCEPT !.pc = "release"], onError)
     ELSE Go(onError)

CapacityReservationStep ==
  \/ sdkFindCapacityReservation \/ sdkCreateCapacityReservation
  \/ sdkUpdateCapacityReservation \/ modifyCapacityReservation
  \/ findReservationAfterUpdate \/ sdkDeleteCapacityReservation

\* Somebody cancels it.
CapacityReservationDrift(i) == OtherClient(i, [ec2[i] EXCEPT !.live = FALSE])

\* As declared, the additional information aside, though perhaps cancelled.
CapacityReservationIs(obj, spec) == obj.count = spec.count /\ obj.tags = spec.tags
=============================================================================
