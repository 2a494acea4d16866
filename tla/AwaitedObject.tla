--------------------------- MODULE AwaitedObject ---------------------------
(***************************************************************************)
(* An object that EC2 makes, changes and deletes in its own time.  One     *)
(* that is on its way out is not live, but described until it is Gone.     *)
(***************************************************************************)
EXTENDS Controller

\* How a pass ends that finds the object `ready`, and what is recorded of it.
ReportReady(next, ready) ==
  [next EXCEPT !.version = IF ready THEN 1 ELSE 0, !.end = IF ready THEN "synced" ELSE "requeue"]

\* A requeue error instead of an object, or along with it.
RequeueLater == [w EXCEPT !.pc = "requeue"]

\* The Delete call is answered at once, and again while the deletion goes on.
Retire ==
  IF Obj # Gone /\ Obj.state # "deleted"
  THEN Call([Obj EXCEPT !.live = FALSE, !.state = "deleting"], [w EXCEPT !.pc = "release"], onError)
  ELSE Go(onError)

Becomes(i, from, to) ==
  ec2[i] # Gone /\ ec2[i].state = from /\ Background(i, [ec2[i] EXCEPT !.state = to])

\* EC2 completes what it has begun, and in the end forgets the object.
AwaitedSettles(i) ==
  \/ Becomes(i, "pending", "available")
  \/ Becomes(i, "modifying", "available")
  \/ Becomes(i, "deleting", "deleted")
  \/ ec2[i] # Gone /\ ec2[i].state = "deleted" /\ Background(i, Gone)

\* EC2 cannot make the object.
AwaitedFails(i) ==
  /\ ec2[i] # Gone /\ ec2[i].state \in {"pending", "initiating-request"}
  /\ faults < MaxFaults /\ faults' = faults + 1
  /\ ec2' = [ec2 EXCEPT ![i].state = "failed"]
  /\ UNCHANGED <<cr, w, env>>

\* Somebody else deletes it.
AwaitedDrift(i) == OtherClient(i, [ec2[i] EXCEPT !.live = FALSE, !.state = "deleting"])
=============================================================================
