------------------------------ MODULE Instance ------------------------------
(***************************************************************************)
(* The instance controller.  Source: pkg/resource/instance/{hooks,sdk}.go. *)
(* An instance that is shutting down is not live, but still described.     *)
(* Four of the ten attributes of modifyInstanceAttributes stand for all:   *)
(* one that DescribeInstances does not report, one that EC2 changes only   *)
(* while the instance is stopped, one that can be set at launch, and one   *)
(* that cannot.                                                            *)
(***************************************************************************)
EXTENDS Controller

InstanceAttributes ==
  <<"DisableAPITermination", "InstanceType", "SecurityGroupIDs", "SourceDestCheckEnabled">>

isRunning(obj) == obj.state \in {"running", "stopped"}

\* DescribeInstances reports no termination protection: the declared one is
\* taken for the one in place.
ObservedInstance ==
  [Obj EXCEPT !.attrs.DisableAPITermination = w.spec.attrs.DisableAPITermination]

\* sdkFind: a terminated instance is not found, so that a new one is started, and
\* one that does not run is not synced, whatever is done about it in this pass.
sdkFindInstance ==
  /\ Kind("instance")
  /\ Describe(IF Obj.state = "terminated" THEN NotFound
              ELSE [w EXCEPT !.pc = "found", !.seen = ObservedInstance,
                      !.end = IF isRunning(Obj) THEN "synced" ELSE "requeue"],
              NotFound)

newInstanceDelta ==
  DifferentAt({"tags"}) \cup {a \in DOMAIN w.spec.attrs : w.spec.attrs[a] # w.seen.attrs[a]}

\* What newCreateRequestPayload asks for, which leaves the source/destination check
\* to an update.
newInstance ==
  [live |-> TRUE, state |-> "pending", tags |-> w.spec.tags,
   attrs |-> [w.spec.attrs EXCEPT !.SourceDestCheckEnabled = TRUE]]

sdkCreateInstance ==
  /\ Kind("instance") /\ At("create")
  /\ CreateObject(newInstance, [w EXCEPT !.pc = "requeue"])

firstOf(differing) ==
  InstanceAttributes[CHOOSE i \in differing : \A j \in differing : i <= j]

\* mutant of customUpdateInstance: the pass that changed an attribute is done.
customUpdateInstance_one ==
  /\ Kind("instance") /\ Updating
  /\ LET differing == {i \in DOMAIN InstanceAttributes : InstanceAttributes[i] \in newInstanceDelta}
         modify == differing # {} /\ isRunning(w.seen)
     IN  Go(Plan(When("tags" \in newInstanceDelta, "tags", {})
                   \o When(modify, "modifyInstance", firstOf(differing))))

\* customUpdateInstance: the tags, and the first attribute that differs, if the
\* instance runs; after a change of an attribute the pass ends with an error.
customUpdateInstance ==
  /\ Kind("instance") /\ Updating
  /\ LET differing == {i \in DOMAIN InstanceAttributes : InstanceAttributes[i] \in newInstanceDelta}
         modify == differing # {} /\ isRunning(w.seen)
     IN  Go([Plan(When("tags" \in newInstanceDelta, "tags", {})
                    \o When(modify, "modifyInstance", firstOf(differing)))
             EXCEPT !.end = IF modify THEN "failed" ELSE @])

\* ModifyInstanceAttribute.
modifyInstanceAttributes ==
  /\ Doing("modifyInstance")
  /\ IF Obj.live /\ (Arg = "InstanceType" => Obj.state = "stopped")
     THEN Call([Obj EXCEPT !.attrs[Arg] = w.spec.attrs[Arg]], Done, onError)
     ELSE Go(onError)

\* mutant of sdkDeleteInstance: only an instance that runs is terminated.
sdkDeleteInstance_runningOnly ==
  /\ Kind("instance") /\ Deleting
  /\ IF Obj # Gone /\ Obj.state = "running" /\ ~Obj.attrs.DisableAPITermination
     THEN Call([Obj EXCEPT !.live = FALSE, !.state = "shutting-down"],
               [w EXCEPT !.pc = "release"], onError)
     ELSE Go(onError)

\* sdkDelete: TerminateInstances also takes an instance that is shutting down,
\* but none that is protected.
sdkDeleteInstance ==
  /\ Kind("instance") /\ Deleting
  /\ IF Obj # Gone /\ ~Obj.attrs.DisableAPITermination
     THEN Call(IF Obj.live THEN [Obj EXCEPT !.live = FALSE, !.state = "shutting-down"] ELSE Obj,
               [w EXCEPT !.pc = "release"], onError)
     ELSE Go(onError)

InstanceStep ==
  \/ sdkFindInstance \/ sdkCreateInstance \/ customUpdateInstance
  \/ modifyInstanceAttributes \/ sdkDeleteInstance

\* The states of an instance.
InstanceSettles(i) ==
  \/ ec2[i].state = "pending"  /\ Background(i, [ec2[i] EXCEPT !.state = "running"])
  \/ ec2[i].state = "stopping" /\ Background(i, [ec2[i] EXCEPT !.state = "stopped"])
  \/ ec2[i].state = "shutting-down" /\ Background(i, [ec2[i] EXCEPT !.state = "terminated"])
  \/ ec2[i].state = "terminated" /\ Background(i, Gone)

\* Somebody stops it, terminates it, or gives it other groups.
InstanceDrift(i) ==
  \/ ec2[i].state = "running" /\ OtherClient(i, [ec2[i] EXCEPT !.state = "stopping"])
  \/ OtherClient(i, [ec2[i] EXCEPT !.live = FALSE, !.state = "shutting-down"])
  \/ OtherClient(i, [ec2[i] EXCEPT !.attrs.SecurityGroupIDs = {}])

\* Running as declared, the protection aside.
InstanceIs(obj, spec) ==
  /\ obj.live /\ isRunning(obj) /\ obj.tags = spec.tags
  /\ \A a \in DOMAIN spec.attrs \ {"DisableAPITermination"} : obj.attrs[a] = spec.attrs[a]
=============================================================================
