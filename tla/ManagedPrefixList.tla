------------------------- MODULE ManagedPrefixList -------------------------
(***************************************************************************)
(* The managed prefix list controller.                                     *)
(* Source: pkg/resource/managed_prefix_list/{hooks,sdk,manager}.go.        *)
(* EC2 makes and changes a list in the background: `next` are the entries  *)
(* it will have then.  A change of the entries makes a new version.  Of    *)
(* the status only whether the state is final matters later: `version` of  *)
(* the CR is 1 if it is.                                                   *)
(***************************************************************************)
EXTENDS Controller

\* IsSynced's states, but for the failed deletion.
Final(obj) == obj.state \in {"create-complete", "modify-complete", "modify-failed"}

Reported(final) ==
  [w EXCEPT !.version = IF final THEN 1 ELSE 0, !.end = IF final THEN "synced" ELSE "requeue"]

\* sdkFind: the list, with its state and version, and then its entries.
sdkFindManagedPrefixList ==
  Kind("managed_prefix_list") /\ Describe([Found EXCEPT !.pc = "entries"], onError)

getManagedPrefixListEntries ==
  /\ At("entries")
  /\ \/ Go([Reported(Final(w.seen)) EXCEPT !.pc = "found", !.seen.entries = Obj.entries])
     \/ Unread(onError)

newManagedPrefixListDelta == DifferentAt({"tags", "entries", "max"})

\* What newCreateRequestPayload asks for.
newManagedPrefixList ==
  [live |-> TRUE, state |-> "create-in-progress", version |-> 1, entries |-> {},
   next |-> w.spec.entries, max |-> w.spec.max, tags |-> w.spec.tags]

\* CreateManagedPrefixList answers create-in-progress.
sdkCreateManagedPrefixList ==
  /\ Kind("managed_prefix_list") /\ At("create")
  /\ CreateObject(newManagedPrefixList, [w EXCEPT !.pc = "requeue", !.version = 0])

\* customUpdateManagedPrefixList: the tags, and everything else in one call.  If
\* it is only the tags, the state that counts is the one recorded last, which may
\* be out of date.
customUpdateManagedPrefixList ==
  /\ Kind("managed_prefix_list") /\ Updating
  /\ LET tags   == "tags" \in newManagedPrefixListDelta
         modify == newManagedPrefixListDelta \cap {"entries", "max"} # {}
     IN  Go([Plan(When(tags, "tags", {})
                    \o When(modify, "modifyList", {})
                    \o When(tags /\ ~modify, "desired", {}))
             EXCEPT !.end = IF tags /\ ~modify
                            THEN IF cr.version = 1 THEN "synced" ELSE "requeue"
                            ELSE @,
                    !.blind = tags /\ ~modify /\ cr.version = 1 /\ ~Final(w.seen)])

\* mutant of modifyAccepted: the version read is not sent.
modifyAccepted_anyVersion ==
  /\ Obj.live /\ Final(Obj)
  /\ w.spec.entries = w.seen.entries \/ w.spec.max = w.seen.max

\* EC2 changes a list at rest, of the version read, and not its entries and their
\* maximal number at once.
modifyAccepted ==
  /\ Obj.live /\ Final(Obj) /\ Obj.version = w.seen.version
  /\ w.spec.entries = w.seen.entries \/ w.spec.max = w.seen.max

computeEntriesToAdd(desired, latest)    == desired \ latest
computeEntriesToRemove(desired, latest) == latest \ desired

\* ModifyManagedPrefixList, with the entries to add and those to remove.
ModifyManagedPrefixList ==
  /\ Kind("managed_prefix_list") /\ Doing("modifyList")
  /\ IF modifyAccepted
     THEN Call([Obj EXCEPT !.state = "modify-in-progress", !.max = w.spec.max,
                  !.next = (Obj.entries \ computeEntriesToRemove(w.spec.entries, w.seen.entries))
                             \cup computeEntriesToAdd(w.spec.entries, w.seen.entries)],
               [Reported(FALSE) EXCEPT !.plan = Tail(@)], onError)
     ELSE Go(onError)

sdkDeleteManagedPrefixList ==
  /\ Kind("managed_prefix_list") /\ Deleting
  /\ Delete(Final(Obj))

ManagedPrefixListStep ==
  \/ sdkFindManagedPrefixList \/ getManagedPrefixListEntries \/ sdkCreateManagedPrefixList
  \/ customUpdateManagedPrefixList \/ ModifyManagedPrefixList \/ sdkDeleteManagedPrefixList

\* What is in progress completes, or, if it is a change, fails.
ManagedPrefixListSettles(i) ==
  \/ /\ ec2[i].state = "create-in-progress"
     /\ Background(i, [ec2[i] EXCEPT !.state = "create-complete", !.entries = ec2[i].next])
  \/ /\ ec2[i].state = "modify-in-progress"
     /\ Background(i, [ec2[i] EXCEPT !.state = "modify-complete", !.entries = ec2[i].next,
                         !.version = @ + (IF ec2[i].next # ec2[i].entries THEN 1 ELSE 0)])

ManagedPrefixListFails(i) ==
  /\ ec2[i].state = "modify-in-progress"
  /\ faults < MaxFaults /\ faults' = faults + 1
  /\ ec2' = [ec2 EXCEPT ![i].state = "modify-failed", ![i].next = ec2[i].entries]
  /\ UNCHANGED <<cr, w, env>>

\* Somebody else's change of the entries is accepted.
ManagedPrefixListDrift(i) ==
  /\ Final(ec2[i])
  /\ \E e \in ec2[i].entries :
       OtherClient(i, [ec2[i] EXCEPT !.state = "modify-in-progress", !.next = @ \ {e}])

ManagedPrefixListIs(obj, spec) ==
  obj.live /\ obj.entries = spec.entries /\ obj.max = spec.max /\ obj.tags = spec.tags
=============================================================================
