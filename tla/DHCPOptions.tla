---------------------------- MODULE DHCPOptions ----------------------------
(***************************************************************************)
(* The DHCP options controller.                                            *)
(* Source: pkg/resource/dhcp_options/{hooks,sdk}.go.                       *)
(* A VPC has one set of options; detaching one set means associating the   *)
(* default one.  syncVPCs drops the errors of all these calls.             *)
(***************************************************************************)
EXTENDS Controller

\* sdkFind reads the options and the VPCs that have them.
sdkFindDHCPOptions == Kind("dhcp_options") /\ Describe(Found, onError)

\* mutant of syncVPCs: only VPCs that are missing count.
syncVPCs_addOnly(want, have) == ForEach("attachVPC", want \ have)

\* syncVPCs: lo.Difference of the declared VPCs and those that have the options.
syncVPCs(want, have) ==
  {add \o delete : add \in ForEach("attachVPC", want \ have),
                   delete \in ForEach("detachVPC", have \ want)}

newDHCPOptionsDelta == DifferentAt({"vpcs", "tags"})

sdkCreateDHCPOptions ==
  /\ Kind("dhcp_options") /\ At("create")
  /\ \E calls \in syncVPCs(w.spec.vpcs, {}) :
       CreateObject([live |-> TRUE, vpcs |-> {}, tags |-> w.spec.tags], Plan(calls))

\* customUpdateDHCPOptions: the VPCs, sdkFind once more, the tags.
customUpdateDHCPOptions ==
  /\ Kind("dhcp_options") /\ Updating
  /\ \E calls \in syncVPCs(w.spec.vpcs, w.seen.vpcs) :
       LET differ == "vpcs" \in newDHCPOptionsDelta
       IN  Go(Plan((IF differ THEN calls ELSE <<>>) \o When(differ, "find", {})
                     \o When("tags" \in newDHCPOptionsDelta, "tags", {})))

findAfterUpdate ==
  /\ Doing("find")
  /\ Go(IF Obj.live THEN Done ELSE onError) \/ Unread(onError)

\* AssociateDhcpOptions, of these options or of the default ones; if it fails,
\* nobody notices.
Unnoticed == [Done EXCEPT !.blind = TRUE]

attachVPC ==
  /\ Doing("attachVPC")
  /\ IF Obj.live
     THEN Call([Obj EXCEPT !.vpcs = @ \cup {Arg}], Done, Unnoticed)
     ELSE Go(Unnoticed)

detachVPC ==
  /\ Doing("detachVPC")
  /\ IF Obj.live
     THEN Call([Obj EXCEPT !.vpcs = @ \ {Arg}], Done, Unnoticed)
     ELSE Go(Unnoticed)

\* sdkDelete: DeleteDhcpOptions refuses options that are in use.
sdkDeleteDHCPOptions ==
  /\ Kind("dhcp_options")
  /\ \/ /\ Deleting
        /\ \E calls \in syncVPCs({}, w.seen.vpcs) : Go(Plan(calls \o <<<<"delete", {}>>>>))
     \/ Doing("delete") /\ Delete(Obj.live /\ Obj.vpcs = {})

DHCPOptionsStep ==
  \/ sdkFindDHCPOptions \/ sdkCreateDHCPOptions \/ customUpdateDHCPOptions
  \/ findAfterUpdate \/ attachVPC \/ detachVPC \/ sdkDeleteDHCPOptions

DHCPOptionsDrift(i) ==
  \E v \in ec2[i].vpcs : OtherClient(i, [ec2[i] EXCEPT !.vpcs = @ \ {v}])

DHCPOptionsAre(obj, spec) == obj.vpcs = spec.vpcs /\ obj.tags = spec.tags
=============================================================================
