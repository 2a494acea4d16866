---------------------------- MODULE PlainObject ----------------------------
(***************************************************************************)
(* The kinds that are made, tagged and deleted by a call each: elastic IP  *)
(* address, egress-only internet gateway and flow log.  Source:            *)
(* pkg/resource/{elastic_ip_address,egress_only_internet_gateway,flow_log}.*)
(***************************************************************************)
EXTENDS Controller

PlainKinds == {"elastic_ip_address", "egress_only_internet_gateway", "flow_log"}
Plain      == w.spec.kind \in PlainKinds

sdkFindPlain == Plain /\ Describe(Found, onError)

sdkCreatePlain ==
  /\ Plain /\ At("create")
  /\ CreateObject([live |-> TRUE, tags |-> w.spec.tags], [w EXCEPT !.pc = "synced"])

\* CreateFlowLogs may answer without a flow log and without an error: then the
\* CR is reported synced, without an id.
sdkCreateNoFlowLog ==
  /\ Kind("flow_log") /\ At("create")
  /\ Unread([CreateFailed EXCEPT !.pc = "synced"])

customUpdatePlain ==
  Plain /\ Updating /\ Go(Plan(When(DifferentAt({"tags"}) # {}, "tags", {})))

\* mutant of sdkDeletePlain: the answer is not looked at.
sdkDeletePlain_anyAnswer ==
  /\ Plain /\ Deleting
  /\ IF Obj.live
     THEN Call(Gone, [w EXCEPT !.pc = "release"], [w EXCEPT !.pc = "release"])
     ELSE Go(onError)

sdkDeletePlain == Plain /\ Deleting /\ Delete(TRUE)

PlainObjectStep ==
  \/ sdkFindPlain \/ sdkCreatePlain \/ sdkCreateNoFlowLog
  \/ customUpdatePlain \/ sdkDeletePlain

PlainObjectDrift(i) == OtherClient(i, [ec2[i] EXCEPT !.tags = {}])

PlainObjectIs(obj, spec) == obj.tags = spec.tags
=============================================================================
