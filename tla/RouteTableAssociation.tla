----------------------- MODULE RouteTableAssociation -----------------------
(***************************************************************************)
(* The route tables of a subnet and of an internet gateway: the same code, *)
(* written out in pkg/resource/subnet/hooks.go and in                      *)
(* pkg/resource/internet_gateway/hooks.go.  EC2 associates either with one *)
(* table at most; without one a subnet falls back to the main table.       *)
(***************************************************************************)
EXTENDS Controller

\* getRouteTableAssociations: the error of DescribeRouteTables is a variable of
\* the loop, which ends; what it has read until then, nothing, is the answer.
getRouteTableAssociations(answered) ==
  IF answered /\ Obj.live THEN Obj.tables ELSE {}

DescribeRouteTables(answered) ==
  /\ \/ answered /\ UNCHANGED faults
     \/ ~answered /\ faults < MaxFaults /\ faults' = faults + 1
  /\ UNCHANGED <<cr, ec2, env>>

\* The end of both sdkFinds.
readRouteTables ==
  /\ At("associations")
  /\ \E answered \in BOOLEAN :
       /\ DescribeRouteTables(answered)
       /\ w' = [w EXCEPT !.pc = "found", !.blind = ~answered,
                  !.seen.tables = getRouteTableAssociations(answered)]

\* mutant of AssociationPlans: every association is replaced.
AssociationPlans_all(want, have) ==
  {disassociate \o associate :
     disassociate \in ForEach("disassociate", have), associate \in ForEach("associate", want)}

\* toDelete, then toAdd.
AssociationPlans(want, have) ==
  {disassociate \o associate :
     disassociate \in ForEach("disassociate", have \ want),
     associate \in ForEach("associate", want \ have)}

\* The associations are read once more, and compared with the declared ones.
updateRouteTableAssociations ==
  /\ Doing("routeTables")
  /\ \E answered \in BOOLEAN :
       /\ DescribeRouteTables(answered)
       /\ \E calls \in AssociationPlans(w.spec.tables, getRouteTableAssociations(answered)) :
            w' = [w EXCEPT !.plan = calls \o Tail(@), !.blind = @ \/ ~answered]

disassociateRouteTable ==
  /\ Doing("disassociate")
  /\ IF Obj.live /\ Arg \in Obj.tables
     THEN Call([Obj EXCEPT !.tables = @ \ {Arg}], Done, onError)
     ELSE Go(onError)

associateRouteTable ==
  /\ Doing("associate")
  /\ IF Obj.live /\ Obj.tables = {}
     THEN Call([Obj EXCEPT !.tables = {Arg}], Done, onError)
     ELSE Go(onError)

RouteTableAssociationStep ==
  \/ readRouteTables \/ updateRouteTableAssociations
  \/ disassociateRouteTable \/ associateRouteTable

\* Another client takes the table of the object i away.
DisassociatedByOthers(i) ==
  ec2[i].tables # {} /\ OtherClient(i, [ec2[i] EXCEPT !.tables = {}])
=============================================================================
