----------------------------- MODULE NetworkACL -----------------------------
(***************************************************************************)
(* The network ACL controller: the entries of an ACL and the subnets that  *)
(* use it.  Source: pkg/resource/network_acl/{hooks,sdk}.go.               *)
(*                                                                         *)
(* A subnet always uses one ACL: it is taken from the one it uses, and     *)
(* given back to the default ACL of its VPC.  An entry is a number (one    *)
(* for each direction) and what it says; the default rules of every ACL    *)
(* are filtered out wherever entries are compared, and left out here.      *)
(* Subnets are declared by their id.                                       *)
(***************************************************************************)
EXTENDS Controller

Numbers(entries)  == {e[1] : e \in entries}
Numbered(entries) == \A e, f \in entries : e[1] = f[1] => e = f

sdkFindNetworkACL == Kind("network_acl") /\ Describe(Found, onError)

----------------------------------------------------------------------------
(* What is to be done.                                                     *)

\* An entry that changes leaves toAdd for toUpdate, and the entry it replaces
\* remains in toDelete.
EntryCalls(want, have) ==
  LET missing == want \ have
      changed == {e \in missing : e[1] \in Numbers(have)}
  IN  {create \o delete \o update :
         create \in ForEach("createEntry", missing \ changed),
         delete \in ForEach("deleteEntry", have \ want),
         update \in ForEach("updateEntry", changed)}

\* mutant of syncEntries: two entries of one number are not refused.
syncEntries_unchecked(want, have) == EntryCalls(want, have)

\* syncEntries: no two entries of a spec may have the same number.
syncEntries(want, have) ==
  IF Numbered(want) THEN EntryCalls(want, have) ELSE {When(TRUE, "refuse", {})}

\* mutant of syncAssociation: subnets that are no longer declared are kept.
syncAssociation_addOnly(want, have) ==
  {add \o <<<<"defaultACL", {}>>>> : add \in ForEach("upsert", want \ have)}

\* syncAssociation: a subnet that is to go is listed twice, by its id and by the
\* id of its association.
syncAssociation(want, have) ==
  {add \o <<<<"defaultACL", {}>>>> \o delete :
     add \in ForEach("upsert", want \ have),
     delete \in ForEach("deleteOld", (have \ want) \X {"NetworkACLAssociationID", "SubnetID"})}

----------------------------------------------------------------------------
(* The calls.                                                              *)

\* sdkCreate logs the error of createAssociation and that of createEntries, and
\* goes on with what comes after the calls of `op`; an update returns it.
orLogged(op) ==
  IF w.mode = "create"
  THEN LET left == Cardinality({i \in DOMAIN w.plan : w.plan[i][1] = op})
       IN  [w EXCEPT !.plan = SubSeq(@, left + 1, Len(@)), !.blind = TRUE]
  ELSE onError

sdkCreateNetworkACL ==
  /\ Kind("network_acl") /\ At("create")
  /\ \E subnets \in ForEach("upsert", w.spec.subnets),
        entries \in ForEach("createEntry", w.spec.entries) :
       CreateObject([live |-> TRUE, entries |-> {}, subnets |-> {}, tags |-> w.spec.tags],
                    Plan(subnets \o entries))

\* The associations differ whenever there are any, for those that are read carry
\* their ids and the declared ones do not.
newNetworkACLDelta ==
  DifferentAt({"tags", "entries"})
    \cup (IF w.spec.subnets = {} /\ w.seen.subnets = {} THEN {} ELSE {"subnets"})

\* customUpdateNetworkAcl: the tags, the entries, the associations, sdkFind once
\* more.
customUpdateNetworkAcl ==
  /\ Kind("network_acl") /\ Updating
  /\ \E entries \in syncEntries(w.spec.entries, w.seen.entries),
        subnets \in syncAssociation(w.spec.subnets, w.seen.subnets) :
       Go(Plan(When("tags" \in newNetworkACLDelta, "tags", {})
                 \o entries
                 \o (IF "subnets" \in newNetworkACLDelta THEN subnets ELSE <<>>)
                 \o When(newNetworkACLDelta # {}, "findACL", {})))

\* The error of syncEntries for two entries of one number.
refuseEntries == Doing("refuse") /\ Go(onError)

createEntry ==
  /\ Doing("createEntry")
  /\ IF Obj.live /\ Arg[1] \notin Numbers(Obj.entries)
     THEN Call([Obj EXCEPT !.entries = @ \cup {Arg}], Done, orLogged("createEntry"))
     ELSE Go(orLogged("createEntry"))

\* DeleteNetworkAclEntry names the number.
deleteEntry ==
  /\ Doing("deleteEntry")
  /\ IF Obj.live /\ Arg[1] \in Numbers(Obj.entries)
     THEN Call([Obj EXCEPT !.entries = {e \in @ : e[1] # Arg[1]}], Done, onError)
     ELSE Go(onError)

\* ReplaceNetworkAclEntry refuses a number that is not there.
updateEntry ==
  /\ Doing("updateEntry")
  /\ IF Obj.live /\ Arg[1] \in Numbers(Obj.entries)
     THEN Call([Obj EXCEPT !.entries = {e \in @ : e[1] # Arg[1]} \cup {Arg}], Done, onError)
     ELSE Go(onError)

\* The association of the subnet is looked up and replaced by one with this ACL.
\* If another client comes between, the id that was read means nothing any more.
upsertNewAssociations ==
  /\ Doing("upsert")
  /\ \/ Obj.live /\ Call([Obj EXCEPT !.subnets = @ \cup {Arg}], Done, orLogged("upsert"))
     \/ (~Obj.live \/ w.interfered) /\ Go(orLogged("upsert"))

\* deleteOldAssociations looks the default ACL up, whether it is needed or not.
describeDefaultACL == Doing("defaultACL") /\ (Go(Done) \/ Unread(onError))

\* A subnet is looked up among those of this ACL, an association id is taken as
\* it was read: for either the subnet must still be there.
deleteOldAssociations ==
  /\ Doing("deleteOld")
  /\ \/ /\ Obj.live /\ Arg[1] \in Obj.subnets
        /\ Call([Obj EXCEPT !.subnets = @ \ {Arg[1]}], Done, onError)
     \/ ~Obj.live /\ Go(onError)
     \/ (w.interfered \/ (Obj.live /\ Arg[1] \notin Obj.subnets)) /\ Go(onError)

findACLAfterUpdate ==
  Doing("findACL") /\ (Go(IF Obj.live THEN Done ELSE onError) \/ Unread(onError))

\* sdkDelete: DeleteNetworkAcl refuses an ACL that subnets use.
sdkDeleteNetworkACL ==
  /\ Kind("network_acl")
  /\ \/ /\ Deleting
        /\ \E subnets \in syncAssociation({}, w.seen.subnets) :
             Go(Plan((IF w.seen.subnets # {} THEN subnets ELSE <<>>) \o <<<<"delete", {}>>>>))
     \/ Doing("delete") /\ Delete(Obj.live /\ Obj.subnets = {})

NetworkACLStep ==
  \/ sdkFindNetworkACL \/ sdkCreateNetworkACL \/ customUpdateNetworkAcl
  \/ refuseEntries \/ createEntry \/ deleteEntry \/ updateEntry
  \/ upsertNewAssociations \/ describeDefaultACL \/ deleteOldAssociations
  \/ findACLAfterUpdate \/ sdkDeleteNetworkACL

----------------------------------------------------------------------------
\* Another client gives a subnet another ACL, or removes an entry.
NetworkACLDrift(i) ==
  \/ \E s \in ec2[i].subnets : OtherClient(i, [ec2[i] EXCEPT !.subnets = @ \ {s}])
  \/ \E e \in ec2[i].entries : OtherClient(i, [ec2[i] EXCEPT !.entries = @ \ {e}])

NetworkACLIs(obj, spec) ==
  obj.entries = spec.entries /\ obj.subnets = spec.subnets /\ obj.tags = spec.tags
=============================================================================
