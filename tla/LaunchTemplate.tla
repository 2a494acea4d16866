--------------------------- MODULE LaunchTemplate ---------------------------
(***************************************************************************)
(* The launch template controller.                                         *)
(* Source: pkg/resource/launch_template/{hooks,sdk}.go.                    *)
(* The versions of a template are numbered from 1 and never change; the    *)
(* status records the latest one, and sdkFind reads the version recorded.  *)
(***************************************************************************)
EXTENDS Controller

\* DescribeLaunchTemplates, by id: the answer that there is none is an error.
sdkFindLaunchTemplate ==
  Kind("launch_template") /\ Describe([Found EXCEPT !.pc = "version"], onError)

\* mutant of setLatestLaunchTemplateAttributes: the first version is read.
setLatestLaunchTemplateAttributes_first ==
  /\ At("version")
  /\ LET read(data) == [w EXCEPT !.pc = "found", !.version = Len(w.seen.data), !.seen.data = data]
     IN  \/ Go([read(Obj.data[1]) EXCEPT !.blind = w.version # Len(w.seen.data)])
         \/ Unread([read(w.spec.data) EXCEPT !.blind = TRUE])

\* setLatestLaunchTemplateAttributes: the recorded version is read.  If that
\* fails, the error is dropped and the declared data are taken for those in place.
setLatestLaunchTemplateAttributes ==
  /\ At("version")
  /\ LET read(data) == [w EXCEPT !.pc = "found", !.version = Len(w.seen.data), !.seen.data = data]
     IN  \/ Go([read(Obj.data[w.version]) EXCEPT !.blind = w.version # Len(w.seen.data)])
         \/ Unread([read(w.spec.data) EXCEPT !.blind = TRUE])

newLaunchTemplateDelta == DifferentAt({"tags", "data", "default"})

\* What newCreateRequestPayload asks for.
newLaunchTemplate ==
  [live |-> TRUE, data |-> <<w.spec.data>>, default |-> 1, tags |-> w.spec.tags]

\* CreateLaunchTemplate refuses a name that is in use.  What it answers, default
\* version 1, becomes the spec of the CR.
sdkCreateLaunchTemplate ==
  /\ Kind("launch_template") /\ At("create")
  /\ IF Live = {}
     THEN CreateObject(newLaunchTemplate, [w EXCEPT !.pc = "patchSpec", !.version = 1])
     ELSE Go(CreateFailed)

patchSpec ==
  /\ Kind("launch_template") /\ At("patchSpec")
  /\ w' = [w EXCEPT !.pc = "synced"]
  /\ cr' = IF cr.phase = "gone" THEN cr ELSE [cr EXCEPT !.spec.default = 1]
  /\ UNCHANGED <<ec2, faults, env>>

\* sdkUpdate: the tags; a new version, if the data differ; and, deferred, the
\* default version.  Without a new version the desired object is returned.
sdkUpdateLaunchTemplate ==
  /\ Kind("launch_template") /\ Updating
  /\ LET changed == "data" \in newLaunchTemplateDelta
         tags    == "tags" \in newLaunchTemplateDelta
         default == "default" \in newLaunchTemplateDelta
     IN  Go(Plan(When(tags, "tags", {})
                   \o When(changed, "newVersion", w.spec.data)
                   \o When(~changed /\ (tags \/ default), "desired", {})
                   \o When(default, "defaultVersion", w.spec.default)))

\* An error of CreateLaunchTemplateVersion is forgotten if the deferred call is
\* still to come: then the update returns neither an object nor an error.
orDeferred ==
  IF Len(w.plan) = 1 THEN onError
  ELSE [w EXCEPT !.plan = <<<<"defaultVersion", w.spec.default>>, <<"nothing", {}>>>>,
                 !.blind = TRUE]

\* A new version has all the data of the spec.
newLaunchTemplateVersion(data) == Append(Obj.data, data)

CreateLaunchTemplateVersion ==
  /\ Doing("newVersion")
  /\ Call([Obj EXCEPT !.data = newLaunchTemplateVersion(Arg)], [Done EXCEPT !.version = Len(Obj.data) + 1],
          orDeferred)

\* ModifyLaunchTemplate refuses a version that there is not.
updateDefaultVersion ==
  /\ Doing("defaultVersion")
  /\ IF Arg \in DOMAIN Obj.data
     THEN Call([Obj EXCEPT !.default = Arg], Done, onError)
     ELSE Go(onError)

\* Neither an object nor an error: no status is patched.
returnNothing == Doing("nothing") /\ Go(IdleWorker)

sdkDeleteLaunchTemplate == Kind("launch_template") /\ Deleting /\ Delete(TRUE)

LaunchTemplateStep ==
  \/ sdkFindLaunchTemplate \/ setLatestLaunchTemplateAttributes
  \/ sdkCreateLaunchTemplate \/ patchSpec \/ sdkUpdateLaunchTemplate
  \/ CreateLaunchTemplateVersion \/ updateDefaultVersion \/ returnNothing
  \/ sdkDeleteLaunchTemplate

\* Somebody makes another version, or the first one the default.
LaunchTemplateDrift(i) ==
  \/ OtherClient(i, [ec2[i] EXCEPT !.data = Append(@, "foreign")])
  \/ ec2[i].default # 1 /\ OtherClient(i, [ec2[i] EXCEPT !.default = 1])

\* The latest version and the default one are as declared.
LaunchTemplateIs(obj, spec) ==
  /\ obj.live /\ obj.data[Len(obj.data)] = spec.data
  /\ obj.default = spec.default /\ obj.tags = spec.tags
=============================================================================
