------------------------------ MODULE Projects ------------------------------
(***************************************************************************)
(* A project (services/projects.ts): its row, its versions, the form that  *)
(* edits it (lib/project-form-value.ts, components/project-form.tsx), the  *)
(* image of each version, the workers and volumes made from it, and its    *)
(* deletion.                                                               *)
(*                                                                         *)
(* An absent text, model or label is "".  Of a worker only what belongs to *)
(* its project is here: WorkerLifecycle has the rest.                      *)
(***************************************************************************)
EXTENDS Naturals, FiniteSets, Sequences

CONSTANTS
    Apps,      \* agent apps
    Models,    \* models they offer
    Ports,     \* ports a form can show; the API takes those below 65536
    Commands,  \* values of postCreateCommand
    Elsewhere, \* projects of other instances, whose exports can be imported
    Boxes,     \* ids workers may get
    Tabs,      \* forms open at once
    MaxVersion \* bound: versions of the project

VARIABLES
    project,  \* the row of `projects`
    versions, \* rows of `project_versions`, in order
    baked,    \* per version, the recipe its image was built from
    baking,   \* builds in flight: `for` is the worker waiting, or "" for a build alone
    boxes,    \* workers of the project: row, container, volumes to attach
    volumes,  \* shared volumes on the daemon
    deletion, \* the deletion in flight
    form,     \* what each tab was opened with
    saved,    \* history: each save left what its form meant
    restored, \* history: a version was restored since the models were last checked
    escaped   \* history: a spawn or a build crossed a deletion, or the daemon refused a removal

vars == <<project, versions, baked, baking, boxes, volumes, deletion, form, saved, restored, escaped>>

None == [none |-> TRUE]
Features == {"node", "own", "bare"}  \* of the catalog; of the user, with its ref; without it
SharedVolumes == {"cache"}
Optional(values) == values \cup {""}
ConfigFields == {"command", "features", "apps", "ports", "volumes"}
Config == [command : Optional(Commands), features : SUBSET Features, apps : SUBSET Apps,
           ports : SUBSET Ports, volumes : SUBSET SharedVolumes]
Form == [command : Optional(Commands), features : SUBSET Features, apps : SUBSET Apps,
         ports : SUBSET Ports, volumes : SUBSET SharedVolumes,
         models : [Apps -> Optional(Models)], labels : [Ports -> Optional({"web"})]]
(* An orphan has a container, and a row that does not know it. *)
Box == [pc : {"image", "bake", "volumes", "create", "up", "orphan", "failed"}, config : Config,
        version : 1..MaxVersion]
NoBox == [pc |-> "none"]

ProjectTypes ==
    /\ project = None \/ /\ [f \in DOMAIN project \ {"version"} |-> project[f]] \in Form
                         /\ project.version \in 1..MaxVersion
    /\ \A v \in DOMAIN versions : versions[v] \in Config
    /\ boxes \in [Boxes -> Box \cup {NoBox}] /\ volumes \subseteq SharedVolumes
    /\ \A b \in baking : b.version \in 1..MaxVersion /\ b.for \in Optional(Boxes)
    /\ \A t \in Tabs : form[t] = None \/ form[t].value \in Form
    /\ deletion = None \/ deletion.pc \in {"workers", "volumes", "images", "row"}
    /\ {saved, restored, escaped} \subseteq BOOLEAN

-----------------------------------------------------------------------------
(* The form. *)

noModel == [a \in Apps |-> ""]
noLabel == [p \in Ports |-> ""]
defaultApps == {"claude"} \* DEFAULT_TASK_SETTINGS: apps of a new project

newProjectFormValue ==
    [command |-> "", features |-> {}, apps |-> defaultApps, ports |-> {}, volumes |-> {},
     models |-> noModel, labels |-> noLabel]
fromProject(p) == [f \in DOMAIN p \ {"version"} |-> p[f]]

(* An export has no apps, and names a feature of the user's by its id alone *)
(* once it is read back.                                                    *)
exportProject(p) == [f \in DOMAIN p \ {"apps", "version"} |-> p[f]]
fromExport(spec) ==
    [newProjectFormValue EXCEPT
        !.command = spec.command, !.ports = spec.ports, !.volumes = spec.volumes,
        !.labels = spec.labels,
        !.features = {IF f = "own" THEN "bare" ELSE f : f \in spec.features},
        !.models = [a \in Apps |-> IF a \in defaultApps THEN spec.models[a] ELSE ""]]

cleanPortsAttributes(ports, labels) == [p \in Ports |-> IF p \in ports THEN labels[p] ELSE ""]
Allowed(models, apps) == [a \in Apps |-> IF a \in apps THEN models[a] ELSE ""]
valid(ports) == {p \in ports : p > 0 /\ p < 65536}

(* A patch is a function on the fields it has: an empty text is no field. *)
toProjectPayload(value) ==
    LET sent == [value EXCEPT !.ports = valid(value.ports),
                              !.labels = cleanPortsAttributes(value.ports, value.labels),
                              !.models = Allowed(value.models, value.apps)]
    IN  [f \in {g \in DOMAIN value : g # "command" \/ value.command # ""} |-> sent[f]]

(* What a person makes of a form between opening and saving it: one change. *)
(* A new project is saved as the form or the import has it: an import can   *)
(* have anything.                                                           *)
Edits(value) ==
    {value}
    \cup {[value EXCEPT !.command = c] : c \in Optional(Commands)}
    \cup {[value EXCEPT !.apps = s] : s \in SUBSET Apps}
    \cup {[value EXCEPT !.ports = s] : s \in {{}, Ports}}
    \cup {[value EXCEPT !.ports = {p}, !.labels[p] = "web"] : p \in Ports}
    \cup {[value EXCEPT !.features = {f}, !.volumes = SharedVolumes] : f \in {"node", "own"}}
    \cup {[value EXCEPT !.models[a] = m] : a \in value.apps, m \in Optional(Models)}

-----------------------------------------------------------------------------
(* Saving. *)

exists == project # None
buildVersionConfig(p) == [f \in ConfigFields |-> p[f]]
createVersion(p) == versions' = Append(versions, buildVersionConfig(p))
Given(patch, f, old) == IF f \in DOMAIN patch THEN patch[f] ELSE old
checkAgentApps(apps, models) == \A a \in Apps : models[a] # "" => a \in apps

ModelsAfter(patch, apps) ==
    IF "models" \in DOMAIN patch THEN patch["models"] ELSE Allowed(project.models, apps)

keptModels(patch, apps) ==  \* mutant: what an app switched off leaves is checked, not written
    IF "models" \in DOMAIN patch THEN patch["models"] ELSE project.models
NewModels(patch, apps) ==
    IF {"apps", "models"} \cap DOMAIN patch # {} THEN ModelsAfter(patch, apps) ELSE project.models

everyField == {"models", "labels", "apps"}  \* mutant: the apps of the image count as a setting
unversioned == {"models", "labels"}

labelsOfOld(patch) ==  \* mutant: the labels are kept to the ports of before
    cleanPortsAttributes(project.ports, Given(patch, "labels", project.labels))
LabelsAfter(patch) ==
    cleanPortsAttributes(Given(patch, "ports", project.ports), Given(patch, "labels", project.labels))

(* The row after an accepted patch: settings at once, the rest as a version. *)
Merged(patch) ==
    LET apps == Given(patch, "apps", project.apps)
        minted == DOMAIN patch \ unversioned # {} IN
    [project EXCEPT
        !.models = NewModels(patch, apps),
        !.labels = IF {"ports", "labels"} \cap DOMAIN patch # {} THEN LabelsAfter(patch) ELSE @,
        !.command = Given(patch, "command", @), !.features = Given(patch, "features", @),
        !.apps = apps, !.ports = Given(patch, "ports", @), !.volumes = Given(patch, "volumes", @),
        !.version = IF minted THEN @ + 1 ELSE @]

updateProject(patch) ==
    LET next == Merged(patch) checked == {"apps", "models"} \cap DOMAIN patch # {} IN
    /\ exists
    /\ checked => checkAgentApps(next.apps, ModelsAfter(patch, next.apps))
    /\ next.version <= MaxVersion
    /\ project' = next
    /\ IF next.version # project.version THEN createVersion(next) ELSE UNCHANGED versions
    /\ restored' = (restored /\ ~checked)
    /\ UNCHANGED <<baked, baking, boxes, volumes, deletion, escaped>>

createProject(payload) ==
    /\ ~exists /\ versions = <<>>
    /\ checkAgentApps(payload["apps"], payload["models"])
    /\ project' = [f \in DOMAIN newProjectFormValue \cup {"version"} |->
          CASE f = "version" -> 1
            [] f = "labels" -> cleanPortsAttributes(payload["ports"], payload["labels"])
            [] OTHER -> Given(payload, f, "")]
    /\ versions' = <<buildVersionConfig(project')>>
    /\ UNCHANGED <<baked, baking, boxes, volumes, deletion, restored, escaped>>

(* A form takes its value when it opens, and keeps it. *)
Opened(t, value) ==
    /\ form' = [form EXCEPT ![t] = [value |-> value, editing |-> exists]]
    /\ UNCHANGED <<project, versions, baked, baking, boxes, volumes, deletion, saved, restored,
                   escaped>>
openForm(t) ==
    /\ form[t] = None
    /\ \/ exists /\ Opened(t, fromProject(project))
       \/ versions = <<>> /\ Opened(t, newProjectFormValue)
       \/ versions = <<>> /\ \E p \in Elsewhere : Opened(t, fromExport(exportProject(p)))

(* What a person takes a form to say. *)
Meant(shown) ==
    [shown EXCEPT !.ports = valid(@), !.labels = cleanPortsAttributes(valid(shown.ports), @),
                  !.models = Allowed(@, shown.apps),
                  !.command = IF @ = "" /\ exists THEN project.command ELSE @]

submit(t) ==
    /\ form[t] # None
    /\ \E shown \in IF form[t].editing THEN Edits(form[t].value) ELSE {form[t].value} :
          /\ \/ form[t].editing /\ updateProject(toProjectPayload(shown))
             \/ ~form[t].editing /\ createProject(toProjectPayload(shown))
          /\ saved' = (saved /\ fromProject(project') = Meant(shown))
    /\ form' = [form EXCEPT ![t] = None]

(* The PATCH route takes any part of a project. *)
Patch ==
    /\ \/ \E s \in SUBSET Apps : updateProject([f \in {"apps"} |-> s])
       \/ \E a \in Apps, m \in Optional(Models) :
             updateProject([f \in {"models"} |-> [noModel EXCEPT ![a] = m]])
       \/ \E s \in {{}, valid(Ports)} : updateProject([f \in {"ports"} |-> s])
       \/ updateProject([f \in {"labels"} |-> [p \in Ports |-> "web"]])
    /\ UNCHANGED <<form, saved>>

restoreVersion(v) ==
    /\ exists /\ v \in DOMAIN versions /\ project.version < MaxVersion
    /\ project' = [f \in DOMAIN project |->
                     IF f \in ConfigFields THEN versions[v][f]
                     ELSE IF f = "version" THEN project.version + 1 ELSE project[f]]
    /\ versions' = Append(versions, versions[v])
    /\ restored' = TRUE
    /\ UNCHANGED <<baked, baking, boxes, volumes, deletion, form, saved, escaped>>

-----------------------------------------------------------------------------
(* Images and workers. *)

(* What effectiveFeatures puts in an image. *)
Recipe(config) == [features |-> config.features, apps |-> config.apps]
Build(config, version, for) ==
    baking' = baking \cup {[recipe |-> Recipe(config), version |-> version, for |-> for]}
(* A build that starts or ends once a deletion has begun is not its business. *)
Crosses == escaped' = (escaped \/ deletion # None \/ ~exists)

triggerBuild(force) ==
    /\ exists /\ (force \/ baked[project.version] = None)
    /\ Build(project, project.version, "")
    /\ Crosses
    /\ UNCHANGED <<project, versions, baked, boxes, volumes, deletion, form, saved, restored>>

spawnWorker(w) ==
    /\ exists /\ boxes[w] = NoBox
    /\ boxes' = [boxes EXCEPT ![w] = [pc |-> "image", config |-> buildVersionConfig(project),
                                      version |-> project.version]]
    /\ Crosses
    /\ UNCHANGED <<project, versions, baked, baking, volumes, deletion, form, saved, restored>>

Goes(w, pc) == boxes' = [boxes EXCEPT ![w].pc = pc]

ensureProjectImage(w) ==
    /\ boxes[w].pc = "image"
    /\ IF baked[boxes[w].version] # None THEN Goes(w, "volumes") /\ UNCHANGED baking
       ELSE Goes(w, "bake") /\ Build(boxes[w].config, boxes[w].version, w)
    /\ Crosses
    /\ UNCHANGED <<project, versions, baked, volumes, deletion, form, saved, restored>>

BuildEnds(b) ==
    /\ b \in baking /\ baking' = baking \ {b}
    /\ \E ok \in BOOLEAN :
          /\ baked' = IF ok THEN [baked EXCEPT ![b.version] = b.recipe] ELSE baked
          /\ IF b.for # "" /\ boxes[b.for].pc = "bake"
               THEN Goes(b.for, IF ok THEN "volumes" ELSE "failed") ELSE UNCHANGED boxes
    /\ Crosses
    /\ UNCHANGED <<project, versions, volumes, deletion, form, saved, restored>>

(* Volumes first, the container that has them later. *)
ensureVolumes(w) ==
    /\ boxes[w].pc = "volumes" /\ Goes(w, "create")
    /\ volumes' = volumes \cup boxes[w].config.volumes
    /\ Crosses
    /\ UNCHANGED <<project, versions, baked, baking, deletion, form, saved, restored>>

(* What was created may not start: the row has its id only once it is up. *)
spawnContainer(w) ==
    /\ boxes[w].pc = "create"
    /\ \/ Goes(w, "failed")
       \/ baked[boxes[w].version] # None /\ \E pc \in {"up", "orphan"} : Goes(w, pc)
    /\ Crosses
    /\ UNCHANGED <<project, versions, baked, baking, volumes, deletion, form, saved, restored>>

starting == {w \in Boxes : boxes[w].pc \in {"image", "bake", "volumes", "create"}}
created(w) == boxes[w].pc = "create" /\ baked[boxes[w].version] # None
Restart ==
    /\ baking' = {} /\ deletion' = None
    /\ \E cut \in SUBSET {w \in Boxes : created(w)} :
          boxes' = [w \in Boxes |->
              IF w \in cut THEN [boxes[w] EXCEPT !.pc = "orphan"]
              ELSE IF w \in starting THEN [boxes[w] EXCEPT !.pc = "failed"] ELSE boxes[w]]
    /\ UNCHANGED <<project, versions, baked, volumes, form, saved, restored, escaped>>

-----------------------------------------------------------------------------
(* Deletion: containers, then what they held, then the row. *)

up == {w \in Boxes : boxes[w].pc = "up"}
orphans == {w \in Boxes : boxes[w].pc = "orphan"}
attached == UNION {boxes[w].config.volumes : w \in up \cup orphans}
used == {boxes[w].version : w \in up \cup orphans}

volumesFirst == <<"volumes", "workers", "images", "row">>  \* mutant: while workers hold them
removalOrder == <<"workers", "volumes", "images", "row">>
after(pc) == removalOrder[1 + CHOOSE i \in 1..3 : removalOrder[i] = pc]

deleteProject ==
    /\ exists /\ deletion = None
    /\ deletion' = [pc |-> removalOrder[1], rows |-> {w \in Boxes : boxes[w] # NoBox}]
    /\ escaped' = (escaped \/ starting # {} \/ baking # {})
    /\ UNCHANGED <<project, versions, baked, baking, boxes, volumes, form, saved, restored>>

Done == deletion' = [deletion EXCEPT !.pc = after(@)]

(* A container the daemon will not remove is left behind, and one whose id *)
(* the row has not is not asked for.                                       *)
removeWorkerContainer ==
    /\ deletion # None /\ deletion.pc = "workers"
    /\ IF deletion.rows = {} THEN Done /\ UNCHANGED <<boxes, escaped>>
       ELSE \E w \in deletion.rows :
              /\ deletion' = [deletion EXCEPT !.rows = @ \ {w}]
              /\ \/ /\ boxes' = [boxes EXCEPT ![w].pc = IF @ = "up" THEN "failed" ELSE @]
                    /\ UNCHANGED escaped
                 \/ w \in up /\ escaped' = TRUE /\ UNCHANGED boxes
    /\ UNCHANGED <<project, versions, baked, baking, volumes, form, saved, restored>>

removeProjectVolumes ==
    /\ deletion # None /\ deletion.pc = "volumes"
    /\ volumes' = volumes \cap attached
    /\ Done
    /\ UNCHANGED <<project, versions, baked, baking, boxes, form, saved, restored, escaped>>

removeProjectImages ==
    /\ deletion # None /\ deletion.pc = "images"
    /\ baked' = [v \in 1..MaxVersion |-> IF v \in used THEN baked[v] ELSE None]
    /\ Done
    /\ UNCHANGED <<project, versions, baking, boxes, volumes, form, saved, restored, escaped>>

(* The rows of workers and versions go with it. *)
deleteRow ==
    /\ deletion # None /\ deletion.pc = "row"
    /\ project' = None /\ deletion' = None
    /\ UNCHANGED <<versions, baked, baking, boxes, volumes, form, saved, restored, escaped>>

-----------------------------------------------------------------------------
Init ==
    /\ project = None /\ versions = <<>> /\ baked = [v \in 1..MaxVersion |-> None]
    /\ baking = {} /\ boxes = [w \in Boxes |-> NoBox] /\ volumes = {}
    /\ deletion = None /\ form = [t \in Tabs |-> None] /\ saved = TRUE
    /\ restored = FALSE /\ escaped = FALSE

Events ==
    \/ \E t \in Tabs : submit(t)
    \/ \E v \in 1..MaxVersion : restoreVersion(v)
    \/ \E w \in Boxes : spawnWorker(w)
    \/ \E force \in BOOLEAN : triggerBuild(force)
    \/ Patch \/ deleteProject

Steps ==
    \/ \E t \in Tabs : openForm(t)
    \/ \E w \in Boxes : ensureProjectImage(w) \/ ensureVolumes(w) \/ spawnContainer(w)
    \/ \E b \in baking : BuildEnds(b)
    \/ removeWorkerContainer \/ removeProjectVolumes \/ removeProjectImages \/ deleteRow
    \/ Restart

Next == Events \/ Steps
Spec == Init /\ [][Next]_vars

-----------------------------------------------------------------------------
(* The image of a version was built from that version: a build takes       *)
(* minutes, its tag is chosen when it starts, and the project may have     *)
(* been edited, restored or rebuilt by then.                               *)
ImageIsItsVersion ==
    \A v \in 1..MaxVersion : baked[v] # None => baked[v] = Recipe(versions[v])

(* A default model is of an app the project allows, whichever of the form, *)
(* the route and an older patch came last.  Not after a restore, which     *)
(* brings back the apps of a version and leaves the models as they are.    *)
ModelsAreAllowed == exists /\ ~restored => checkAgentApps(project.apps, project.models)

(* A save leaves what the form showed, though somebody else saved since it *)
(* was opened: but for a port no service can have, the label of a port and *)
(* the model of an app that are off, and a command that was emptied, which *)
(* a patch cannot say and the row keeps.                                   *)
SavesWhatItShows == saved

(* A project deleted leaves on the daemon nothing but what a container no row *)
(* knows still holds, though the control plane restarted halfway through an   *)
(* earlier deletion: unless a spawn or a build was on its way, or the daemon  *)
(* would not remove a container.                                              *)
deleted == versions # <<>> /\ ~exists /\ ~escaped
DeletedLeavesNothing ==
    deleted => /\ up = {} /\ volumes \subseteq attached
               /\ \A v \in 1..MaxVersion : baked[v] # None => v \in used
=============================================================================
