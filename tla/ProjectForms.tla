---------------------------- MODULE ProjectForms ----------------------------
(***************************************************************************)
(* The screen a project is composed on (components/project-form.tsx): what *)
(* is typed, the check of a hand-typed extension against the registry, an  *)
(* import that replaces the form, the save and the removal of secrets that *)
(* follows it.  Projects has the row's versions and what other forms do.   *)
(*                                                                         *)
(* React draws after the value has changed: what is typed is a change to   *)
(* what is drawn.  A text is a member of a small set, "" when empty; one   *)
(* that begins with a space is trimmed where the code trims.               *)
(***************************************************************************)
EXTENDS Naturals, FiniteSets, Sequences

LOCAL INSTANCE SequencesExt

CONSTANTS
    Wellformed, \* extension ids somebody may type, by their grammar
    Known,      \* those the registry has
    SecretNames,
    MaxChanges, \* bound: changes typed
    MaxSaves    \* bound: saves asked for

VARIABLES
    stored,   \* the project's row, None before it is created
    kept,     \* its secrets
    value,    \* the value of the form
    drawn,    \* the value that is on screen
    asking,   \* verdicts in flight
    searched, \* ids the registry's search has returned
    vouched,  \* history: ids that came in without a verdict
    handoff,  \* the import the dashboard left for the form
    saving,   \* the save in flight, or the last one
    changes, saves

vars == <<stored, kept, value, drawn, asking, searched, vouched, handoff, saving, changes, saves>>

None == [none |-> TRUE]
Typed == Wellformed \cup {"malformed"}
VolumeNames == {"", "n", " n", "N"}
Paths == {"", "/d", "/d/", "/workspace/x"}
Landing == {"", "/a", "a"}

Repo == [id : Nat, url : {"", "u"}, label : {"", "u", "p"}]
SharedVolume == [name : VolumeNames, path : Paths]
blankVolume == [name |-> "", path |-> ""]

newProjectFormValue ==
    [name |-> "", extensions |-> {}, repos |-> <<>>, volumes |-> <<>>, version |-> "",
     landing |-> "", drafts |-> {}, removed |-> {}]
fromProject(p) ==
    [newProjectFormValue EXCEPT !.name = p.name, !.extensions = p.extensions, !.repos = p.repos,
        !.volumes = p.volumes, !.version = p.version, !.landing = p.landing]

(* Files somebody may import: one has ids nobody asked about, a row that     *)
(* names no address; one two volumes on one path; one two rows of one id.     *)
Exports ==
    {[newProjectFormValue EXCEPT !.name = "e", !.extensions = Typed,
        !.repos = <<[id |-> 7, url |-> "", label |-> "p"]>>],
     [newProjectFormValue EXCEPT !.name = "e",
        !.volumes = <<[name |-> "n", path |-> "/d"], [name |-> "m", path |-> "/d/"]>>],
     [newProjectFormValue EXCEPT !.name = "e",
        !.repos = <<[id |-> 7, url |-> "u", label |-> "p"], [id |-> 7, url |-> "u", label |-> "u"]>>]}

-----------------------------------------------------------------------------
(* What is sent. *)

trim(t) == IF t = " n" THEN "n" ELSE t
normalizeMountPath(path) == IF path = "/d/" THEN "/d" ELSE path
isDeclaredVolume(v) == trim(v.name) # "" \/ v.path # ""

(* A row without an address is no repository; one without a label has its address's. *)
cloned(r) == [r EXCEPT !.label = IF @ = "" THEN r.url ELSE @]
toProjectPayload(v) ==
    [name |-> v.name, extensions |-> v.extensions, version |-> v.version,
     repos |-> LET rows == SelectSeq(v.repos, LAMBDA r : r.url # "")
               IN [i \in DOMAIN rows |-> cloned(rows[i])],
     volumes |-> LET rows == SelectSeq(v.volumes, isDeclaredVolume)
                 IN [i \in DOMAIN rows |-> [rows[i] EXCEPT !.name = trim(@)]],
     landing |-> IF v.landing = "a" THEN "" ELSE v.landing,
     secrets |-> {d \in v.drafts : d.value # ""}]

validateSharedVolumes(volumes) ==
    /\ \A v \in Range(volumes) : trim(v.name) \in {"n", "m"} /\ normalizeMountPath(v.path) = "/d"
    /\ \A i, j \in DOMAIN volumes : i # j =>
          /\ trim(volumes[i].name) # trim(volumes[j].name)
          /\ normalizeMountPath(volumes[i].path) # normalizeMountPath(volumes[j].path)
validateProjectPayload(p) ==
    p.name # "" /\ p.extensions \subseteq Wellformed /\ validateSharedVolumes(p.volumes)

-----------------------------------------------------------------------------
(* What is typed. *)

(* The package numbers new rows from 1 on each page; a row that has the id   *)
(* of one before it gets an id nobody has.                                    *)
minted == 1 + changes
fresh(i) == 100 + 10 * changes + i
withUniqueRepoIds(repos) ==
    [i \in DOMAIN repos |->
        IF \E j \in 1..(i - 1) : repos[j].id = repos[i].id THEN [repos[i] EXCEPT !.id = fresh(i)]
        ELSE repos[i]]

RepoRows(repos) ==
    {Append(repos, [id |-> minted, url |-> u, label |-> ""]) : u \in {"", "u"}}
    \cup {SelectSeq(repos, LAMBDA r : r.id # id) : id \in {r.id : r \in Range(repos)}}
    \cup {[i \in DOMAIN repos |-> IF repos[i].id = id THEN [repos[i] EXCEPT !.url = u] ELSE repos[i]] :
          id \in {r.id : r \in Range(repos)}, u \in {"", "u"}}

SharedVolumeRows(volumes) ==
    (IF Len(volumes) < 2 THEN {Append(volumes, blankVolume)} ELSE {})
    \cup {RemoveAt(volumes, i) : i \in DOMAIN volumes}
    \cup UNION {{[volumes EXCEPT ![i].name = n] : n \in VolumeNames} : i \in DOMAIN volumes}
    \cup UNION {{[volumes EXCEPT ![i].path = p] : p \in Paths} : i \in DOMAIN volumes}

FeatureVersions == {"", "18"}

(* One change to what is drawn. *)
Edits ==
    {[drawn EXCEPT !.name = n] : n \in {"", "e"}}
    \cup {[drawn EXCEPT !.extensions = @ \cup {id}] : id \in Typed}
    \cup {[drawn EXCEPT !.extensions = @ \ {id}] : id \in drawn.extensions}
    \cup {[drawn EXCEPT !.repos = r] : r \in RepoRows(drawn.repos)}
    \cup {[drawn EXCEPT !.volumes = v] : v \in SharedVolumeRows(drawn.volumes)}
    \cup {[drawn EXCEPT !.version = v] : v \in FeatureVersions}
    \cup {[drawn EXCEPT !.landing = p] : p \in Landing}
    \cup {[drawn EXCEPT !.drafts = @ \cup {[name |-> n, value |-> v]}] : n \in SecretNames, v \in {"", "new"}}
    \cup {[drawn EXCEPT !.removed = @ \cup {s.id}] : s \in kept}

(* An id is new if it was not drawn: one that a verdict has taken off since  *)
(* comes back with any other change, and is not asked about again.           *)
handleChange(next) ==
    LET added == next.extensions \ drawn.extensions
        back == (next.extensions \cap drawn.extensions) \ value.extensions IN
    /\ value' = [next EXCEPT !.extensions = @ \ (added \ Wellformed),
                             !.repos = withUniqueRepoIds(@)]
    /\ asking' = asking \cup {[id |-> id, since |-> changes] :
                              id \in (added \cap Wellformed) \ searched}
    /\ vouched' = vouched \cup back

Fills == handoff = None /\ saving.pc # "saved"

Type ==
    /\ Fills /\ changes < MaxChanges /\ changes' = changes + 1
    /\ \E next \in Edits \ {drawn} : handleChange(next)
    /\ UNCHANGED <<stored, kept, drawn, searched, handoff, saving, saves>>

Draw ==
    /\ drawn # value /\ drawn' = value
    /\ UNCHANGED <<stored, kept, value, asking, searched, vouched, handoff, saving, changes, saves>>

(* A registry that cannot be reached does not say an id is unknown. *)
verifyExtension(ask) ==
    /\ ask \in asking /\ asking' = asking \ {ask}
    /\ \/ ask.id \in Known /\ UNCHANGED <<value, vouched>>
       \/ /\ ask.id \notin Known /\ vouched' = vouched \ {ask.id}
          /\ value' = [value EXCEPT !.extensions = @ \ {ask.id}]
       \/ vouched' = vouched \cup {ask.id} /\ UNCHANGED value
    /\ UNCHANGED <<stored, kept, drawn, searched, handoff, saving, changes, saves>>

searchExtensions ==
    /\ Fills /\ searched' = Known
    /\ UNCHANGED <<stored, kept, value, drawn, asking, vouched, handoff, saving, changes, saves>>

(* An import comes whole, with extensions nobody asked about. *)
applyImport(spec) == value' = spec /\ vouched' = spec.extensions

Handoff ==
    /\ handoff # None /\ handoff' = None /\ applyImport(handoff)
    /\ UNCHANGED <<stored, kept, drawn, asking, searched, saving, changes, saves>>

importFile ==
    /\ Fills /\ stored = None
    /\ \E spec \in Exports : applyImport(spec)
    /\ UNCHANGED <<stored, kept, drawn, asking, searched, handoff, saving, changes, saves>>

-----------------------------------------------------------------------------
(* The save: the project, then the secrets that were removed, one by one. *)

Idle == [pc |-> "idle"]
Goes(pc) == saving' = [saving EXCEPT !.pc = pc]

submit ==
    /\ Fills /\ saving.pc \in {"idle", "failed"} /\ saves < MaxSaves
    /\ validateProjectPayload(toProjectPayload(drawn))
    /\ saving' = [pc |-> "sent", of |-> drawn, new |-> stored = None, left |-> drawn.removed,
                  before |-> kept]
    /\ saves' = saves + 1
    /\ UNCHANGED <<stored, kept, value, drawn, asking, searched, vouched, handoff, changes>>

setProjectSecret(secrets, given) ==
    {[s EXCEPT !.value = IF s.name \in {d.name : d \in given} THEN "new" ELSE @] : s \in secrets}
    \cup {[id |-> <<d.name, saves>>, name |-> d.name, value |-> d.value] :
          d \in {d \in given : d.name \notin {s.name : s \in secrets}}}

(* The API has the validation of the form, and normalizes the paths. *)
Stored(p) ==
    stored' = [f \in DOMAIN p \ {"secrets"} |->
        IF f = "volumes"
          THEN [i \in DOMAIN p.volumes |-> [p.volumes[i] EXCEPT !.path = normalizeMountPath(@)]]
          ELSE p[f]]

(* Anything may fail it: a field that is not here, the network on the way or back. *)
Serve ==
    LET p == toProjectPayload(saving.of) IN
    /\ saving.pc = "sent"
    /\ \/ Goes("failed") /\ UNCHANGED <<stored, kept>>
       \/ /\ Stored(p) /\ kept' = setProjectSecret(kept, p.secrets)
          /\ IF saving.new THEN Goes("saved") ELSE Goes("removing") \/ Goes("failed")
    /\ UNCHANGED <<value, drawn, asking, searched, vouched, handoff, changes, saves>>

deleteProjectSecret ==
    /\ saving.pc = "removing"
    /\ IF saving.left = {} THEN Goes("saved") /\ UNCHANGED kept
       ELSE \E id \in saving.left :
              \/ /\ kept' = {s \in kept : s.id # id}
                 /\ saving' = [saving EXCEPT !.left = @ \ {id}] \/ Goes("failed")
              \/ Goes("failed") /\ UNCHANGED kept
    /\ UNCHANGED <<stored, value, drawn, asking, searched, vouched, handoff, changes, saves>>

(* The page of the project, and its form opened again. *)
EditProjectPage ==
    /\ saving.pc = "saved" /\ saving' = Idle
    /\ value' = fromProject(stored) /\ drawn' = value'
    /\ vouched' = stored.extensions /\ searched' = {} /\ asking' = {}
    /\ UNCHANGED <<stored, kept, handoff, changes, saves>>

-----------------------------------------------------------------------------
Project ==
    [name |-> "e", extensions |-> {}, version |-> "", landing |-> "",
     repos |-> <<[id |-> 1, url |-> "u", label |-> "u"]>>,
     volumes |-> <<[name |-> "n", path |-> "/d"]>>]

(* A new project, one handed over by the dashboard, or one that exists. *)
Init ==
    /\ stored \in {None, Project} /\ handoff \in {None} \cup IF stored = None THEN Exports ELSE {}
    /\ kept = IF stored = None THEN {} ELSE {[id |-> <<n, 0>>, name |-> n, value |-> "old"] : n \in SecretNames}
    /\ value = IF stored = None THEN newProjectFormValue ELSE fromProject(stored)
    /\ drawn = value /\ asking = {} /\ searched = {} /\ vouched = value.extensions
    /\ saving = Idle /\ changes = 0 /\ saves = 0

Events == Type \/ searchExtensions \/ importFile \/ submit
Steps ==
    \/ Draw \/ Handoff \/ Serve \/ deleteProjectSecret \/ EditProjectPage
    \/ \E ask \in asking : verifyExtension(ask)

-----------------------------------------------------------------------------
ProjectFormTypes ==
    /\ value.extensions \subseteq Typed /\ drawn.extensions \subseteq Typed
    /\ \A r \in Range(value.repos) : r \in Repo
    /\ \A v \in Range(value.volumes) : v.path \in Paths
    /\ value.landing \in Landing /\ value.version \in FeatureVersions
    /\ \A s \in kept : s.name \in SecretNames /\ s.value \in {"old", "new"}
    /\ \A ask \in asking : ask.id \in Wellformed
    /\ searched \subseteq Known /\ vouched \subseteq Typed
    /\ saving.pc \in {"idle", "sent", "removing", "failed", "saved"}
    /\ changes \in 0..MaxChanges /\ saves \in 0..MaxSaves

(* An extension the registry does not have stays in the form only as long as *)
(* its verdict is out: but for one that came with the project or an import,   *)
(* one the registry could not be asked about, and one that a change typed     *)
(* before its verdict was drawn brought back.                                  *)
UnknownIsCaught ==
    value.extensions \ Known \subseteq vouched \cup {ask.id : ask \in asking}

(* Two rows of a form are never one repository, whatever was typed; but as a *)
(* file gave them, and as they were saved since, until the next change.        *)
ReposStayApart ==
    \/ \E spec \in Exports : value.repos = spec.repos
    \/ stored # None /\ value.repos = stored.repos
    \/ \A i, j \in DOMAIN value.repos : i # j => value.repos[i].id # value.repos[j].id

(* A save that succeeded left what was drawn when it was asked for: the       *)
(* volumes and repositories that were filled in, each under one path or id,   *)
(* however many attempts it took.                                             *)
RowsAreSaved ==
    saving.pc = "saved" =>
        /\ Range(stored.volumes) =
              {[name |-> trim(v.name), path |-> normalizeMountPath(v.path)] :
               v \in {v \in Range(saving.of.volumes) : isDeclaredVolume(v)}}
        /\ validateSharedVolumes(stored.volumes)
        /\ {r.id : r \in Range(stored.repos)} =
              {r.id : r \in {r \in Range(saving.of.repos) : r.url # ""}}

(* A save that succeeded removed the secrets that were removed, though an     *)
(* earlier attempt had removed them already, set those that were given, and   *)
(* left the others alone.  Not one that was removed and given again: it is    *)
(* set, then removed.                                                          *)
SecretsAreSaved ==
    saving.pc = "saved" =>
        /\ \A s \in kept : s.id \notin saving.of.removed
        /\ \A d \in saving.of.drafts : d.value # "" =>
              \/ \E s \in kept : s.name = d.name /\ s.value = d.value
              \/ \E s \in saving.before : s.name = d.name /\ s.id \in saving.of.removed
        /\ \A s \in saving.before : s.id \notin saving.of.removed =>
              \E k \in kept : k.id = s.id /\ (k.value = s.value \/ s.name \in {d.name : d \in saving.of.drafts})
=============================================================================
