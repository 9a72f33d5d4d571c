---------------------------- MODULE ServiceForms ----------------------------
(***************************************************************************)
(* How a shared service is declared: the page and its form                 *)
(* (app/(app)/services/page.tsx, components/service-form.tsx), what the    *)
(* API accepts of it (lib/validation.ts), what is stored (createService,   *)
(* updateService) and what becomes of it: the container's command and      *)
(* environment, and the addresses workers are told.  SharedServices has    *)
(* when containers come and go.                                            *)
(*                                                                         *)
(* A slug is the sequence of its labels; a command the sequence of its     *)
(* characters; another text is a member of a small set, "" when empty, and *)
(* one that begins with a space is trimmed where the code trims.           *)
(***************************************************************************)
EXTENDS Naturals, FiniteSets, Sequences

LOCAL INSTANCE SequencesExt

CONSTANTS
    Ids,      \* ids services may get
    Slugs,    \* labels somebody may type
    Presets,  \* SERVICE_PRESETS
    Argvs,    \* commands somebody may mean, each a sequence of words
    Secrets,  \* names of global secrets
    MaxTyped, \* bound: changes made to an open form
    MaxRows   \* bound: rows of a list of the form

VARIABLES
    rows,      \* rows of `services`
    up,        \* services neither stopped nor failed
    secrets,   \* global secrets there are
    container, \* per service, what its container was created with
    list,      \* the rows as the page last had them
    editing,   \* "" no form, "new", or the service edited
    form,      \* the value of the form
    typed,     \* changes made to it
    save,      \* the request in flight
    shown,     \* history: per service, the form of its last save
    unforeseen \* history: the API refused what the form's guard let through

vars == <<rows, up, secrets, container, list, editing, form, typed, save, shown, unforeseen>>

None == [none |-> TRUE]
TooLong == <<"more than 40 characters">>
Label == Slugs \cup {TooLong, <<"no label">>, <<>>}
Numerals == {"", "x", "25", "80", "70000"}
VariableNames == {"", "N", "1"}
Volume == {"", "data", " data", "Data"}
Mounts == {"", "/d", " /d", "d"}

EnvRow == [name : VariableNames, value : {"", "v"}, secretName : Secrets \cup {""}, useSecret : BOOLEAN]
PortRow == [container : Numerals, host : Numerals]
VolumeRow == [name : Volume, mountPath : Mounts]
EMPTY_SERVICE_FORM ==
    [slug |-> <<>>, description |-> "", image |-> "", command |-> <<>>, env |-> <<>>,
     ports |-> <<>>, volumes |-> <<>>, httpPort |-> ""]
NoSave == [pc |-> "idle"]

-----------------------------------------------------------------------------
(* Texts. *)

toNumber == [d \in Numerals |-> CASE d = "25" -> 25 [] d = "80" -> 80 [] d = "70000" -> 70000 [] OTHER -> 0]
toText(n) == CHOOSE d \in Numerals \ {"x"} : toNumber[d] = n
trim(t) == CASE t = " data" -> "data" [] t = " /d" -> "/d" [] OTHER -> t

(* A command as somebody writes it: a word that has spaces or quotes, or     *)
(* nothing, is quoted with a quote that it has not.                           *)
Quoted(word) ==
    IF word # <<>> /\ Range(word) \cap {" ", "'", "\""} = {} THEN word
    ELSE LET q == IF "'" \in Range(word) THEN "\"" ELSE "'" IN <<q>> \o word \o <<q>>
Written(argv) ==
    FoldLeft(LAMBDA text, word : IF text = <<>> THEN Quoted(word) ELSE text \o <<" ">> \o Quoted(word),
             <<>>, argv)
Texts == {Written(argv) : argv \in Argvs} \cup {<<>>, <<" ">>}
blank(text) == Range(text) \subseteq {" "}

(* tokenizeCommand: quotes are taken off, a quoted nothing is a word. *)
Reading == [out |-> <<>>, current |-> <<>>, quote |-> "", started |-> FALSE]
wordEnds(r) ==
    IF r.current # <<>> \/ r.started THEN [Reading EXCEPT !.out = Append(r.out, r.current)]
    ELSE r
readChar(r, ch) ==
    CASE r.quote # "" -> IF ch = r.quote THEN [r EXCEPT !.quote = ""]
                         ELSE [r EXCEPT !.current = Append(@, ch)]
      [] r.quote = "" /\ ch \in {"'", "\""} -> [r EXCEPT !.quote = ch, !.started = TRUE]
      [] r.quote = "" /\ ch = " " -> wordEnds(r)
      [] OTHER -> [r EXCEPT !.current = Append(@, ch)]
tokenizeCommand(text) == wordEnds(FoldLeft(readChar, Reading, text)).out

-----------------------------------------------------------------------------
(* Form to row and back. *)

(* A number that is null is 0, a text that is null is "" or <<>>. *)
fromEnv(e) ==
    [name |-> e.name, value |-> IF e.secret THEN "" ELSE e.is,
     secretName |-> IF e.secret THEN e.is ELSE "", useSecret |-> e.secret]
fromService(row) ==
    [slug |-> row.slug, description |-> row.description, image |-> row.image,
     command |-> row.command,
     env |-> [i \in DOMAIN row.env |-> fromEnv(row.env[i])],
     ports |-> [i \in DOMAIN row.ports |->
                   [container |-> toText(row.ports[i].container), host |-> toText(row.ports[i].host)]],
     volumes |-> row.volumes, httpPort |-> toText(row.httpPort)]

fromPreset(p) ==
    [EMPTY_SERVICE_FORM EXCEPT !.slug = p.slug, !.image = "i", !.description = "d",
        !.command = p.command, !.httpPort = toText(p.httpPort),
        !.env = [i \in DOMAIN p.env |-> fromEnv(p.env[i])],
        !.ports = [i \in DOMAIN p.ports |-> [container |-> toText(p.ports[i]), host |-> ""]],
        !.volumes = p.volumes]

(* Blank rows are dropped. *)
named(e) == e.name # "" /\ (e.useSecret => e.secretName # "")
sent(e) == [name |-> e.name, secret |-> e.useSecret, is |-> IF e.useSecret THEN e.secretName ELSE e.value]
numbers(p) == [container |-> toNumber[p.container], host |-> toNumber[p.host]]
toServicePayload(v) ==
    [slug |-> v.slug, description |-> v.description, image |-> v.image,
     command |-> IF blank(v.command) THEN <<>> ELSE v.command,
     env |-> LET kept == SelectSeq(v.env, named) IN [i \in DOMAIN kept |-> sent(kept[i])],
     ports |-> LET kept == SelectSeq(v.ports, LAMBDA p : toNumber[p.container] # 0)
               IN [i \in DOMAIN kept |-> numbers(kept[i])],
     volumes |-> SelectSeq(v.volumes, LAMBDA m : trim(m.name) # "" /\ m.mountPath # ""),
     httpPort |-> toNumber[v.httpPort]]

(* Of a slug the shape, not the length. *)
validateServiceForm(v) ==
    /\ v.slug \in Slugs \cup {TooLong} /\ v.image # ""
    /\ \A e \in Range(v.env) : e.name # "" => e.name # "1" /\ (e.useSecret => e.secretName # "")
    /\ \A m \in Range(v.volumes) :
          trim(m.name) # "" \/ m.mountPath # "" => trim(m.name) = "data" /\ trim(m.mountPath) = "/d"
    /\ toNumber[v.httpPort] # 0 =>
          \E p \in Range(v.ports) : toNumber[p.container] = toNumber[v.httpPort]

(* CreateServiceSchema, UpdateServiceSchema. *)
ServiceSchema(b) ==
    /\ b.slug \in Slugs /\ b.image # ""
    /\ \A e \in Range(b.env) : e.name = "N"
    /\ \A p \in Range(b.ports) : p.container <= 65535 /\ p.host <= 65535
    /\ \A m \in Range(b.volumes) : m.name = "data" /\ m.mountPath = "/d"
    /\ b.httpPort <= 65535

(* Known to pass the guard and be refused: a slug too long, ports too large, a space *)
(* around the name of a volume or before its path.                                   *)
unmirrored(b) ==
    \/ b.slug = TooLong
    \/ \E p \in Range(b.ports) : p.container > 65535 \/ p.host > 65535
    \/ \E m \in Range(b.volumes) : m.name # trim(m.name) \/ m.mountPath # trim(m.mountPath)

-----------------------------------------------------------------------------
(* The page. *)

Opened(what, v) ==
    /\ editing' = what /\ form' = v
    /\ UNCHANGED <<rows, up, secrets, container, list, typed, save, shown, unforeseen>>

New == editing = "" /\ Opened("new", EMPTY_SERVICE_FORM)
Edit(s) == list[s] # None /\ Opened(s, fromService(list[s]))
Preset(p) == editing = "new" /\ Opened("new", fromPreset(p))
Cancel == editing # "" /\ save.pc = "idle" /\ Opened("", EMPTY_SERVICE_FORM)

(* One change to a list of rows: a row more, a row less, a row changed. *)
Rows(seq, empty, Changed(_)) ==
    (IF Len(seq) < MaxRows THEN {Append(seq, empty)} ELSE {})
    \cup {RemoveAt(seq, i) : i \in DOMAIN seq}
    \cup UNION {{[seq EXCEPT ![i] = r] : r \in Changed(seq[i])} : i \in DOMAIN seq}

ChangedEnv(e) ==
    {[e EXCEPT !.name = n] : n \in VariableNames} \cup {[e EXCEPT !.useSecret = ~@]}
    \cup IF e.useSecret THEN {[e EXCEPT !.secretName = n] : n \in secrets}
         ELSE {[e EXCEPT !.value = v] : v \in {"", "v"}}
ChangedPort(p) ==
    {[p EXCEPT !.container = d] : d \in Numerals} \cup {[p EXCEPT !.host = d] : d \in Numerals}
ChangedVolume(m) ==
    {[m EXCEPT !.name = n] : n \in Volume \ {"Data"}} \cup {[m EXCEPT !.mountPath = d] : d \in Mounts}

Changes ==
    {[form EXCEPT !.slug = l] : l \in Label}
    \cup {[form EXCEPT !.image = i] : i \in {"", "i"}}
    \cup {[form EXCEPT !.description = d] : d \in {"", "d"}}
    \cup {[form EXCEPT !.command = c] : c \in Texts}
    \cup {[form EXCEPT !.httpPort = d] : d \in Numerals}
    \cup {[form EXCEPT !.env = e] :
          e \in Rows(form.env, [name |-> "", value |-> "", secretName |-> "", useSecret |-> FALSE], ChangedEnv)}
    \cup {[form EXCEPT !.ports = p] : p \in Rows(form.ports, [container |-> "", host |-> ""], ChangedPort)}
    \cup {[form EXCEPT !.volumes = m] : m \in Rows(form.volumes, [name |-> "", mountPath |-> ""], ChangedVolume)}

(* The fields stay open while a save is in flight. *)
Type ==
    /\ editing # "" /\ typed < MaxTyped
    /\ form' \in Changes \ {form} /\ typed' = typed + 1
    /\ UNCHANGED <<rows, up, secrets, container, list, editing, save, shown, unforeseen>>

submit ==
    /\ editing # "" /\ save.pc = "idle" /\ validateServiceForm(form)
    /\ save' = [pc |-> "sent", to |-> editing, form |-> form]
    /\ UNCHANGED <<rows, up, secrets, container, list, editing, form, typed, shown, unforeseen>>

-----------------------------------------------------------------------------
(* The API. *)

exists(s) == rows[s] # None
clash(s, slug) == \E other \in Ids \ {s} : exists(other) /\ rows[other].slug = slug

Refused ==
    /\ save' = [save EXCEPT !.pc = "refused"]
    /\ UNCHANGED <<rows, up, container, shown>>

Stored(s, row) ==
    /\ rows' = [rows EXCEPT ![s] = row] /\ shown' = [shown EXCEPT ![s] = save.form]
    /\ save' = [save EXCEPT !.pc = "saved"]

createService(s, body) ==
    /\ ~exists(s) /\ Stored(s, body) /\ up' = up \cup {s} /\ UNCHANGED container

(* A description that was emptied is absent from the body, and kept.  The    *)
(* container is removed, to be created again if it was up.                    *)
updateService(s, body) ==
    /\ Stored(s, [body EXCEPT !.description = IF @ = "" THEN rows[s].description ELSE @])
    /\ container' = [container EXCEPT ![s] = None] /\ UNCHANGED up

Serve ==
    LET body == toServicePayload(save.form) s == save.to IN
    /\ save.pc = "sent"
    /\ IF ~ServiceSchema(body) THEN Refused /\ unforeseen' = (unforeseen \/ ~unmirrored(body))
       ELSE /\ UNCHANGED unforeseen
            /\ IF s = "new"
                 THEN IF clash("new", body.slug) THEN Refused
                      ELSE \E new \in Ids : createService(new, body)
                 ELSE IF ~exists(s) \/ clash(s, body.slug) THEN Refused ELSE updateService(s, body)
    /\ UNCHANGED <<secrets, list, editing, form, typed>>

(* onSuccess closes the form that is open, whichever it is. *)
Answered ==
    /\ save.pc \in {"saved", "refused"} /\ save' = NoSave
    /\ IF save.pc = "saved" THEN editing' = "" /\ form' = EMPTY_SERVICE_FORM
       ELSE UNCHANGED <<editing, form>>
    /\ UNCHANGED <<rows, up, secrets, container, list, typed, shown, unforeseen>>

Poll ==
    /\ list' = rows
    /\ UNCHANGED <<rows, up, secrets, container, editing, form, typed, save, shown, unforeseen>>

-----------------------------------------------------------------------------
(* What becomes of it. *)

(* A reference to a secret that is gone is left out. *)
resolveServiceEnv(row) ==
    {e \in Range(row.env) : e.secret => e.is \in secrets}

spawnServiceContainer(s) ==
    /\ exists(s) /\ s \in up /\ container[s] = None
    /\ container' = [container EXCEPT ![s] =
          [argv |-> tokenizeCommand(rows[s].command), env |-> resolveServiceEnv(rows[s])]]
    /\ UNCHANGED <<rows, up, secrets, list, editing, form, typed, save, shown, unforeseen>>

servicePrimaryPort(row) ==
    IF row.httpPort # 0 THEN row.httpPort ELSE IF row.ports # <<>> THEN row.ports[1].container ELSE 0
at(http, slug, port) == [http |-> http, slug |-> slug, port |-> port]
serviceAddress(row) == at(row.httpPort # 0, row.slug, servicePrimaryPort(row))

(* A variable's name is the suffix made of the slug, and HOST or PORT. *)
ofService(row) ==
    {<<row.slug, serviceAddress(row)>>, <<Append(row.slug, "host"), at(FALSE, row.slug, 0)>>}
    \cup IF servicePrimaryPort(row) # 0
           THEN {<<Append(row.slug, "port"), at(FALSE, <<>>, servicePrimaryPort(row))>>} ELSE {}
serviceEnvForWorkers == UNION {ofService(rows[s]) : s \in {t \in up : exists(t)}}

(* The card of a service: where it says it is, and under what name. *)
address(row) ==
    at(row.httpPort # 0, row.slug,
       IF row.httpPort # 0 THEN row.httpPort ELSE IF row.ports # <<>> THEN row.ports[1].container ELSE 0)
envVarName(row) == row.slug

-----------------------------------------------------------------------------
(* Others: another browser, a stop or a start, the settings' secrets. *)

Elsewhere ==
    \E s \in Ids :
        /\ exists(s) /\ rows' \in {[rows EXCEPT ![s] = None], [rows EXCEPT ![s].httpPort = 0]}
        /\ rows' # rows
        /\ shown' = [shown EXCEPT ![s] = None] /\ container' = [container EXCEPT ![s] = None]
        /\ up' = IF rows'[s] = None THEN up \ {s} ELSE up
        /\ UNCHANGED <<secrets, list, editing, form, typed, save, unforeseen>>
Lifecycle ==
    \E s \in Ids :
        /\ exists(s) /\ up' = IF s \in up THEN up \ {s} ELSE up \cup {s}
        /\ container' = [container EXCEPT ![s] = None]
        /\ UNCHANGED <<rows, secrets, list, editing, form, typed, save, shown, unforeseen>>
SecretMoves ==
    \E n \in Secrets :
        /\ secrets' = IF n \in secrets THEN secrets \ {n} ELSE secrets \cup {n}
        /\ UNCHANGED <<rows, up, container, list, editing, form, typed, save, shown, unforeseen>>

(* A service made of a preset is there. *)
Init ==
    /\ up = {CHOOSE s \in Ids : TRUE}
    /\ rows = [s \in Ids |-> IF s \in up THEN toServicePayload(fromPreset(CHOOSE p \in Presets : TRUE))
                             ELSE None]
    /\ secrets = Secrets /\ container = [s \in Ids |-> None] /\ list = rows
    /\ editing = "" /\ form = EMPTY_SERVICE_FORM /\ typed = 0 /\ save = NoSave
    /\ shown = [s \in Ids |-> None] /\ unforeseen = FALSE

Events ==
    \/ New \/ Cancel \/ Type \/ submit \/ Elsewhere \/ Lifecycle \/ SecretMoves
    \/ \E s \in Ids : Edit(s)
    \/ \E p \in Presets : Preset(p)
Steps == Serve \/ Answered \/ Poll \/ \E s \in Ids : spawnServiceContainer(s)
Next == Events \/ Steps
Spec == Init /\ [][Next]_vars

-----------------------------------------------------------------------------
ServiceFormTypes ==
    /\ up \subseteq {s \in Ids : exists(s)} /\ secrets \subseteq Secrets
    /\ editing \in Ids \cup {"", "new"} /\ typed \in 0..MaxTyped
    /\ form.slug \in Label /\ form.command \in Texts /\ form.httpPort \in Numerals
    /\ \A e \in Range(form.env) : e \in EnvRow
    /\ \A p \in Range(form.ports) : p \in PortRow
    /\ \A m \in Range(form.volumes) : m \in VolumeRow
    /\ save = NoSave \/ save.pc \in {"sent", "saved", "refused"}
    /\ unforeseen \in BOOLEAN

(* What a form has to say, without its blank rows, the secret and the value  *)
(* that were not chosen, and numbers that are none.                           *)
Said(v) ==
    [slug |-> v.slug, image |-> v.image, command |-> IF blank(v.command) THEN <<>> ELSE v.command,
     env |-> {[name |-> e.name, by |-> IF e.useSecret THEN e.secretName ELSE e.value,
               secret |-> e.useSecret] : e \in {e \in Range(v.env) : e.name # ""}},
     ports |-> {<<p.container, toNumber[p.host]>> :
                p \in {p \in Range(v.ports) : toNumber[p.container] # 0}},
     volumes |-> {m \in Range(v.volumes) : trim(m.name) # ""}, http |-> toNumber[v.httpPort]]

(* A service that was saved opens again as it was saved: what was shown went *)
(* through the request, its validation, the row and the list unchanged, but  *)
(* a description somebody emptied.                                            *)
OpensAsSaved ==
    \A s \in Ids : exists(s) /\ shown[s] # None =>
        /\ Said(fromService(rows[s])) = Said(shown[s])
        /\ shown[s].description \in {"", rows[s].description}

(* Opening a service and saving it at once changes nothing. *)
SavingIsIdle ==
    \A s \in Ids : exists(s) =>
        LET v == fromService(rows[s]) IN validateServiceForm(v) /\ toServicePayload(v) = rows[s]

(* The guard of the form lets through nothing the API's validation refuses,  *)
(* but what `unmirrored` names.                                               *)
GuardForesees == ~unforeseen

(* A container runs the words somebody meant, however quoted. *)
RunsWhatWasMeant ==
    \A s \in Ids : container[s] # None =>
        \A argv \in Argvs : rows[s].command = Written(argv) => container[s].argv = argv

(* Workers are told of every service that is up, under the name its card     *)
(* shows, the address its card shows; a service whose slug is another's with  *)
(* -host or -port shares that name with it.                                    *)
AddressIsShown ==
    \A s \in up :
        LET told == {entry \in serviceEnvForWorkers : entry[1] = envVarName(rows[s])} IN
        \/ told = {<<envVarName(rows[s]), address(rows[s])>>}
        \/ \E t \in up \ {s} : rows[s].slug \in {Append(rows[t].slug, "host"), Append(rows[t].slug, "port")}
=============================================================================
