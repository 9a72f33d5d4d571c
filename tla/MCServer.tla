------------------------------ MODULE MCServer ------------------------------
(* The components that share no state with the pool, one behaviour each: *)
(* `scene` says which one moves, the others stay as they began.           *)
EXTENDS Naturals, FiniteSets, Sequences

CONSTANTS
    \* McpConnections
    Ids, Names, Projects, Calls, Browsers, Origins, MaxToken, MaxState,
    \* WorkerLifecycle
    Workers, Spawns, Requests, Looks, Planes, HasDinD, MaxBoxes, MaxBuilds,
    \* SharedServices
    Services, Slugs, Starts, Asks, Glances, MaxUnits,
    \* SshAgent
    Keys, Encrypted, Legible, Unlocks, Locks, MaxAgents,
    \* Terminals
    Tabs, Sessions, MaxConns,
    \* ReverseProxy
    WorkerIds, Digits, Visits,
    \* Projects
    Apps, Models, Ports, Commands, Boxes, Forms, MaxVersion,
    \* TaskFiles
    Replies, MaxFileUnits, MaxTurnUnits, MaxTurnFiles,
    \* TaskCommands
    Orders, Readers, Killers, MaxCrates,
    \* Resources
    Machines, Daemons, Owning, Views,
    \* WorkerMetrics
    Sampled, Ranges, Retention, PruneEvery, MaxClock,
    \* Cockpit
    TailPage, PollPage, MaxLog, MaxMounts,
    \* Harnesses
    Efforts, Delegations, Answers, MaxSessions,
    \* ServiceForms
    DeclaredIds, Globals, MaxTyped, MaxRows,
    \* ProjectForms
    Wellformed, Known, SecretNames, MaxChanges, MaxSaves

(* Bound: the ssh-agents that can be spawned.  The keys with a passphrase are keys. *)
ASSUME SshAssumption == MaxAgents \in Nat /\ Encrypted \subseteq Keys
(* Bound: the connections of a worker's agent. *)
ASSUME TerminalAssumption == MaxConns \in Nat /\ Sessions # {}
(* Bound: the containers of a worker, of which there is one at first. *)
ASSUME CommandAssumption == MaxCrates \in Nat \ {0} /\ Orders # {}

(* Bounds: the tokens issued, and the authorizations begun; a gateway call is not *)
(* the null of the map of refreshes.                                              *)
ASSUME McpAssumption ==
    /\ MaxToken \in Nat \ {0} /\ MaxState \in Nat
    /\ Ids # {} /\ Names # {} /\ Projects # {} /\ Origins # {}
    /\ [none |-> TRUE] \notin Calls
(* Bounds: the containers and the builds there can be. *)
ASSUME WorkerAssumption ==
    /\ MaxBoxes \in Nat /\ MaxBuilds \in Nat /\ Workers # {}
    /\ Planes # {} /\ Planes \subseteq {"agent", "exec"}
(* Samples are kept for the longest range a chart offers (services/worker-metrics.ts). *)
ASSUME MetricAssumption ==
    /\ MaxClock \in Nat /\ Retention \in Nat /\ PruneEvery \in Nat
    /\ Ranges \subseteq 0..Retention
(* Pages of the stream have events; bounds: the events, the times the screen is opened. *)
ASSUME CockpitAssumption ==
    /\ TailPage \in Nat \ {0} /\ PollPage \in Nat \ {0}
    /\ MaxLog \in Nat /\ MaxMounts \in Nat \ {0}
(* There is an agent app (AGENT_APPS of lib/agent-apps.ts). *)
ASSUME HarnessAssumption == Apps # {}
(* A service's id is a uuid: the form that is not of a service yet is of none. *)
ASSUME FormAssumption == DeclaredIds # {} /\ "new" \notin DeclaredIds

VARIABLES
    scene, moves,
    servers, conn, setting, pending, minted, refreshing, call, browser, asked, issued, good,
    usable, crossed,
    worker, box, left, image, builds, spawn, request, look, agent, made, astray,
    stranded,
    service, unit, data, start, ask, glance, units, outrun, stuck,
    selected, host, proc, holds, sock, sshAgent, unlocked, bind, unlock, lock, locked, overlapped,
    row, connections, dialled, tab, registry, sessions, shared, hasty,
    catalog, running, joined, visit,
    project, versions, baked, baking, boxes, volumes, deletion, form, saved, restored, escaped,
    tree, script, listing, patch,
    opening, started, rows, job, disk, whole, mixed,
    seat, crates, process, record, order, reader, killer, alive, first, blind,
    entry, live, owned, declared, things, view,
    clock, ready, upMachines, samples, sampler, taken,
    total, task, shown, mount, current, poll, seen, peek, click, late, revived,
    settings, cached, tasks, carries, launched, run, answer, replying, runner, withdrawn, garbled,
    specs, up, secrets, container, list, editing, fields, typed, save, filled, unforeseen,
    stored, kept, value, drawn, asking, searched, vouched, handoff, saving, changes, saves

-----------------------------------------------------------------------------
(* What a server that follows the specification of MCP answers to a probe. *)
Docs ==
    {[answer |-> "challenge", resource |-> TRUE, metadata |-> TRUE, sameIssuer |-> TRUE,
      pkce |-> TRUE, registers |-> TRUE, iss |-> TRUE]}

(* Services whose names read like one another's with a port. *)
PortLike == {<<"pg">>, <<"pg", "15">>}

(* A project of another instance with something in every field. *)
Elsewhere ==
    {[features |-> {"own"}, apps |-> {"codex"}, models |-> [a \in Apps |-> "m"],
      ports |-> Ports, labels |-> [p \in Ports |-> "web"], volumes |-> {"cache"},
      command |-> "", version |-> 1]}

(* A file of one trip, one of two, and one that does not decode. *)
Sizes == [c \in {"s", "l", "x"} |-> CASE c = "s" -> 1 [] c = "l" -> 2 [] OTHER -> 0]

(* The apps differ in what takes an effort: one does with its own default model, *)
(* the other with a model it is asked for.                                       *)
Takes ==
    [a \in Apps |-> [m \in Models \cup {""} |->
        IF (a = CHOOSE b \in Apps : TRUE) = (m = "") THEN Efforts ELSE {}]]

(* A service like Mailpit, whose HTTP port is its second; slugs that read like one *)
(* another's; words with spaces, with quotes, and none.                             *)
Prefills ==
    {[slug |-> <<"db">>, command |-> <<>>, httpPort |-> 80, ports |-> <<25, 80>>,
      env |-> <<[name |-> "N", secret |-> FALSE, is |-> "v"]>>,
      volumes |-> <<[name |-> "data", mountPath |-> "/d"]>>]}
Labels == {<<"db">>, <<"db", "port">>}
Words == {<< <<"a">>, <<" ", "a">> >>, << <<"'">>, <<>> >>}

Mcp == INSTANCE McpConnections
Worker == INSTANCE WorkerLifecycle
Service == INSTANCE SharedServices
Ssh == INSTANCE SshAgent WITH agent <- sshAgent, mixed <- overlapped
Terminal == INSTANCE Terminals
Proxy == INSTANCE ReverseProxy WITH Slugs <- PortLike
Project == INSTANCE Projects WITH Tabs <- Forms
Diff == INSTANCE TaskDiff
Files == INSTANCE TaskFiles
Command == INSTANCE TaskCommands WITH host <- seat
Overview == INSTANCE Resources WITH disk <- things
Metrics == INSTANCE WorkerMetrics
Screen == INSTANCE Cockpit WITH look <- peek
ServiceForm == INSTANCE ServiceForms
    WITH Ids <- DeclaredIds, Slugs <- Labels, Presets <- Prefills, Argvs <- Words,
         Secrets <- Globals, rows <- specs, form <- fields, shown <- filled
ProjectForm == INSTANCE ProjectForms
Harness == INSTANCE Harnesses WITH image <- carries, pending <- replying, crossed <- withdrawn

mcp ==
    <<servers, conn, setting, pending, minted, refreshing, call, browser, asked, issued, good,
      usable, crossed>>
workers == <<worker, box, left, image, builds, spawn, request, look, agent, made, astray,
            stranded>>
services == <<service, unit, data, start, ask, glance, units, outrun, stuck>>
ssh ==
    <<selected, host, proc, holds, sock, sshAgent, unlocked, bind, unlock, lock, locked,
      overlapped>>
terminals == <<row, connections, dialled, tab, registry, sessions, shared, hasty>>
proxy == <<catalog, running, joined, visit>>
projects ==
    <<project, versions, baked, baking, boxes, volumes, deletion, form, saved, restored, escaped>>
diff == <<tree, script, listing, patch>>
files == <<opening, started, rows, job, disk, whole, mixed>>
commands == <<seat, crates, process, record, order, reader, killer, alive, first, blind>>
resources == <<entry, live, owned, declared, things, view>>
metrics == <<clock, ready, upMachines, samples, sampler, taken>>
cockpit == <<total, task, shown, mount, current, poll, seen, peek, click, late, revived>>
harnesses ==
    <<settings, cached, tasks, carries, launched, run, answer, replying, runner, withdrawn, garbled>>
forms == <<specs, up, secrets, container, list, editing, fields, typed, save, filled, unforeseen>>
projectform ==
    <<stored, kept, value, drawn, asking, searched, vouched, handoff, saving, changes, saves>>
vars ==
    <<scene, moves, mcp, workers, services, ssh, terminals, proxy, projects, diff, files, commands,
      resources, metrics, cockpit, harnesses, forms, projectform>>

(* Bound: what people and the outside start in a behaviour of each scene. *)
MaxMoves ==
    [mcp |-> 3, workers |-> 3, services |-> 3, ssh |-> 4, terminals |-> 4, proxy |-> 3,
     projects |-> 4, diff |-> 2, files |-> 3, commands |-> 5, resources |-> 3, metrics |-> 2,
     cockpit |-> 2, harnesses |-> 3, forms |-> 4, projectform |-> 3]

Init ==
    /\ scene \in DOMAIN MaxMoves /\ moves = 0
    /\ Mcp!Init /\ Worker!Init /\ Service!Init /\ Ssh!Init /\ Terminal!Init /\ Proxy!Init
    /\ Project!Init /\ Diff!Init /\ Files!Init /\ Command!Init /\ Overview!Init /\ Metrics!Init
    /\ Screen!Init /\ Harness!Init /\ ServiceForm!Init /\ ProjectForm!Init
    /\ scene # "mcp" => issued = 0
    /\ scene # "ssh" => bind = "unknown"
    /\ scene # "terminals" => row.plane = "agent"
    /\ scene # "cockpit" => total = 0
    /\ scene # "harnesses" => launched = <<>>
    /\ scene # "projectform" => stored # ProjectForm!None

Others ==
    /\ UNCHANGED scene
    /\ IF scene = "mcp" THEN TRUE ELSE UNCHANGED mcp
    /\ IF scene = "workers" THEN TRUE ELSE UNCHANGED workers
    /\ IF scene = "services" THEN TRUE ELSE UNCHANGED services
    /\ IF scene = "ssh" THEN TRUE ELSE UNCHANGED ssh
    /\ IF scene = "terminals" THEN TRUE ELSE UNCHANGED terminals
    /\ IF scene = "proxy" THEN TRUE ELSE UNCHANGED proxy
    /\ IF scene = "projects" THEN TRUE ELSE UNCHANGED projects
    /\ IF scene = "diff" THEN TRUE ELSE UNCHANGED diff
    /\ IF scene = "files" THEN TRUE ELSE UNCHANGED files
    /\ IF scene = "commands" THEN TRUE ELSE UNCHANGED commands
    /\ IF scene = "resources" THEN TRUE ELSE UNCHANGED resources
    /\ IF scene = "metrics" THEN TRUE ELSE UNCHANGED metrics
    /\ IF scene = "cockpit" THEN TRUE ELSE UNCHANGED cockpit
    /\ IF scene = "harnesses" THEN TRUE ELSE UNCHANGED harnesses
    /\ IF scene = "forms" THEN TRUE ELSE UNCHANGED forms
    /\ IF scene = "projectform" THEN TRUE ELSE UNCHANGED projectform

Goes == UNCHANGED moves /\ Others
Comes == moves < MaxMoves[scene] /\ moves' = moves + 1 /\ Others

Next ==
    \/ scene = "mcp" /\ Mcp!Steps /\ Goes
    \/ scene = "mcp" /\ Mcp!Events /\ Comes
    \/ scene = "workers" /\ Worker!Steps /\ Goes
    \/ scene = "workers" /\ Worker!Events /\ Comes
    \/ scene = "services" /\ Service!Steps /\ Goes
    \/ scene = "services" /\ Service!Events /\ Comes
    \/ scene = "ssh" /\ Ssh!Steps /\ Goes
    \/ scene = "ssh" /\ Ssh!Events /\ Comes
    \/ scene = "terminals" /\ Terminal!Steps /\ Goes
    \/ scene = "terminals" /\ Terminal!Events /\ Comes
    \/ scene = "proxy" /\ Proxy!Steps /\ Goes
    \/ scene = "proxy" /\ Proxy!Events /\ Comes
    \/ scene = "projects" /\ Project!Steps /\ Goes
    \/ scene = "projects" /\ Project!Events /\ Comes
    \/ scene = "diff" /\ Diff!Steps /\ Goes
    \/ scene = "diff" /\ Diff!Events /\ Comes
    \/ scene = "files" /\ Files!Steps /\ Goes
    \/ scene = "files" /\ Files!Events /\ Comes
    \/ scene = "commands" /\ Command!Steps /\ Goes
    \/ scene = "commands" /\ Command!Events /\ Comes
    \/ scene = "resources" /\ Overview!Steps /\ Goes
    \/ scene = "resources" /\ Overview!Events /\ Comes
    \/ scene = "metrics" /\ Metrics!Steps /\ Goes
    \/ scene = "metrics" /\ Metrics!Events /\ Comes
    \/ scene = "cockpit" /\ Screen!Steps /\ Goes
    \/ scene = "cockpit" /\ Screen!Events /\ Comes
    \/ scene = "harnesses" /\ Harness!Steps /\ Goes
    \/ scene = "harnesses" /\ Harness!Events /\ Comes
    \/ scene = "forms" /\ ServiceForm!Steps /\ Goes
    \/ scene = "forms" /\ ServiceForm!Events /\ Comes
    \/ scene = "projectform" /\ ProjectForm!Steps /\ Goes
    \/ scene = "projectform" /\ ProjectForm!Events /\ Comes

(* Requests and pipelines under way go on, containers answer the agent's  *)
(* calls, and a setup status that is tried again and again is read.       *)
Fairness ==
    /\ \A c \in Calls : WF_mcp(scene = "mcp" /\ Mcp!Proceed(c))
    /\ \A i \in Spawns : WF_workers(scene = "workers" /\ Worker!Pipeline(i))
    /\ \A r \in Requests : WF_workers(scene = "workers" /\ Worker!Serve(r))
    /\ \A n \in 1..MaxBuilds : WF_workers(scene = "workers" /\ Worker!BuildEnds(n))
    /\ \A l \in Looks :
        /\ WF_workers(scene = "workers" /\ Worker!Poll(l))
        /\ SF_workers(scene = "workers" /\ Worker!getSetupStatus(l, TRUE))
    /\ \A w \in Workers :
        /\ WF_workers(scene = "workers" /\ Worker!handleAgentUpgrade(w))
        /\ WF_workers(scene = "workers" /\ Worker!applyProjectState(w))
        /\ WF_workers(scene = "workers" /\ Worker!ScriptEnds(w))
    /\ \A p \in Starts : WF_services(scene = "services" /\ Service!Pipeline(p))
    /\ \A q \in Asks : WF_services(scene = "services" /\ Service!Serve(q))
    /\ \A g \in Glances : WF_services(scene = "services" /\ Service!Poll(g))

Spec == Init /\ [][Next]_vars /\ Fairness

-----------------------------------------------------------------------------
(* The state of the component that moves is of its type; the others stay as they began. *)
TypesOK ==
    CASE scene = "mcp" -> Mcp!McpTypes
      [] scene = "workers" -> Worker!WorkerTypes
      [] scene = "services" -> Service!ServiceTypes
      [] scene = "ssh" -> Ssh!SshTypes
      [] scene = "terminals" -> Terminal!TerminalTypes
      [] scene = "proxy" -> Proxy!ProxyTypes
      [] scene = "projects" -> Project!ProjectTypes
      [] scene = "diff" -> Diff!DiffTypes
      [] scene = "files" -> Files!FilesTypes
      [] scene = "commands" -> Command!CommandTypes
      [] scene = "resources" -> Overview!ResourceTypes
      [] scene = "metrics" -> Metrics!MetricTypes
      [] scene = "cockpit" -> Screen!CockpitTypes
      [] scene = "harnesses" -> Harness!HarnessTypes
      [] scene = "forms" -> ServiceForm!ServiceFormTypes
      [] scene = "projectform" -> ProjectForm!ProjectFormTypes

(* A connection is marked for a new authorization only after a refusal it earned. *)
ReauthIsDeserved == Mcp!ReauthIsDeserved
(* After a disconnect nothing is sent with what was disconnected. *)
DisconnectIsEffective == scene = "mcp" => Mcp!DisconnectIsEffective
(* Every call an agent makes to the gateway is answered. *)
CallsAnswered == Mcp!CallsAnswered
(* The agent of the container that runs is the one whose hello is accepted. *)
AgentIsKnown == scene = "workers" => Worker!AgentIsKnown
(* A worker somebody stopped stays stopped until somebody starts it. *)
StoppedUntilStarted == Worker!StoppedUntilStarted
(* A service that is ready runs what its row says, and its container the words that were meant. *)
RunsItsSpec ==
    /\ scene = "services" => Service!RunsItsSpec
    /\ scene = "forms" => ServiceForm!RunsWhatWasMeant
(* What Settings calls usable is offered to workers. *)
UsableIsOffered == scene = "ssh" => Ssh!UsableIsOffered
(* A terminal reads as attached when a browser is at it. *)
AttachedIsTrue == scene = "terminals" => Terminal!AttachedIsTrue
(* A hostname leads to what it names, or nowhere, and a worker is told of a service *)
(* the address its card shows.                                                      *)
RouteIsOwn ==
    /\ scene = "proxy" => Proxy!RouteIsOwn
    /\ scene = "forms" => ServiceForm!AddressIsShown
(* An image is of the version its tag says. *)
ImageIsItsVersion == scene = "projects" => Project!ImageIsItsVersion
(* A project keeps models only of apps it has; a task runs under the app and the  *)
(* parameters it was asked to, in a worker that carries that app.                 *)
ModelsAreAllowed ==
    /\ scene = "projects" => Project!ModelsAreAllowed
    /\ scene = "harnesses" => Harness!RunsWhatWasAsked /\ Harness!CarriesItsHarness
(* A session is read and written to in the dialect it was started in. *)
DialectIsItsOwn == scene = "harnesses" => Harness!DialectIsItsOwn
(* What a form showed at its save is what is stored, secrets included, however many   *)
(* attempts it took; it opens again the same, saves idly when nothing changed, and    *)
(* its guard foresees what the API refuses.  Its rows stay apart, and an extension    *)
(* the registry has not does not stay.                                                *)
SavesWhatItShows ==
    /\ scene = "projects" => Project!SavesWhatItShows
    /\ scene = "forms" => ServiceForm!OpensAsSaved /\ ServiceForm!SavingIsIdle /\ ServiceForm!GuardForesees
    /\ scene = "projectform" => ProjectForm!RowsAreSaved /\ ProjectForm!SecretsAreSaved
                                /\ ProjectForm!ReposStayApart /\ ProjectForm!UnknownIsCaught
(* An agent is told of files that are there, whole. *)
HandedFilesAreWhole == scene = "files" => Files!HandedFilesAreWhole
(* The row of a command says how its process ended. *)
RowIsTrue == scene = "commands" => Command!RowIsTrue
(* The overview lists every volume and image that was there throughout, and a *)
(* chart has every sample of its span.                                         *)
NothingHidden ==
    /\ scene = "resources" => Overview!NothingHidden
    /\ scene = "metrics" => Metrics!HistoryKept

(* The keys: none is served that was not selected, none that was locked. *)
KeysAreGuarded == scene = "ssh" => Ssh!LockHolds /\ Ssh!OnlyTheSelected
(* A worker and a project that are deleted leave nothing on the daemon. *)
DeletedIsGone ==
    /\ scene = "workers" => Worker!NothingLeft
    /\ scene = "projects" => Project!DeletedLeavesNothing
(* The list of changed files and the patch of one say what the agent did. *)
DiffIsFaithful == scene = "diff" => Diff!DiffIsTheTree /\ Diff!PatchIsTheEdit
(* The stream and the task on a screen say what the server has. *)
ScreenIsTrue == scene = "cockpit" => Screen!ShowsTheLog /\ Screen!SettledIsTrue
(* Spawns of workers and starts of services end, one way or the other. *)
PipelinesSettle == Worker!SpawnSettles /\ Service!StartSettles
=============================================================================
