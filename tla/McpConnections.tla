--------------------------- MODULE McpConnections ---------------------------
(***************************************************************************)
(* MCP servers (services/mcp-servers.ts): declared, connected in OAuth,    *)
(* turned on or off per project, and called by task sessions through the   *)
(* gateway, which relays with a token of its own and refreshes it.         *)
(*                                                                         *)
(* Tokens are numbers: a grant, or a refresh, gives the next one, which    *)
(* stands for an access token and the refresh token that came with it.     *)
(***************************************************************************)
EXTENDS Naturals, FiniteSets

CONSTANTS
    Ids,      \* ids servers may get
    Names,    \* names people give them
    Projects, \* projects, each with a task whose sessions call
    Calls,    \* requests to the gateway
    Browsers, \* tabs that declare or connect a server
    Origins,  \* origins Lite is opened from
    MaxToken, \* bound: tokens issued
    MaxState, \* bound: authorizations begun
    Docs      \* what servers and their authorization servers answer a probe

None == [none |-> TRUE]
Gone == [gone |-> TRUE] \* a row that was deleted: its id is not given again

VARIABLES
    servers,    \* rows of mcp_servers
    conn,       \* rows of mcp_connections
    setting,    \* rows of project_mcp_settings: none, on, off
    pending,    \* rows of mcp_oauth_states
    minted,     \* projects with a gateway token
    refreshing, \* per server, the call whose refresh the others join
    call,       \* gateway requests in flight
    browser,    \* declarations and connects in flight
    asked,      \* per authorization begun, the client its URL named
    issued,     \* tokens issued so far
    good,       \* access tokens the servers take
    usable,     \* refresh tokens the authorization servers take, each from one client
    crossed     \* history: servers connected again under a refresh in flight

rows == <<servers, conn, setting, pending, minted>>
flight == <<refreshing, call, browser>>
issuer == <<asked, issued, good, usable>>
vars == <<rows, flight, issuer, crossed>>

Token == 0..MaxToken
Server == [name : Names, auth : {"none", "oauth", "header"}, mode : {"default", "optional"},
           client : Nat, redirect : Origins \cup {""}, registers : BOOLEAN, iss : BOOLEAN]
Connection == [token : Token, refresh : Token, grant : Token, status : {"ok", "needs_reauth"},
               fresh : BOOLEAN]
OauthState == [state : 1..MaxState, id : Ids, redirect : Origins, old : BOOLEAN]
Setting == {"none", "on", "off"} \* a row exists only to differ from the server's mode
Call == [pc : {"idle", "body", "joined", "asking", "answered", "sent"}, id : Ids,
         project : Projects, oauth : BOOLEAN, tries : 0..2, token : Token, grant : Token,
         used : Token, client : Nat, got : {"", "granted", "kept", "refused", "failed"},
         from : 0..MaxToken + 1]
Browser == [pc : {"idle", "probing", "registering", "exchanging"}, name : Names, id : Ids,
            origin : Origins, state : 0..MaxState, client : Nat, redirect : Origins]

McpTypes ==
    /\ servers \in [Ids -> Server \cup {None, Gone}]
    /\ conn \in [Ids -> Connection \cup {None}]
    /\ setting \in [Projects \X Ids -> Setting]
    /\ pending \subseteq OauthState
    /\ minted \subseteq Projects
    /\ refreshing \in [Ids -> {None} \cup Calls]
    /\ call \in [Calls -> Call] /\ browser \in [Browsers -> Browser]
    /\ asked \in [1..MaxState -> Nat] /\ issued \in Token
    /\ good \subseteq Token /\ usable \subseteq Token \X Nat
    /\ crossed \subseteq Ids

declared(s) == servers[s] \notin {None, Gone}
connected(s) == conn[s] # None /\ conn[s].status = "ok"

-----------------------------------------------------------------------------
(* Declaring a server. *)

taken(name) == \E s \in Ids : declared(s) /\ servers[s].name = name

(* A client may be given with the declaration, else it is registered on Connect. *)
Given == MaxState + 1

Row(name, auth, client, d) ==
    [name |-> name, auth |-> auth, mode |-> "default", client |-> client, redirect |-> "",
     registers |-> d.registers, iss |-> d.iss]

(* discover: the authorization server's documents have to agree with one *)
(* another, and to know PKCE.                                              *)
discover(d) == d.metadata /\ d.sameIssuer /\ d.pkce

(* probe: what an unauthenticated `initialize` says the server is. *)
probe(d) ==
    CASE d.answer = "ok" -> "none"
      [] d.answer = "challenge" /\ d.resource /\ discover(d) -> "oauth"
      [] OTHER -> "error"

CreateWithHeader(s, name) ==
    /\ servers[s] = None /\ ~taken(name)
    /\ servers' = [servers EXCEPT ![s] = Row(name, "header", 0, [registers |-> FALSE, iss |-> FALSE])]
    /\ UNCHANGED <<conn, setting, pending, minted, flight, issuer, crossed>>

NoBrowser == [pc |-> "idle", name |-> CHOOSE n \in Names : TRUE, id |-> CHOOSE s \in Ids : TRUE,
              origin |-> CHOOSE o \in Origins : TRUE, state |-> 0, client |-> 0,
              redirect |-> CHOOSE o \in Origins : TRUE]

CreateServer(b, name) ==
    /\ browser[b].pc = "idle" /\ ~taken(name)
    /\ browser' = [browser EXCEPT ![b] = [NoBrowser EXCEPT !.pc = "probing", !.name = name]]
    /\ UNCHANGED <<rows, refreshing, call, issuer, crossed>>

Idle(b) == browser' = [browser EXCEPT ![b] = NoBrowser]

(* The probe took a while: the name is looked up again. *)
Probed(b, d, client) ==
    LET name == browser[b].name IN
    /\ browser[b].pc = "probing"
    /\ IF taken(name) \/ probe(d) = "error" THEN UNCHANGED servers
       ELSE \E s \in Ids : /\ servers[s] = None
                           /\ servers' = [servers EXCEPT ![s] = Row(name, probe(d), client, d)]
    /\ Idle(b)
    /\ UNCHANGED <<conn, setting, pending, minted, refreshing, call, issuer, crossed>>

setMode(s, mode) ==
    /\ declared(s)
    /\ servers' = [servers EXCEPT ![s].mode = mode]
    /\ UNCHANGED <<conn, setting, pending, minted, flight, issuer, crossed>>

(* The connection, the settings and the authorizations go with it. *)
deleteServer(s) ==
    /\ declared(s)
    /\ servers' = [servers EXCEPT ![s] = Gone]
    /\ conn' = [conn EXCEPT ![s] = None]
    /\ setting' = [k \in DOMAIN setting |-> IF k[2] = s THEN "none" ELSE setting[k]]
    /\ pending' = {p \in pending : p.id # s}
    /\ UNCHANGED <<minted, flight, issuer, crossed>>

-----------------------------------------------------------------------------
(* Connecting. *)

nextState == Cardinality({n \in DOMAIN asked : asked[n] # 0}) + 1
(* The state row, and the URL that carries it; what expired is swept. *)
Authorize(b, s, client, o) ==
    /\ nextState <= MaxState
    /\ pending' = {p \in pending : ~p.old}
                  \cup {[state |-> nextState, id |-> s, redirect |-> o, old |-> FALSE]}
    /\ asked' = [asked EXCEPT ![nextState] = client]

(* A client Lite registered is registered again for another origin. *)
startConnect(b, s, o) ==
    LET row == servers[s] IN
    /\ browser[b].pc = "idle" /\ declared(s) /\ row.auth = "oauth"
    /\ IF row.client = 0 \/ row.redirect \notin {"", o}
         THEN /\ browser' = [browser EXCEPT ![b].pc = "registering", ![b].id = s, ![b].origin = o]
              /\ UNCHANGED <<pending, asked>>
         ELSE Authorize(b, s, row.client, o) /\ UNCHANGED browser
    /\ UNCHANGED <<servers, conn, setting, minted, refreshing, call, issued, good, usable, crossed>>

(* The client is new; the server may refuse to register it, or be gone. *)
registerClient(b) ==
    LET s == browser[b].id o == browser[b].origin IN
    /\ browser[b].pc = "registering"
    /\ \/ /\ declared(s) /\ servers[s].registers
          /\ Authorize(b, s, nextState, o)
          /\ servers' = [servers EXCEPT ![s].client = nextState, ![s].redirect = o]
       \/ UNCHANGED <<servers, pending, asked>>
    /\ Idle(b)
    /\ UNCHANGED <<conn, setting, minted, refreshing, call, issued, good, usable, crossed>>

StatesAge ==
    /\ pending' = {[p EXCEPT !.old = TRUE] : p \in pending}
    /\ UNCHANGED <<servers, conn, setting, minted, flight, issuer, crossed>>

(* issuerError: the answer has to come from the issuer asked, and say so if it promised to. *)
issuerError(row, iss) == iss = "other" \/ (iss = "" /\ row.iss)

(* The browser is back: the state is spent, whatever the answer says. *)
finishConnect(b, p, iss, code) ==
    LET row == servers[p.id] IN
    /\ browser[b].pc = "idle" /\ p \in pending
    /\ pending' = pending \ {p}
    /\ browser' = IF ~p.old /\ declared(p.id) /\ ~issuerError(row, iss) /\ code
                    THEN [browser EXCEPT ![b].pc = "exchanging", ![b].id = p.id,
                                         ![b].state = p.state, ![b].client = row.client,
                                         ![b].redirect = p.redirect]
                    ELSE browser
    /\ UNCHANGED <<servers, conn, setting, minted, refreshing, call, issuer, crossed>>

(* exchangeCode: a code is worth something to the client it was given to. *)
exchangeCode(b, refresh) ==
    LET s == browser[b].id n == issued + 1 IN
    /\ browser[b].pc = "exchanging"
    /\ \/ /\ asked[browser[b].state] = browser[b].client /\ n <= MaxToken
          /\ issued' = n /\ good' = good \cup {n}
          /\ usable' = IF refresh THEN usable \cup {<<n, browser[b].client>>} ELSE usable
          /\ IF declared(s)
               THEN /\ conn' = [conn EXCEPT ![s] =
                           [token |-> n, refresh |-> IF refresh THEN n ELSE 0, grant |-> n,
                            status |-> "ok", fresh |-> TRUE]]
                    /\ crossed' = IF refreshing[s] = None THEN crossed ELSE crossed \cup {s}
               ELSE UNCHANGED <<conn, crossed>>
       \/ UNCHANGED <<issued, good, usable, conn, crossed>>
    /\ Idle(b)
    /\ UNCHANGED <<servers, setting, pending, minted, refreshing, call, asked>>

disconnect(s) ==
    /\ conn[s] # None
    /\ conn' = [conn EXCEPT ![s] = None]
    /\ UNCHANGED <<servers, setting, pending, minted, flight, issuer, crossed>>

-----------------------------------------------------------------------------
(* Per project. *)

modeDefault(s) == servers[s].mode = "default"
serverState(p, s) == IF setting[p, s] = "none" THEN modeDefault(s) ELSE setting[p, s] = "on"

(* What the mode says already is no exception to it. *)
setProjectServer(p, s, enabled) ==
    /\ declared(s)
    /\ setting' = [setting EXCEPT ![<<p, s>>] = IF enabled = modeDefault(s) THEN "none"
                                            ELSE IF enabled THEN "on" ELSE "off"]
    /\ UNCHANGED <<servers, conn, pending, minted, flight, issuer, crossed>>

clearProjectServer(p, s) ==
    /\ setting[p, s] # "none"
    /\ setting' = [setting EXCEPT ![<<p, s>>] = "none"]
    /\ UNCHANGED <<servers, conn, pending, minted, flight, issuer, crossed>>

(* The servers a session of this project is given, and its gateway token. *)
taskMcpServers(p) ==
    {s \in Ids : declared(s) /\ serverState(p, s) /\ (servers[s].auth = "oauth" => connected(s))}

mintMcpGatewayToken(p) ==
    /\ p \notin minted /\ taskMcpServers(p) # {}
    /\ minted' = minted \cup {p}
    /\ UNCHANGED <<servers, conn, setting, pending, flight, issuer, crossed>>

(* All of a task's tokens die with its row. *)
TaskDeleted(p) ==
    /\ p \in minted
    /\ minted' = minted \ {p}
    /\ UNCHANGED <<servers, conn, setting, pending, flight, issuer, crossed>>

-----------------------------------------------------------------------------
(* The gateway. *)

NoCall == [pc |-> "idle", id |-> CHOOSE s \in Ids : TRUE, project |-> CHOOSE p \in Projects : TRUE,
           oauth |-> FALSE, tries |-> 0, token |-> 0, grant |-> 0, used |-> 0, client |-> 0,
           got |-> "", from |-> 0]

(* Grants are numbered in order: the first this call may be relayed on. *)
firstGrant(s) == IF conn[s] = None THEN issued + 1 ELSE conn[s].grant

relay(c, s, p) ==
    /\ call[c].pc = "idle"
    /\ p \in minted /\ declared(s) /\ serverState(p, s)
    /\ call' = [call EXCEPT ![c] = [NoCall EXCEPT !.pc = "body", !.id = s, !.project = p,
                                                  !.oauth = servers[s].auth = "oauth",
                                                  !.from = firstGrant(s)]]
    /\ UNCHANGED <<rows, refreshing, browser, issuer, crossed>>

noOneRefreshing(s) == FALSE  \* mutant: every call refreshes on its own
inFlight(s) == refreshing[s] # None
joinsAnyway(d) == FALSE  \* mutant: the gateway leaves the connection to the refresh
notConnected(d) == d.oauth /\ ~connected(d.id)

Sent(d, token, grant) ==
    [d EXCEPT !.pc = "sent", !.token = token, !.grant = grant, !.tries = @ + 1]

(* accessToken: the token of the connection, or a refresh, its own or the one *)
(* in flight.  `refused` is the token a server just refused, 0 on the first send. *)
accessToken(c, refused) ==
    LET d == call[c] s == d.id row == conn[s] IN
    \/ /\ inFlight(s)
       /\ call' = [call EXCEPT ![c].pc = "joined"]
       /\ UNCHANGED <<conn, refreshing>>
    \/ /\ ~inFlight(s) /\ ~(declared(s) /\ connected(s))
       /\ call' = [call EXCEPT ![c] = NoCall]
       /\ UNCHANGED <<conn, refreshing>>
    \/ /\ ~inFlight(s) /\ declared(s) /\ connected(s)
       /\ CASE (IF refused # 0 THEN refused # row.token ELSE row.fresh) ->
                   /\ call' = [call EXCEPT ![c] = Sent(d, row.token, row.grant)]
                   /\ UNCHANGED <<conn, refreshing>>
            [] OTHER ->
                 IF row.refresh = 0
                   THEN /\ conn' = [conn EXCEPT ![s].status = "needs_reauth"]
                        /\ call' = [call EXCEPT ![c] = NoCall]
                        /\ UNCHANGED refreshing
                   ELSE /\ call' = [call EXCEPT ![c] = [d EXCEPT !.pc = "asking",
                                        !.used = row.refresh, !.client = servers[s].client,
                                        !.grant = row.grant]]
                        /\ refreshing' = [refreshing EXCEPT ![s] = c]
                        /\ UNCHANGED conn

(* The body has come: the connection is looked at again, and the token asked for. *)
Send(c) ==
    LET d == call[c] s == d.id IN
    /\ d.pc = "body"
    /\ CASE ~d.oauth -> /\ call' = [call EXCEPT ![c] = Sent(d, 0, 0)]
                        /\ UNCHANGED <<conn, refreshing>>
         [] notConnected(d) -> /\ call' = [call EXCEPT ![c] = NoCall]
                              /\ UNCHANGED <<conn, refreshing>>
         [] OTHER -> accessToken(c, 0)
    /\ UNCHANGED <<servers, setting, pending, minted, browser, issuer, crossed>>

everyTime(d) == TRUE  \* mutant: a refused token is refreshed again and again
once(d) == d.tries = 1

(* The server answers, or does not; a token it refuses is refreshed once. *)
Relayed(c) ==
    LET d == call[c] IN
    /\ d.pc = "sent"
    /\ IF d.oauth /\ d.token \notin good /\ once(d)
         THEN accessToken(c, d.token)
         ELSE call' = [call EXCEPT ![c] = NoCall] /\ UNCHANGED <<conn, refreshing>>
    /\ UNCHANGED <<servers, setting, pending, minted, browser, issuer, crossed>>

(* The authorization server spends a refresh token, or lets it be used again; *)
(* its answer may be lost on the way back.                                      *)
refreshTokens(c) ==
    LET d == call[c] n == issued + 1 pair == <<d.used, d.client>>
        Got(g) == call' = [call EXCEPT ![c].pc = "answered", ![c].got = g, ![c].token = issued'] IN
    /\ d.pc = "asking"
    /\ \/ /\ pair \in usable /\ n <= MaxToken
          /\ issued' = n /\ good' = good \cup {n}
          /\ \/ /\ usable' = (usable \ {pair}) \cup {<<n, d.client>>}
                /\ Got("granted") \/ Got("failed")
             \/ UNCHANGED usable /\ Got("kept")
       \/ /\ UNCHANGED <<issued, good, usable>>
          /\ Got("failed") \/ (pair \notin usable /\ Got("refused"))
    /\ UNCHANGED <<rows, refreshing, browser, asked, crossed>>

neverSettled(s) == refreshing[s]  \* mutant: the promise stays in the map
settled(s) == None

(* The one that refreshed writes the row, whatever became of it, and all who  *)
(* joined go on with what it got.                                              *)
Refreshed(c) ==
    LET d == call[c] s == d.id
        took == d.got \in {"granted", "kept"}
        waiting == {c} \cup {e \in Calls : call[e].pc = "joined" /\ call[e].id = s} IN
    /\ d.pc = "answered"
    /\ conn' = IF conn[s] = None \/ d.got = "failed" THEN conn
               ELSE IF d.got = "refused" THEN [conn EXCEPT ![s].status = "needs_reauth"]
               ELSE [conn EXCEPT ![s].token = d.token, ![s].fresh = TRUE,
                                 ![s].refresh = IF d.got = "granted" THEN d.token ELSE @]
    /\ call' = [e \in Calls |-> IF e \notin waiting THEN call[e]
                                ELSE IF took THEN Sent(call[e], d.token, d.grant) ELSE NoCall]
    /\ refreshing' = [refreshing EXCEPT ![s] = settled(s)]
    /\ UNCHANGED <<servers, setting, pending, minted, browser, issuer, crossed>>

-----------------------------------------------------------------------------
(* Time, and what servers do with the tokens they gave. *)

TokenAges(s) ==
    /\ connected(s) /\ conn[s].fresh
    /\ conn' = [conn EXCEPT ![s].fresh = FALSE]
    /\ UNCHANGED <<servers, setting, pending, minted, flight, issuer, crossed>>

Revoked(n) ==
    /\ n \in good
    /\ good' = good \ {n}
    /\ \/ usable' = {u \in usable : u[1] # n} \/ UNCHANGED usable
    /\ UNCHANGED <<rows, flight, asked, issued, crossed>>

(* Lite restarts: requests and refreshes are gone, rows stay. *)
Restart ==
    /\ refreshing' = [s \in Ids |-> None]
    /\ call' = [c \in Calls |-> NoCall]
    /\ browser' = [b \in Browsers |-> NoBrowser]
    /\ UNCHANGED <<rows, issuer, crossed>>
-----------------------------------------------------------------------------
(* Nothing is declared, or a server was connected a while ago, with a client that *)
(* was given, and sessions have its gateway.                                      *)
Init ==
    /\ issued \in {0, 1} /\ good = 1..issued /\ usable = {<<n, Given>> : n \in good}
    /\ LET first == CHOOSE s \in Ids : TRUE was == {s \in Ids : s = first /\ issued = 1} IN
       \E d \in Docs, name \in Names :
          /\ servers = [s \in Ids |-> IF s \in was THEN Row(name, "oauth", Given, d) ELSE None]
          /\ conn = [s \in Ids |-> IF s \in was
                         THEN [token |-> 1, refresh |-> 1, grant |-> 1, status |-> "ok", fresh |-> FALSE]
                         ELSE None]
    /\ setting = [k \in Projects \X Ids |-> "none"]
    /\ pending = {} /\ minted = IF issued = 1 THEN Projects ELSE {}
    /\ refreshing = [s \in Ids |-> None]
    /\ call = [c \in Calls |-> NoCall]
    /\ browser = [b \in Browsers |-> NoBrowser]
    /\ asked = [n \in 1..MaxState |-> 0]
    /\ crossed = {}

Declare ==
    \/ \E s \in Ids, name \in Names : CreateWithHeader(s, name)
    \/ \E b \in Browsers, name \in Names : CreateServer(b, name)

Connect ==
    \E b \in Browsers :
        \/ \E s \in Ids, o \in Origins : startConnect(b, s, o)
        \/ \E p \in pending, iss \in {"", "own", "other"}, code \in BOOLEAN :
               finishConnect(b, p, iss, code)

Configure ==
    \/ \E s \in Ids : \/ deleteServer(s) \/ disconnect(s)
                       \/ \E mode \in {"default", "optional"} : setMode(s, mode)
    \/ \E p \in Projects, s \in Ids, enabled \in BOOLEAN : setProjectServer(p, s, enabled)
    \/ \E p \in Projects, s \in Ids : clearProjectServer(p, s)
    \/ \E p \in Projects : TaskDeleted(p)

World == StatesAge \/ Restart \/ (\E s \in Ids : TokenAges(s)) \/ (\E n \in Token : Revoked(n))

(* What people and the outside start, and what Lite does then. *)
Events == Declare \/ Connect \/ Configure \/ World

Proceed(c) == Send(c) \/ Relayed(c) \/ refreshTokens(c) \/ Refreshed(c)
Steps ==
    \/ \E b \in Browsers : \/ \E d \in Docs, client \in {0, Given} : Probed(b, d, client)
                            \/ registerClient(b)
                            \/ \E refresh \in BOOLEAN : exchangeCode(b, refresh)
    \/ \E p \in Projects : mintMcpGatewayToken(p)
    \/ \E c \in Calls : Proceed(c) \/ \E s \in Ids, p \in Projects : relay(c, s, p)

Next == Events \/ Steps
Spec == Init /\ [][Next]_vars

(* A promise that can go on does; the authorization server answers, or the  *)
(* 10 s of tokenRequest are over, and so are the agent's own on the relay.    *)
Fairness == \A c \in Calls : WF_vars(Proceed(c))

-----------------------------------------------------------------------------
(* Refresh tokens are single-use, and calls refresh together: the human is  *)
(* asked to connect again only when nothing else helps, that is when the    *)
(* connection's refresh token is worth nothing to the server's client any   *)
(* more; except for a connection made under the refresh of the one it       *)
(* replaces, which ends on the new row.                                     *)
ReauthIsDeserved ==
    [][\A s \in Ids :
          connected(s) /\ conn'[s] # None /\ conn'[s].status = "needs_reauth" /\ s \notin crossed
          => <<conn[s].refresh, servers[s].client>> \notin usable]_vars

(* `Forgets the connection's tokens. Effective at the gateway's next call`:  *)
(* no call that began after a disconnect is relayed on the connection it      *)
(* forgot, be there a refresh of it in flight; same exception.                *)
DisconnectIsEffective ==
    \A c \in Calls :
        call[c].pc = "sent" /\ call[c].oauth /\ call[c].id \notin crossed
        => call[c].grant >= call[c].from

(* No call waits forever, those that joined the refresh of another included. *)
CallsAnswered == \A c \in Calls : []<>(call[c].pc = "idle")
=============================================================================
