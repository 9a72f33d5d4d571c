-------------------------- MODULE Credentials_proof --------------------------
(***************************************************************************)
(* Proofs about the credentials the control plane keeps for its agents.    *)
(*                                                                         *)
(* The connections to MCP servers (services/mcp-servers.ts): whatever      *)
(* calls share a refresh, are refused, disconnected or authorized anew     *)
(* meanwhile.                                                              *)
(*                                                                         *)
(* The SSH agent of the workers: whatever unlocks, locks, exits and        *)
(* restarts follow one another, for any number of keys, of unlocks and of  *)
(* locks at once, a worker is offered no key of Lite's after a lock, never *)
(* one that is not selected, and always one that Settings calls usable.    *)
(*                                                                         *)
(* Of each component, an inductive invariant over its own variables, kept  *)
(* by every one of its actions, and so by every step of MCServer.          *)
(***************************************************************************)
EXTENDS MCServer, FiniteSetTheorems, TLAPS

-----------------------------------------------------------------------------
(* The connections to MCP servers. *)

(* Call c holds the refresh of its connection. *)
Refreshes(c) == call[c].pc \in {"asking", "answered"}

(* The authorizations begun so far, numbered in order. *)
Begun == {n \in 1..MaxState : asked[n] # 0}
Numbered == Begun = 1..Cardinality(Begun) /\ Cardinality(Begun) \in Nat
(* A client not registered yet is nobody's client. *)
Registered(k) == ~(k \in 1..MaxState /\ asked[k] = 0)
Clients ==
    /\ \A s \in Ids : Mcp!declared(s) => Registered(servers[s].client)
    /\ \A c \in Calls : Registered(call[c].client)
    /\ \A b \in Browsers : Registered(browser[b].client)
    /\ \A u \in usable : Registered(u[2])
(* Whatever is held of a connection was issued before: its tokens, its grant, *)
(* and what a call took of it.                                                *)
Issued ==
    /\ \A s \in Ids : conn[s] # Mcp!None =>
           Mcp!declared(s) /\ conn[s].grant <= issued /\ conn[s].refresh <= issued
    /\ \A u \in usable : u[1] \in 1..issued
    /\ \A c \in Calls : /\ call[c].from <= issued + 1
                        /\ Refreshes(c) => call[c].used <= issued
                        /\ call[c].pc = "answered" => call[c].token <= issued
(* A call is sent twice at most, and joins or asks for a refresh at most once *)
(* before each.                                                               *)
Tried ==
    \A c \in Calls : /\ call[c].pc = "body" => call[c].tries = 0
                     /\ call[c].pc \in {"joined", "asking", "answered"} => call[c].tries <= 1
(* The map of refreshes in flight names, of each server, the one call that *)
(* holds its refresh.                                                      *)
Mapped ==
    /\ \A c \in Calls : Refreshes(c) => refreshing[call[c].id] = c
    /\ \A s \in Ids : refreshing[s] # Mcp!None =>
           Refreshes(refreshing[s]) /\ call[refreshing[s]].id = s
(* A call under way began no later than the grant its connection has. *)
Later ==
    \A c \in Calls : call[c].pc # "idle" /\ conn[call[c].id] # Mcp!None
                     => call[c].from <= conn[call[c].id].grant
(* The refresh token call c took is worth nothing any more to the client its *)
(* server has.                                                               *)
Stale(c) == <<call[c].used, servers[call[c].id].client>> \notin usable
(* But for a connection somebody changed under it, a refresh under way is of *)
(* the connection as the row has it; a refusal it got makes what the row has *)
(* worth nothing.                                                            *)
OfTheRow(c) ==
    LET s == call[c].id IN
    Refreshes(c) /\ s \notin crossed /\ conn[s] # Mcp!None =>
        /\ conn[s].grant = call[c].grant /\ conn[s].refresh = call[c].used
        /\ call[c].pc = "asking" => servers[s].client = call[c].client \/ Stale(c)
        /\ call[c].got = "refused" /\ call[c].pc = "answered" => Stale(c)
(* A call that may join the refresh c holds began no later than the grant it *)
(* is of: that is what makes joining safe after a disconnect.                *)
Covers(c, e) ==
    /\ Refreshes(c) /\ call[c].id \notin crossed
    /\ call[e].oauth /\ call[e].id = call[c].id /\ call[e].pc \notin {"idle", "body"}
    => call[e].from <= call[c].grant
(* The two of every call. *)
Rounds == \A c \in Calls : OfTheRow(c) /\ \A e \in Calls : Covers(c, e)
(* The parts about what is sent. *)
Relays == Issued /\ Mapped /\ Later /\ Rounds /\ Mcp!DisconnectIsEffective
(* The inductive invariant of the MCP connections. *)
McpInv == Mcp!McpTypes /\ Numbered /\ Clients /\ Tried /\ Relays

(* The records that stand for no call and no browser are of their types, and *)
(* idle.                                                                     *)
LEMMA Nobody ==
    /\ Mcp!NoCall \in Mcp!Call /\ Mcp!NoCall.pc = "idle" /\ Mcp!NoCall.client = 0
    /\ Mcp!NoCall.from = 0
    /\ Mcp!NoBrowser \in Mcp!Browser /\ Mcp!NoBrowser.pc = "idle" /\ Mcp!NoBrowser.client = 0
    /\ 0 \in Mcp!Token /\ 1 \in Mcp!Token
<1>1. /\ (CHOOSE s \in Ids : TRUE) \in Ids /\ (CHOOSE p \in Projects : TRUE) \in Projects
      /\ (CHOOSE n \in Names : TRUE) \in Names /\ (CHOOSE o \in Origins : TRUE) \in Origins
    BY McpAssumption
<1>2. 0 \in 0..MaxToken /\ 1 \in 0..MaxToken /\ 0 \in 0..(MaxToken + 1) /\ 0 \in 0..MaxState
    BY McpAssumption
<1> QED
    BY <1>1, <1>2 DEF Mcp!NoCall, Mcp!Call, Mcp!NoBrowser, Mcp!Browser, Mcp!Token

(* Two of the sets hold an empty string: here they go by a name. *)
Gots == {"", "granted", "kept", "refused", "failed"}
Redirects == Origins \cup {""}

(* The type of a call, with the names above. *)
LEMMA CallIs ==
    /\ Mcp!Call =
           [pc : {"idle", "body", "joined", "asking", "answered", "sent"}, id : Ids,
            project : Projects, oauth : BOOLEAN, tries : 0..2, token : Mcp!Token,
            grant : Mcp!Token, used : Mcp!Token, client : Nat, got : Gots, from : 0..MaxToken + 1]
    /\ "granted" \in Gots /\ "kept" \in Gots /\ "refused" \in Gots /\ "failed" \in Gots
BY Zenon DEF Mcp!Call, Gots

(* The type of the row of a server, with the names above. *)
LEMMA ServerIs ==
    /\ Mcp!Server =
           [name : Names, auth : {"none", "oauth", "header"}, mode : {"default", "optional"},
            client : Nat, redirect : Redirects, registers : BOOLEAN, iss : BOOLEAN]
    /\ Origins \subseteq Redirects
BY Zenon DEF Mcp!Server, Redirects

(* A row is neither of the marks of none, which are no call either. *)
LEMMA McpRows ==
    /\ Mcp!None # Mcp!Gone /\ Mcp!None \notin Calls
    /\ \A rec \in Mcp!Server : rec # Mcp!None /\ rec # Mcp!Gone
    /\ \A rec \in Mcp!Connection : rec # Mcp!None
<1>1. "gone" \in DOMAIN Mcp!Gone /\ "gone" \notin DOMAIN Mcp!None /\ "none" \in DOMAIN Mcp!None
    BY DEF Mcp!Gone, Mcp!None
<1>2. ASSUME NEW rec \in Mcp!Server PROVE "gone" \notin DOMAIN rec /\ "none" \notin DOMAIN rec
    BY <1>2 DEF Mcp!Server
<1>3. ASSUME NEW rec \in Mcp!Connection PROVE "none" \notin DOMAIN rec
    BY <1>3 DEF Mcp!Connection
<1> QED
    BY <1>1, <1>2, <1>3, McpAssumption DEF Mcp!None

(* What the type invariant says of each row, connection, call and browser. *)
LEMMA McpTyped ==
    Mcp!McpTypes =>
        /\ servers \in [Ids -> Mcp!Server \cup {Mcp!None, Mcp!Gone}]
        /\ conn \in [Ids -> Mcp!Connection \cup {Mcp!None}]
        /\ refreshing \in [Ids -> {Mcp!None} \cup Calls]
        /\ call \in [Calls -> Mcp!Call] /\ browser \in [Browsers -> Mcp!Browser]
        /\ asked \in [1..MaxState -> Nat] /\ issued \in Nat /\ issued \in Mcp!Token
        /\ good \subseteq Mcp!Token /\ usable \subseteq Mcp!Token \X Nat /\ crossed \subseteq Ids
        /\ \A s \in Ids : /\ Mcp!declared(s) <=> servers[s] \in Mcp!Server
                          /\ conn[s] # Mcp!None =>
                                 /\ conn[s] \in Mcp!Connection
                                 /\ conn[s].token \in Mcp!Token /\ conn[s].refresh \in Mcp!Token
                                 /\ conn[s].grant \in Mcp!Token
        /\ \A c \in Calls : /\ call[c] \in Mcp!Call /\ call[c].id \in Ids
                            /\ call[c].from \in Nat /\ call[c].grant \in Nat
                            /\ call[c].used \in Nat /\ call[c].client \in Nat
                            /\ call[c].token \in Nat
        /\ \A b \in Browsers : browser[b] \in Mcp!Browser /\ browser[b].id \in Ids
<1> SUFFICES ASSUME Mcp!McpTypes PROVE
        /\ issued \in Nat
        /\ \A s \in Ids : /\ Mcp!declared(s) <=> servers[s] \in Mcp!Server
                          /\ conn[s] # Mcp!None =>
                                 /\ conn[s] \in Mcp!Connection
                                 /\ conn[s].token \in Mcp!Token /\ conn[s].refresh \in Mcp!Token
                                 /\ conn[s].grant \in Mcp!Token
        /\ \A c \in Calls : /\ call[c] \in Mcp!Call /\ call[c].id \in Ids
                            /\ call[c].from \in Nat /\ call[c].grant \in Nat
                            /\ call[c].used \in Nat /\ call[c].client \in Nat
                            /\ call[c].token \in Nat
        /\ \A b \in Browsers : browser[b] \in Mcp!Browser /\ browser[b].id \in Ids
    BY DEF Mcp!McpTypes
<1>1. Mcp!Token \subseteq Nat /\ 0..(MaxToken + 1) \subseteq Nat
    BY McpAssumption DEF Mcp!Token
<1>2. issued \in Nat
    BY <1>1 DEF Mcp!McpTypes
<1>3. ASSUME NEW s \in Ids
      PROVE  /\ Mcp!declared(s) <=> servers[s] \in Mcp!Server
             /\ conn[s] # Mcp!None =>
                    /\ conn[s] \in Mcp!Connection
                    /\ conn[s].token \in Mcp!Token /\ conn[s].refresh \in Mcp!Token
                    /\ conn[s].grant \in Mcp!Token
    <2>1. Mcp!declared(s) <=> servers[s] \in Mcp!Server
        BY McpRows DEF Mcp!McpTypes, Mcp!declared
    <2>2. conn[s] # Mcp!None => conn[s] \in Mcp!Connection
        BY DEF Mcp!McpTypes
    <2> QED
        BY <2>1, <2>2 DEF Mcp!Connection
<1>4. ASSUME NEW c \in Calls
      PROVE  /\ call[c] \in Mcp!Call /\ call[c].id \in Ids
             /\ call[c].from \in Nat /\ call[c].grant \in Nat
             /\ call[c].used \in Nat /\ call[c].client \in Nat
             /\ call[c].token \in Nat
    <2>1. call[c] \in Mcp!Call
        BY DEF Mcp!McpTypes
    <2>2. call[c].from \in 0..(MaxToken + 1) /\ call[c].grant \in Mcp!Token
          /\ call[c].used \in Mcp!Token /\ call[c].client \in Nat /\ call[c].id \in Ids
          /\ call[c].token \in Mcp!Token
        BY <2>1, CallIs
    <2> QED
        BY <1>1, <2>1, <2>2
<1>5. ASSUME NEW b \in Browsers PROVE browser[b] \in Mcp!Browser /\ browser[b].id \in Ids
    BY DEF Mcp!McpTypes, Mcp!Browser
<1> QED
    BY <1>2, <1>3, <1>4, <1>5

(* A server that is declared gets a row of its type. *)
LEMMA NewRow ==
    ASSUME NEW name \in Names, NEW auth \in {"none", "oauth", "header"}, NEW client \in Nat, NEW d,
           d.registers \in BOOLEAN, d.iss \in BOOLEAN
    PROVE  /\ Mcp!Row(name, auth, client, d) \in Mcp!Server
           /\ Mcp!Row(name, auth, client, d).client = client
BY DEF Mcp!Row, Mcp!Server

(* What a probe answers is known. *)
LEMMA DocsSay == \A d \in Docs : d.registers \in BOOLEAN /\ d.iss \in BOOLEAN
<1>1. \A d \in Docs : d.registers = TRUE /\ d.iss = TRUE
    BY DEF Docs
<1> QED
    BY <1>1

(* At first no server is declared and nobody calls. *)
LEMMA McpInit == Mcp!Init => McpInv
<1> SUFFICES ASSUME Mcp!Init PROVE McpInv
    OBVIOUS
<1>1. /\ issued \in {0, 1} /\ good = 1..issued /\ usable = {<<n, Mcp!Given>> : n \in good}
      /\ setting = [k \in Projects \X Ids |-> "none"] /\ pending = {} /\ minted \subseteq Projects
      /\ refreshing = [s \in Ids |-> Mcp!None] /\ call = [c \in Calls |-> Mcp!NoCall]
      /\ browser = [b \in Browsers |-> Mcp!NoBrowser] /\ asked = [n \in 1..MaxState |-> 0]
      /\ crossed = {}
    BY DEF Mcp!Init
<1> DEFINE owner == CHOOSE s \in Ids : TRUE
           was == {s \in Ids : s = owner /\ issued = 1}
           rec == [token |-> 1, refresh |-> 1, grant |-> 1, status |-> "ok", fresh |-> FALSE]
<1>2. PICK d \in Docs, name \in Names :
          /\ servers = [s \in Ids |-> IF s \in was THEN Mcp!Row(name, "oauth", Mcp!Given, d)
                                                   ELSE Mcp!None]
          /\ conn = [s \in Ids |-> IF s \in was THEN rec ELSE Mcp!None]
    BY DEF Mcp!Init
<1>3. Mcp!Given \in Nat /\ Mcp!Given \notin 1..MaxState /\ 0 \notin 1..MaxState
    BY McpAssumption DEF Mcp!Given
<1>4. /\ Mcp!Row(name, "oauth", Mcp!Given, d) \in Mcp!Server
      /\ Mcp!Row(name, "oauth", Mcp!Given, d).client = Mcp!Given
    <2>1. d.registers \in BOOLEAN /\ d.iss \in BOOLEAN
        BY DocsSay
    <2> QED
        BY <1>3, <2>1, NewRow
<1>5. rec \in Mcp!Connection
    BY Nobody DEF Mcp!Connection
<1>6. good \subseteq Mcp!Token /\ issued \in Mcp!Token /\ 1..issued \subseteq Nat
    BY <1>1, Nobody, McpAssumption DEF Mcp!Token
<1>7. usable \subseteq Mcp!Token \X Nat
    BY <1>1, <1>3, <1>6
<1> HIDE DEF rec, was
<1>8. Mcp!McpTypes
    BY <1>1, <1>2, <1>4, <1>5, <1>6, <1>7, Nobody DEF Mcp!McpTypes, Mcp!Setting
<1>9. Numbered
    <2>1. Begun = {} /\ 1..0 = {}
        BY <1>1 DEF Begun
    <2>2. Cardinality(Begun) = 0
        BY <2>1, FS_EmptySet
    <2> QED
        BY <2>1, <2>2 DEF Numbered
<1>10. Clients
    BY <1>1, <1>2, <1>3, <1>4, Nobody, McpRows DEF Clients, Registered, Mcp!declared
<1>11. Tried /\ Mapped /\ Later /\ Rounds /\ Mcp!DisconnectIsEffective
    BY <1>1, Nobody
       DEF Tried, Mapped, Later, Rounds, OfTheRow, Covers, Refreshes, Mcp!DisconnectIsEffective
<1>12. Issued
    <2>1. \A s \in Ids : conn[s] # Mcp!None => /\ conn[s] = rec /\ issued = 1
                                               /\ servers[s] \in Mcp!Server
        BY <1>2, <1>4 DEF was
    <2>2. rec.grant = 1 /\ rec.refresh = 1
        BY DEF rec
    <2>3. \A s \in Ids : conn[s] # Mcp!None =>
               Mcp!declared(s) /\ conn[s].grant <= issued /\ conn[s].refresh <= issued
        BY <2>1, <2>2, McpRows DEF Mcp!declared
    <2>4. \A u \in usable : u[1] \in 1..issued
        BY <1>1
    <2>5. \A c \in Calls : /\ call[c].from <= issued + 1 /\ call[c].pc = "idle"
                           /\ ~Refreshes(c)
        BY <1>1, Nobody DEF Refreshes
    <2> QED
        BY <2>3, <2>4, <2>5 DEF Issued
<1> QED
    BY <1>8, <1>9, <1>10, <1>11, <1>12 DEF McpInv, Relays

(* Steps around the calls: those that take nothing from a connection but all of it. *)
ConnKeeps ==
    \A s \in Ids : conn'[s] # Mcp!None =>
        /\ conn[s] # Mcp!None /\ Mcp!declared(s)'
        /\ conn'[s].grant = conn[s].grant /\ conn'[s].refresh = conn[s].refresh
        /\ \/ servers'[s].client = servers[s].client
           \/ \A u \in usable : u[2] # servers'[s].client
(* Such a step, with no call in it and no token given. *)
Around ==
    ConnKeeps /\ UNCHANGED <<refreshing, call, issued, crossed>> /\ usable' \subseteq usable

(* Such a step keeps what is said of calls and connections. *)
LEMMA AroundKeeps == ASSUME Mcp!McpTypes, Relays, Around PROVE Relays'
<1> USE DEF Relays
<1>1. /\ UNCHANGED <<refreshing, call, issued, crossed>> /\ usable' \subseteq usable
      /\ \A c \in Calls : call[c].id \in Ids
    BY McpTyped DEF Around
<1>2. Issued'
    BY <1>1 DEF Issued, Around, ConnKeeps, Refreshes
<1>3. Mapped' /\ Mcp!DisconnectIsEffective'
    BY <1>1 DEF Mapped, Refreshes, Mcp!DisconnectIsEffective
<1>4. Later'
    BY <1>1 DEF Later, Around, ConnKeeps
<1>5. ASSUME NEW c \in Calls PROVE OfTheRow(c)'
    <2> DEFINE s == call[c].id
    <2>1. s \in Ids /\ OfTheRow(c)
        BY <1>1 DEF Rounds
    <2>2. conn'[s] # Mcp!None /\ Stale(c) => Stale(c)'
        BY <1>1, <2>1 DEF Around, ConnKeeps, Stale
    <2>3. conn'[s] # Mcp!None /\ servers'[s].client # servers[s].client => Stale(c)'
        BY <1>1, <2>1 DEF Around, ConnKeeps, Stale
    <2> QED
        BY <1>1, <2>1, <2>2, <2>3 DEF OfTheRow, Around, ConnKeeps, Refreshes
<1>6. \A c, e \in Calls : Covers(c, e)'
    BY <1>1 DEF Rounds, Covers, Refreshes
<1> QED
    BY <1>2, <1>3, <1>4, <1>5, <1>6 DEF Rounds

(* Nothing is authorized, and no client is new to the calls and the tokens. *)
LEMMA SameClients ==
    ASSUME Mcp!McpTypes, Numbered, Clients, UNCHANGED asked, UNCHANGED call,
           usable' \subseteq usable,
           \A s \in Ids : Mcp!declared(s)' =>
               \/ Mcp!declared(s) /\ servers'[s].client = servers[s].client
               \/ servers'[s].client \in {0, Mcp!Given},
           \A b \in Browsers : \/ browser'[b].client = browser[b].client
                               \/ browser'[b].client = 0
                               \/ \E s \in Ids : Mcp!declared(s)
                                                 /\ browser'[b].client = servers[s].client
    PROVE  Numbered' /\ Clients'
<1>1. Numbered'
    BY DEF Numbered, Begun
<1>2. Registered(0) /\ Registered(Mcp!Given)
    BY McpAssumption DEF Registered, Mcp!Given
<1>3. \A k : Registered(k) => Registered(k)'
    BY DEF Registered
<1> QED
    BY <1>1, <1>2, <1>3 DEF Clients

(* A server that is declared has no connection and is no known client's. *)
LEMMA DeclareKept ==
    ASSUME McpInv, NEW s \in Ids, NEW rec \in Mcp!Server, rec.client \in {0, Mcp!Given},
           servers[s] = Mcp!None, servers' = [servers EXCEPT ![s] = rec],
           UNCHANGED <<conn, refreshing, call, asked, issued, good, usable, crossed>>,
           browser' \in [Browsers -> Mcp!Browser],
           \A b \in Browsers : browser'[b].client \in {0, browser[b].client}
    PROVE  /\ servers' \in [Ids -> Mcp!Server \cup {Mcp!None, Mcp!Gone}]
           /\ Numbered' /\ Clients' /\ Tried' /\ Relays'
<1> USE DEF McpInv
<1>1. /\ servers' \in [Ids -> Mcp!Server \cup {Mcp!None, Mcp!Gone}] /\ servers'[s] = rec
      /\ \A t \in Ids \ {s} : servers'[t] = servers[t]
    BY McpTyped
<1>2. conn[s] = Mcp!None
    BY DEF Relays, Issued, Mcp!declared
<1>3. ConnKeeps
    BY <1>1, <1>2 DEF ConnKeeps, Relays, Issued, Mcp!declared
<1>4. Relays'
    BY <1>3, AroundKeeps DEF Around
<1>5. Numbered' /\ Clients'
    BY <1>1, SameClients DEF Mcp!declared
<1> QED
    BY <1>1, <1>4, <1>5 DEF Tried

(* A server is declared: with a header, or after a probe. *)
LEMMA DeclaringKept ==
    ASSUME McpInv, \/ \E s \in Ids, name \in Names : Mcp!CreateWithHeader(s, name)
                   \/ \E b \in Browsers, d \in Docs, client \in {0, Mcp!Given} :
                         Mcp!Probed(b, d, client)
    PROVE  McpInv'
<1> USE DEF McpInv
<1>1. ASSUME NEW s \in Ids, NEW name \in Names, Mcp!CreateWithHeader(s, name) PROVE McpInv'
    <2> DEFINE rec == Mcp!Row(name, "header", 0, [registers |-> FALSE, iss |-> FALSE])
    <2>1. rec \in Mcp!Server /\ rec.client = 0
        <3> DEFINE d == [registers |-> FALSE, iss |-> FALSE]
        <3>1. d.registers \in BOOLEAN /\ d.iss \in BOOLEAN
            OBVIOUS
        <3> HIDE DEF d
        <3>2. /\ Mcp!Row(name, "header", 0, d) \in Mcp!Server
              /\ Mcp!Row(name, "header", 0, d).client = 0
            BY <3>1, NewRow
        <3> QED
            BY <3>2 DEF d
    <2>2. /\ servers[s] = Mcp!None /\ servers' = [servers EXCEPT ![s] = rec]
          /\ UNCHANGED <<conn, setting, pending, minted, refreshing, call, browser, asked, issued,
                         good, usable, crossed>>
        BY <1>1 DEF Mcp!CreateWithHeader, Mcp!flight, Mcp!issuer
    <2> HIDE DEF rec
    <2>3. /\ servers' \in [Ids -> Mcp!Server \cup {Mcp!None, Mcp!Gone}]
          /\ Numbered' /\ Clients' /\ Tried' /\ Relays'
        BY <2>1, <2>2, DeclareKept, McpTyped
    <2> QED
        BY <2>2, <2>3 DEF Mcp!McpTypes
<1>2. ASSUME NEW b \in Browsers, NEW d \in Docs, NEW client \in {0, Mcp!Given},
             Mcp!Probed(b, d, client)
      PROVE  McpInv'
    <2>1. /\ UNCHANGED <<conn, setting, pending, minted, refreshing, call, asked, issued, good,
                         usable, crossed>>
          /\ browser' = [browser EXCEPT ![b] = Mcp!NoBrowser]
        BY <1>2 DEF Mcp!Probed, Mcp!Idle, Mcp!issuer
    <2>2. /\ browser' \in [Browsers -> Mcp!Browser]
          /\ \A a \in Browsers : browser'[a].client \in {0, browser[a].client}
        BY <2>1, Nobody, McpTyped
    <2>3. CASE UNCHANGED servers
        <3>1. Relays'
            BY <2>1, <2>3, AroundKeeps DEF Around, ConnKeeps, Relays, Issued, Mcp!declared
        <3>2. Numbered' /\ Clients'
            BY <2>1, <2>2, <2>3, SameClients DEF Mcp!declared
        <3>3. Tried'
            BY <2>1 DEF Tried
        <3> QED
            BY <2>1, <2>2, <2>3, <3>1, <3>2, <3>3 DEF Mcp!McpTypes
    <2>4. ASSUME NEW s \in Ids, servers[s] = Mcp!None, Mcp!probe(d) # "error",
                 servers' = [servers EXCEPT
                                 ![s] = Mcp!Row(browser[b].name, Mcp!probe(d), client, d)]
          PROVE  McpInv'
        <3> DEFINE rec == Mcp!Row(browser[b].name, Mcp!probe(d), client, d)
        <3>1. /\ browser[b].name \in Names /\ Mcp!probe(d) \in {"none", "oauth", "header"}
              /\ client \in Nat /\ d.registers \in BOOLEAN /\ d.iss \in BOOLEAN
            <4>1. browser[b].name \in Names
                BY McpTyped DEF Mcp!Browser
            <4>2. client \in Nat
                BY McpAssumption DEF Mcp!Given
            <4>3. d.registers \in BOOLEAN /\ d.iss \in BOOLEAN
                BY DocsSay
            <4>4. Mcp!probe(d) \in {"none", "oauth", "header"}
                BY <2>4 DEF Mcp!probe
            <4> QED
                BY <4>1, <4>2, <4>3, <4>4
        <3>2. rec \in Mcp!Server /\ rec.client = client
            BY <3>1, NewRow
        <3> HIDE DEF rec
        <3>3. /\ servers' \in [Ids -> Mcp!Server \cup {Mcp!None, Mcp!Gone}]
              /\ Numbered' /\ Clients' /\ Tried' /\ Relays'
            BY <2>1, <2>2, <2>4, <3>2, DeclareKept DEF rec
        <3> QED
            BY <2>1, <2>2, <3>3 DEF Mcp!McpTypes
    <2> QED
        BY <1>2, <2>3, <2>4 DEF Mcp!Probed
<1> QED
    BY <1>1, <1>2

(* What people do to the rows: nothing there gives a connection anything. *)
LEMMA RowsKept ==
    ASSUME McpInv,
           \/ \E s \in Ids : Mcp!deleteServer(s) \/ Mcp!disconnect(s) \/ Mcp!TokenAges(s)
           \/ \E s \in Ids, mode \in {"default", "optional"} : Mcp!setMode(s, mode)
    PROVE  McpInv'
<1> USE DEF McpInv
<1>1. UNCHANGED <<minted, refreshing, call, browser, asked, issued, good, usable, crossed>>
    BY DEF Mcp!deleteServer, Mcp!disconnect, Mcp!TokenAges, Mcp!setMode, Mcp!flight, Mcp!issuer
<1>2. /\ servers' \in [Ids -> Mcp!Server \cup {Mcp!None, Mcp!Gone}]
      /\ conn' \in [Ids -> Mcp!Connection \cup {Mcp!None}]
      /\ setting' \in [Projects \X Ids -> Mcp!Setting] /\ pending' \subseteq Mcp!OauthState
      /\ \A s \in Ids : Mcp!declared(s)' =>
             Mcp!declared(s) /\ servers'[s].client = servers[s].client
      /\ ConnKeeps
    <2>1. /\ setting \in [Projects \X Ids -> Mcp!Setting] /\ pending \subseteq Mcp!OauthState
        BY DEF Mcp!McpTypes
    <2>2. ASSUME NEW s \in Ids, Mcp!deleteServer(s) PROVE <1>2!:
        <3>1. /\ servers' = [servers EXCEPT ![s] = Mcp!Gone]
              /\ conn' = [conn EXCEPT ![s] = Mcp!None]
              /\ setting' = [k \in DOMAIN setting |-> IF k[2] = s THEN "none" ELSE setting[k]]
              /\ pending' = {p \in pending : p.id # s}
            BY <2>2 DEF Mcp!deleteServer
        <3>2. setting' \in [Projects \X Ids -> Mcp!Setting] /\ pending' \subseteq Mcp!OauthState
            BY <2>1, <3>1 DEF Mcp!Setting
        <3>3. \A t \in Ids : Mcp!declared(t)' => Mcp!declared(t) /\ servers'[t] = servers[t]
            BY <3>1, McpTyped DEF Mcp!declared
        <3>4. \A t \in Ids : conn'[t] # Mcp!None =>
                  t # s /\ conn'[t] = conn[t] /\ servers'[t] = servers[t]
            BY <3>1, McpTyped
        <3>5. ConnKeeps
            BY <3>1, <3>4 DEF ConnKeeps, Relays, Issued, Mcp!declared
        <3> QED
            BY <3>1, <3>2, <3>3, <3>5, McpTyped
    <2>3. ASSUME NEW s \in Ids, Mcp!disconnect(s) PROVE <1>2!:
        <3>1. /\ UNCHANGED <<servers, setting, pending>> /\ conn' = [conn EXCEPT ![s] = Mcp!None]
            BY <2>3 DEF Mcp!disconnect
        <3>2. ConnKeeps
            BY <3>1, McpTyped DEF ConnKeeps, Relays, Issued, Mcp!declared
        <3> QED
            BY <2>1, <3>1, <3>2, McpTyped DEF Mcp!declared
    <2>4. ASSUME NEW s \in Ids, Mcp!TokenAges(s) PROVE <1>2!:
        <3> DEFINE rec == [conn[s] EXCEPT !.fresh = FALSE]
        <3>1. /\ UNCHANGED <<servers, setting, pending>> /\ conn' = [conn EXCEPT ![s] = rec]
              /\ conn[s] # Mcp!None
            BY <2>4 DEF Mcp!TokenAges, Mcp!connected
        <3>2. /\ rec \in Mcp!Connection /\ rec.grant = conn[s].grant
              /\ rec.refresh = conn[s].refresh
            BY <3>1, McpTyped DEF Mcp!Connection
        <3> HIDE DEF rec
        <3>3. /\ conn' \in [Ids -> Mcp!Connection \cup {Mcp!None}] /\ conn'[s] = rec
              /\ \A t \in Ids \ {s} : conn'[t] = conn[t]
            BY <3>1, <3>2, McpTyped
        <3>4. ConnKeeps
            BY <3>1, <3>2, <3>3 DEF ConnKeeps, Relays, Issued, Mcp!declared
        <3> QED
            BY <2>1, <3>1, <3>3, <3>4, McpTyped DEF Mcp!declared
    <2>5. ASSUME NEW s \in Ids, NEW mode \in {"default", "optional"}, Mcp!setMode(s, mode)
          PROVE  <1>2!:
        <3> DEFINE rec == [servers[s] EXCEPT !.mode = mode]
        <3>1. /\ UNCHANGED <<conn, setting, pending>> /\ servers' = [servers EXCEPT ![s] = rec]
              /\ servers[s] \in Mcp!Server
            BY <2>5, McpTyped DEF Mcp!setMode
        <3>2. rec \in Mcp!Server /\ rec.client = servers[s].client
            BY <3>1 DEF Mcp!Server
        <3> HIDE DEF rec
        <3>3. /\ servers' \in [Ids -> Mcp!Server \cup {Mcp!None, Mcp!Gone}] /\ servers'[s] = rec
              /\ \A t \in Ids \ {s} : servers'[t] = servers[t]
            BY <3>1, <3>2, McpTyped
        <3>4. \A t \in Ids : /\ Mcp!declared(t)' <=> Mcp!declared(t)
                             /\ servers'[t].client = servers[t].client
            BY <3>1, <3>2, <3>3, McpRows DEF Mcp!declared
        <3>5. ConnKeeps
            BY <3>1, <3>4 DEF ConnKeeps, Relays, Issued
        <3> QED
            BY <2>1, <3>1, <3>3, <3>4, <3>5, McpTyped
    <2> QED
        BY <2>2, <2>3, <2>4, <2>5
<1>3. Relays'
    BY <1>1, <1>2, AroundKeeps DEF Around
<1>4. Numbered' /\ Clients'
    BY <1>1, <1>2, SameClients
<1>5. Tried'
    BY <1>1 DEF Tried
<1>6. Mcp!McpTypes'
    BY <1>1, <1>2 DEF Mcp!McpTypes
<1> QED
    BY <1>3, <1>4, <1>5, <1>6

(* What no connection is in: the settings, the tokens of the gateway, the *)
(* authorizations, the tabs.                                              *)
Aside ==
    \/ \E p \in Projects, s \in Ids, on \in BOOLEAN : Mcp!setProjectServer(p, s, on)
    \/ \E p \in Projects, s \in Ids : Mcp!clearProjectServer(p, s)
    \/ \E p \in Projects : Mcp!mintMcpGatewayToken(p) \/ Mcp!TaskDeleted(p)
    \/ Mcp!StatesAge
    \/ \E n \in Mcp!Token : Mcp!Revoked(n)
    \/ \E b \in Browsers, name \in Names : Mcp!CreateServer(b, name)
    \/ \E b \in Browsers, p \in pending, iss \in {"", "own", "other"}, code \in BOOLEAN :
           Mcp!finishConnect(b, p, iss, code)

(* None of it touches a connection. *)
LEMMA AsideKept == ASSUME McpInv, Aside PROVE McpInv'
<1> USE DEF McpInv
<1>0. setting \in [Projects \X Ids -> Mcp!Setting] /\ minted \subseteq Projects
    BY DEF Mcp!McpTypes
<1>1. /\ UNCHANGED <<servers, conn, refreshing, call, asked, issued, crossed>>
      /\ usable' \subseteq usable /\ good' \subseteq good
      /\ setting' \in [Projects \X Ids -> Mcp!Setting] /\ minted' \subseteq Projects
    <2>1. ASSUME NEW p \in Projects, NEW s \in Ids, NEW on \in BOOLEAN,
                 Mcp!setProjectServer(p, s, on)
          PROVE  <1>1!:
        BY <1>0, <2>1 DEF Mcp!setProjectServer, Mcp!flight, Mcp!issuer, Mcp!Setting
    <2>2. ASSUME NEW p \in Projects, NEW s \in Ids, Mcp!clearProjectServer(p, s) PROVE <1>1!:
        BY <1>0, <2>2 DEF Mcp!clearProjectServer, Mcp!flight, Mcp!issuer, Mcp!Setting
    <2>3. ASSUME NEW p \in Projects, Mcp!mintMcpGatewayToken(p) \/ Mcp!TaskDeleted(p) PROVE <1>1!:
        BY <1>0, <2>3 DEF Mcp!mintMcpGatewayToken, Mcp!TaskDeleted, Mcp!flight, Mcp!issuer
    <2>4. CASE Mcp!StatesAge
        BY <1>0, <2>4 DEF Mcp!StatesAge, Mcp!flight, Mcp!issuer
    <2>5. ASSUME NEW n \in Mcp!Token, Mcp!Revoked(n) PROVE <1>1!:
        BY <1>0, <2>5 DEF Mcp!Revoked, Mcp!rows, Mcp!flight
    <2>6. ASSUME NEW b \in Browsers, NEW name \in Names, Mcp!CreateServer(b, name) PROVE <1>1!:
        BY <1>0, <2>6 DEF Mcp!CreateServer, Mcp!rows, Mcp!issuer
    <2>7. ASSUME NEW b \in Browsers, NEW p \in pending, NEW iss, NEW code,
                 Mcp!finishConnect(b, p, iss, code)
          PROVE  <1>1!:
        BY <1>0, <2>7 DEF Mcp!finishConnect, Mcp!issuer
    <2> QED
        BY <2>1, <2>2, <2>3, <2>4, <2>5, <2>6, <2>7, Zenon DEF Aside
<1>3. pending' \subseteq Mcp!OauthState
    <2>1. pending \subseteq Mcp!OauthState
        BY DEF Mcp!McpTypes
    <2>2. CASE pending' \subseteq pending
        BY <2>1, <2>2
    <2>3. CASE Mcp!StatesAge
        <3>1. \A p \in pending : [p EXCEPT !.old = TRUE] \in Mcp!OauthState
            BY <2>1 DEF Mcp!OauthState
        <3> QED
            BY <2>3, <3>1 DEF Mcp!StatesAge
    <2>4. ASSUME NEW p \in Projects, NEW s \in Ids, NEW on \in BOOLEAN,
                 Mcp!setProjectServer(p, s, on) \/ Mcp!clearProjectServer(p, s)
          PROVE  pending' \subseteq pending
        BY <2>4 DEF Mcp!setProjectServer, Mcp!clearProjectServer, Mcp!flight
    <2>5. ASSUME NEW p \in Projects, Mcp!mintMcpGatewayToken(p) \/ Mcp!TaskDeleted(p)
          PROVE  pending' \subseteq pending
        BY <2>5 DEF Mcp!mintMcpGatewayToken, Mcp!TaskDeleted, Mcp!flight
    <2>6. ASSUME NEW n \in Mcp!Token, Mcp!Revoked(n) PROVE pending' \subseteq pending
        BY <2>6 DEF Mcp!Revoked, Mcp!rows
    <2>7. ASSUME NEW b \in Browsers, NEW name \in Names, Mcp!CreateServer(b, name)
          PROVE  pending' \subseteq pending
        BY <2>7 DEF Mcp!CreateServer, Mcp!rows
    <2>8. ASSUME NEW b \in Browsers, NEW p \in pending, NEW iss, NEW code,
                 Mcp!finishConnect(b, p, iss, code)
          PROVE  pending' \subseteq pending
        BY <2>8 DEF Mcp!finishConnect
    <2> QED
        BY <2>2, <2>3, <2>4, <2>5, <2>6, <2>7, <2>8, Zenon DEF Aside
<1>4. /\ browser' \in [Browsers -> Mcp!Browser]
      /\ \A b \in Browsers : \/ browser'[b].client = browser[b].client
                             \/ browser'[b].client = 0
                             \/ \E s \in Ids : /\ Mcp!declared(s)
                                               /\ browser'[b].client = servers[s].client
    <2>1. CASE UNCHANGED browser
        BY <2>1, McpTyped
    <2>2. ASSUME NEW b \in Browsers, NEW name \in Names, Mcp!CreateServer(b, name) PROVE <1>4!:
        <3> DEFINE new == [Mcp!NoBrowser EXCEPT !.pc = "probing", !.name = name]
        <3>1. new \in Mcp!Browser /\ new.client = 0
            BY Nobody DEF Mcp!Browser
        <3>2. browser' = [browser EXCEPT ![b] = new]
            BY <2>2 DEF Mcp!CreateServer
        <3> HIDE DEF new
        <3> QED
            BY <3>1, <3>2, McpTyped
    <2>3. ASSUME NEW b \in Browsers, NEW p \in pending, NEW iss, NEW code,
                 Mcp!finishConnect(b, p, iss, code)
          PROVE  <1>4!:
        <3> DEFINE new == [browser[b] EXCEPT !.pc = "exchanging", !.id = p.id, !.state = p.state,
                                             !.client = servers[p.id].client,
                                             !.redirect = p.redirect]
        <3>1. p \in Mcp!OauthState
            BY DEF Mcp!McpTypes
        <3>2. /\ p.id \in Ids /\ p.state \in 0..MaxState /\ p.redirect \in Origins
            <4> DEFINE n == p.state
            <4>1. n \in 1..MaxState /\ p.id \in Ids /\ p.redirect \in Origins
                BY <3>1 DEF Mcp!OauthState
            <4> HIDE DEF n
            <4>2. n \in 0..MaxState
                BY <4>1, McpAssumption
            <4> QED
                BY <4>1, <4>2 DEF n
        <3>3. CASE Mcp!declared(p.id) /\ browser' = [browser EXCEPT ![b] = new]
            <4>1. servers[p.id] \in Mcp!Server
                BY <3>2, <3>3, McpTyped
            <4>2. servers[p.id].client \in Nat
                BY <4>1 DEF Mcp!Server
            <4>3. new \in Mcp!Browser /\ new.client = servers[p.id].client
                BY <3>2, <4>2, McpTyped DEF Mcp!Browser
            <4> HIDE DEF new
            <4> QED
                BY <3>2, <3>3, <4>3, McpTyped
        <3> QED
            BY <2>1, <2>3, <3>3 DEF Mcp!finishConnect
    <2> QED
        BY <2>1, <2>2, <2>3
           DEF Aside, Mcp!setProjectServer, Mcp!clearProjectServer, Mcp!mintMcpGatewayToken,
               Mcp!TaskDeleted, Mcp!StatesAge, Mcp!Revoked, Mcp!flight
<1>5. Relays'
    BY <1>1, AroundKeeps DEF Around, ConnKeeps, Relays, Issued, Mcp!declared
<1>6. Numbered' /\ Clients'
    BY <1>1, <1>4, SameClients DEF Mcp!declared
<1>7. Tried'
    BY <1>1 DEF Tried
<1>8. Mcp!McpTypes'
    BY <1>1, <1>3, <1>4 DEF Mcp!McpTypes
<1> QED
    BY <1>5, <1>6, <1>7, <1>8

(* An authorization begun takes the next number, which nobody's client had. *)
LEMMA NextState == ASSUME McpInv PROVE Mcp!nextState = Cardinality(Begun) + 1
<1>1. {k \in DOMAIN asked : asked[k] # 0} = Begun
    BY DEF Begun, McpInv, Mcp!McpTypes
<1>2. Mcp!nextState = Cardinality({k \in DOMAIN asked : asked[k] # 0}) + 1
    BY Zenon DEF Mcp!nextState, Mcp!Cardinality, Cardinality
<1> QED
    BY <1>1, <1>2

(* An authorization that begins has a new number and a new client, if it *)
(* registers one.                                                        *)
LEMMA Authorized ==
    ASSUME McpInv, NEW b \in Browsers, NEW s \in Ids, NEW client \in Nat \ {0}, NEW o \in Origins,
           Mcp!Authorize(b, s, client, o)
    PROVE  /\ pending' \subseteq Mcp!OauthState /\ asked' \in [1..MaxState -> Nat] /\ Numbered'
           /\ Mcp!nextState \in Nat \ {0} /\ ~Registered(Mcp!nextState)
           /\ \A k : Registered(k) \/ k = Mcp!nextState => Registered(k)'
<1> DEFINE card == Cardinality(Begun)
           n == Mcp!nextState
<1>1. /\ asked \in [1..MaxState -> Nat] /\ pending \subseteq Mcp!OauthState /\ MaxState \in Nat
      /\ Begun = 1..card /\ card \in Nat
    BY McpAssumption DEF McpInv, Mcp!McpTypes, Numbered
<1>2. n = card + 1
    BY NextState
<1>3. /\ n <= MaxState /\ asked' = [asked EXCEPT ![n] = client]
      /\ pending' = {p \in pending : ~p.old}
                    \cup {[state |-> n, id |-> s, redirect |-> o, old |-> FALSE]}
    BY DEF Mcp!Authorize
<1> HIDE DEF n, card
<1>4. n \in 1..MaxState /\ n \notin 1..card
    BY <1>1, <1>2, <1>3
<1>5. asked[n] = 0
    BY <1>1, <1>4 DEF Begun
<1>6. asked' \in [1..MaxState -> Nat] /\ pending' \subseteq Mcp!OauthState
    <2>1. [state |-> n, id |-> s, redirect |-> o, old |-> FALSE] \in Mcp!OauthState
        BY <1>4 DEF Mcp!OauthState
    <2> QED
        BY <1>1, <1>3, <1>4, <2>1
<1>7. Numbered'
    <2>1. Begun' = Begun \cup {n}
        BY <1>1, <1>3, <1>4 DEF Begun
    <2>2. Begun' = 1..(card + 1)
        BY <1>1, <1>2, <2>1
    <2>3. Cardinality(1..(card + 1)) = card + 1
        BY <1>1, FS_Interval
    <2> QED
        BY <1>1, <2>2, <2>3 DEF Numbered
<1>8. n \in Nat \ {0} /\ ~Registered(n)
    BY <1>4, <1>5 DEF Registered
<1>9. \A k : Registered(k) \/ k = n => Registered(k)'
    BY <1>1, <1>3, <1>4 DEF Registered
<1> QED
    BY <1>6, <1>7, <1>8, <1>9 DEF n

(* An authorization begins, or its client is registered (startConnect). *)
LEMMA ConnectKept ==
    ASSUME McpInv, NEW b \in Browsers,
           \/ \E s \in Ids, o \in Origins : Mcp!startConnect(b, s, o)
           \/ Mcp!registerClient(b)
    PROVE  McpInv'
<1> USE DEF McpInv
<1>1. /\ UNCHANGED <<conn, setting, minted, refreshing, call, issued, good, usable, crossed>>
    BY DEF Mcp!startConnect, Mcp!registerClient
<1>2. Tried'
    BY <1>1 DEF Tried
<1>3. ASSUME UNCHANGED <<servers, pending, asked>>, browser' \in [Browsers -> Mcp!Browser],
             \A a \in Browsers : browser'[a].client \in {0, browser[a].client}
      PROVE  McpInv'
    <2>1. Relays'
        BY <1>1, <1>3, AroundKeeps DEF Around, ConnKeeps, Relays, Issued, Mcp!declared
    <2>2. Numbered' /\ Clients'
        BY <1>1, <1>3, SameClients DEF Mcp!declared
    <2> QED
        BY <1>1, <1>2, <1>3, <2>1, <2>2 DEF Mcp!McpTypes
<1>4. ASSUME NEW s \in Ids, NEW o \in Origins, Mcp!startConnect(b, s, o) PROVE McpInv'
    <2>1. /\ Mcp!declared(s) /\ UNCHANGED servers
          /\ \/ /\ browser' = [browser EXCEPT ![b] = [browser[b] EXCEPT !.pc = "registering",
                                                                      !.id = s, !.origin = o]]
                /\ UNCHANGED <<pending, asked>>
             \/ /\ servers[s].client # 0 /\ Mcp!Authorize(b, s, servers[s].client, o)
                /\ UNCHANGED browser
        BY <1>4 DEF Mcp!startConnect
    <2> DEFINE new == [browser[b] EXCEPT !.pc = "registering", !.id = s, !.origin = o]
    <2>2. CASE browser' = [browser EXCEPT ![b] = new] /\ UNCHANGED <<pending, asked>>
        <3>1. new \in Mcp!Browser /\ new.client = browser[b].client
            BY McpTyped DEF Mcp!Browser
        <3> HIDE DEF new
        <3>2. /\ browser' \in [Browsers -> Mcp!Browser]
              /\ \A a \in Browsers : browser'[a].client \in {0, browser[a].client}
            BY <2>2, <3>1, McpTyped
        <3> QED
            BY <1>3, <2>1, <2>2, <3>2
    <2>3. CASE /\ servers[s].client # 0 /\ Mcp!Authorize(b, s, servers[s].client, o)
               /\ UNCHANGED browser
        <3>1. servers[s].client \in Nat \ {0}
            BY <2>1, <2>3, McpTyped DEF Mcp!Server
        <3>2. /\ pending' \subseteq Mcp!OauthState /\ asked' \in [1..MaxState -> Nat] /\ Numbered'
              /\ \A k : Registered(k) => Registered(k)'
            BY <2>3, <3>1, Authorized
        <3>3. Clients'
            BY <1>1, <2>1, <2>3, <3>2 DEF Clients, Mcp!declared
        <3>4. Relays'
            BY <1>1, <2>1, AroundKeeps DEF Around, ConnKeeps, Relays, Issued, Mcp!declared
        <3> QED
            BY <1>1, <1>2, <2>1, <2>3, <3>2, <3>3, <3>4 DEF Mcp!McpTypes
    <2> QED
        BY <2>1, <2>2, <2>3
<1>5. ASSUME Mcp!registerClient(b) PROVE McpInv'
    <2> DEFINE s == browser[b].id
               o == browser[b].origin
               n == Mcp!nextState
               rec == [servers[s] EXCEPT !.client = n, !.redirect = o]
    <2>1. /\ browser' = [browser EXCEPT ![b] = Mcp!NoBrowser]
          /\ \/ /\ Mcp!declared(s) /\ Mcp!Authorize(b, s, n, o)
                /\ servers' = [servers EXCEPT ![s] = rec]
             \/ UNCHANGED <<servers, pending, asked>>
        BY <1>5 DEF Mcp!registerClient, Mcp!Idle
    <2>2. /\ browser' \in [Browsers -> Mcp!Browser] /\ s \in Ids /\ o \in Origins
          /\ \A a \in Browsers : browser'[a].client \in {0, browser[a].client}
        BY <2>1, Nobody, McpTyped DEF Mcp!Browser
    <2>3. CASE UNCHANGED <<servers, pending, asked>>
        BY <1>3, <2>2, <2>3
    <2>4. CASE /\ Mcp!declared(s) /\ Mcp!Authorize(b, s, n, o)
               /\ servers' = [servers EXCEPT ![s] = rec]
        <3> HIDE DEF s, o, n
        <3>0. n \in Nat \ {0}
            BY NextState DEF n, Numbered
        <3>1. /\ pending' \subseteq Mcp!OauthState /\ asked' \in [1..MaxState -> Nat] /\ Numbered'
              /\ ~Registered(n) /\ \A k : Registered(k) \/ k = n => Registered(k)'
            BY <2>2, <2>4, <3>0, Authorized DEF n
        <3>2. rec \in Mcp!Server /\ rec.client = n
            BY <2>2, <2>4, <3>0, McpTyped, ServerIs
        <3> HIDE DEF rec
        <3>3. /\ servers' \in [Ids -> Mcp!Server \cup {Mcp!None, Mcp!Gone}] /\ servers'[s] = rec
              /\ \A t \in Ids \ {s} : servers'[t] = servers[t]
            BY <2>2, <2>4, <3>2, McpTyped
        <3>4. \A t \in Ids : Mcp!declared(t)' <=> Mcp!declared(t)
            BY <2>4, <3>2, <3>3, McpRows DEF Mcp!declared
        <3>5. Clients'
            <4>1. \A t \in Ids : Mcp!declared(t)' => Registered(servers[t].client)'
                BY <3>1, <3>2, <3>3, <3>4 DEF Clients
            <4>2. Registered(0)'
                BY DEF Registered
            <4>3. \A a \in Browsers : Registered(browser[a].client)'
                BY <2>2, <3>1, <4>2 DEF Clients
            <4> QED
                BY <1>1, <3>1, <4>1, <4>3 DEF Clients
        <3>6. ConnKeeps
            BY <1>1, <2>2, <3>1, <3>2, <3>3, <3>4 DEF ConnKeeps, Clients, Relays, Issued
        <3>7. Relays'
            BY <1>1, <3>6, AroundKeeps DEF Around
        <3> QED
            BY <1>1, <1>2, <2>2, <3>1, <3>3, <3>5, <3>7 DEF Mcp!McpTypes
    <2> QED
        BY <2>1, <2>3, <2>4
<1> QED
    BY <1>4, <1>5

(* The code is exchanged: the row gets the tokens and the next grant, later *)
(* than any before (exchangeCode).                                          *)
LEMMA ExchangeKept ==
    ASSUME McpInv, NEW b \in Browsers, NEW fresh \in BOOLEAN, Mcp!exchangeCode(b, fresh)
    PROVE  McpInv'
<1> USE DEF McpInv
<1> DEFINE s == browser[b].id
           k == browser[b].client
           n == issued + 1
           rec == [token |-> n, refresh |-> IF fresh THEN n ELSE 0, grant |-> n,
                   status |-> "ok", fresh |-> TRUE]
<1>1. /\ UNCHANGED <<servers, setting, pending, minted, refreshing, call, asked>>
      /\ browser' = [browser EXCEPT ![b] = Mcp!NoBrowser]
    BY DEF Mcp!exchangeCode, Mcp!Idle
<1>2. /\ browser' \in [Browsers -> Mcp!Browser] /\ s \in Ids /\ k \in Nat /\ Registered(k)
      /\ \A a \in Browsers : browser'[a].client \in {0, browser[a].client}
    BY <1>1, Nobody, McpTyped DEF Mcp!Browser, Clients
<1>3. Tried'
    BY <1>1 DEF Tried
<1>4. CASE UNCHANGED <<issued, good, usable, conn, crossed>>
    <2>1. Relays'
        BY <1>1, <1>4, AroundKeeps DEF Around, ConnKeeps, Relays, Issued, Mcp!declared
    <2>2. Numbered' /\ Clients'
        BY <1>1, <1>2, <1>4, SameClients DEF Mcp!declared
    <2> QED
        BY <1>1, <1>2, <1>3, <1>4, <2>1, <2>2 DEF Mcp!McpTypes
<1>5. CASE /\ n <= MaxToken /\ issued' = n /\ good' = good \cup {n}
           /\ usable' = IF fresh THEN usable \cup {<<n, k>>} ELSE usable
           /\ IF Mcp!declared(s)
                THEN /\ conn' = [conn EXCEPT ![s] = rec]
                     /\ crossed' = IF refreshing[s] = Mcp!None THEN crossed ELSE crossed \cup {s}
                ELSE UNCHANGED <<conn, crossed>>
    <2>1. issued \in Nat /\ n \in Mcp!Token /\ n \in Nat
        BY <1>5, McpTyped, McpAssumption DEF Mcp!Token
    <2>2. rec \in Mcp!Connection
        BY <2>1, Nobody DEF Mcp!Connection
    <2>3. rec.grant = n /\ (rec.refresh = n \/ rec.refresh = 0)
        OBVIOUS
    <2> HIDE DEF rec, s, k
    <2>4. /\ usable' \subseteq usable \cup {<<n, k>>} /\ crossed \subseteq crossed'
          /\ conn' \in [Ids -> Mcp!Connection \cup {Mcp!None}] /\ crossed' \subseteq Ids
          /\ \A t \in Ids : conn'[t] = conn[t] \/ (t = s /\ conn'[t] = rec /\ Mcp!declared(t))
          /\ \A t \in Ids : conn'[t] = conn[t] \/ refreshing[t] = Mcp!None \/ t \in crossed'
        BY <1>2, <1>5, <2>2, McpTyped
    <2>5. Mcp!McpTypes'
        <3>1. good' \subseteq Mcp!Token /\ usable' \subseteq Mcp!Token \X Nat
            BY <1>2, <1>5, <2>1, <2>4, McpTyped
        <3> QED
            BY <1>1, <1>2, <1>5, <2>1, <2>4, <3>1 DEF Mcp!McpTypes
    <2>6. Numbered'
        BY <1>1 DEF Numbered, Begun
    <2>7. Clients'
        <3>1. Registered(0) /\ \A i : Registered(i) => Registered(i)'
            BY <1>1 DEF Registered
        <3>2. \A u \in usable' : u \in usable \/ u[2] = k
            BY <2>4
        <3> QED
            BY <1>1, <1>2, <3>1, <3>2 DEF Clients, Mcp!declared
    <2>8. Issued'
        <3>1. \A t \in Ids : conn'[t] # Mcp!None =>
                  Mcp!declared(t) /\ conn'[t].grant <= n /\ conn'[t].refresh <= n
            BY <2>1, <2>3, <2>4, McpTyped DEF Relays, Issued, Mcp!Token
        <3>2. \A u \in usable' : u[1] \in 1..n
            BY <2>1, <2>4 DEF Relays, Issued
        <3>3. \A c \in Calls : /\ call[c].from <= n + 1
                               /\ Refreshes(c) => call[c].used <= n
                               /\ call[c].pc = "answered" => call[c].token <= n
            BY <2>1, McpTyped DEF Relays, Issued, Mcp!Token
        <3> QED
            BY <1>1, <1>5, <3>1, <3>2, <3>3 DEF Issued, Refreshes, Mcp!declared
    <2>9. Mapped' /\ Mcp!DisconnectIsEffective'
        BY <1>1, <2>4 DEF Relays, Mapped, Refreshes, Mcp!DisconnectIsEffective
    <2>10. Later'
        BY <1>1, <2>3, <2>4, McpTyped DEF Relays, Issued, Later
    <2>11. ASSUME NEW c \in Calls PROVE OfTheRow(c)'
        <3>1. call[c].id \in Ids /\ OfTheRow(c)
            BY McpTyped DEF Relays, Rounds
        <3>2. Refreshes(c) => refreshing[call[c].id] # Mcp!None
            BY McpRows DEF Relays, Mapped
        <3>3. Refreshes(c) /\ Stale(c) => Stale(c)'
            <4>1. Refreshes(c) => call[c].used # n
                BY <2>1, McpTyped DEF Relays, Issued
            <4> QED
                BY <1>1, <2>4, <4>1 DEF Stale
        <3> QED
            BY <1>1, <2>4, <3>1, <3>2, <3>3 DEF OfTheRow, Refreshes
    <2>12. \A c, e \in Calls : Covers(c, e)'
        BY <1>1, <2>4 DEF Relays, Rounds, Covers, Refreshes
    <2> QED
        BY <1>3, <2>5, <2>6, <2>7, <2>8, <2>9, <2>10, <2>11, <2>12 DEF Relays, Rounds
<1> QED
    BY <1>4, <1>5 DEF Mcp!exchangeCode

(* Lite restarts: nobody calls. *)
LEMMA RestartKept == ASSUME McpInv, Mcp!Restart PROVE McpInv'
<1> USE DEF McpInv
<1>1. /\ UNCHANGED <<servers, conn, setting, pending, minted, asked, issued, good, usable, crossed>>
      /\ refreshing' = [s \in Ids |-> Mcp!None] /\ call' = [c \in Calls |-> Mcp!NoCall]
      /\ browser' = [b \in Browsers |-> Mcp!NoBrowser]
    BY DEF Mcp!Restart, Mcp!rows, Mcp!issuer
<1>2. \A c \in Calls : call'[c].pc = "idle" /\ call'[c].client = 0 /\ call'[c].from = 0
    BY <1>1, Nobody
<1>3. Mcp!McpTypes'
    BY <1>1, Nobody DEF Mcp!McpTypes
<1>4. Numbered'
    BY <1>1 DEF Numbered, Begun
<1>5. Clients'
    <2>1. Registered(0) /\ \A i : Registered(i) => Registered(i)'
        BY <1>1 DEF Registered
    <2> QED
        BY <1>1, <1>2, <2>1, Nobody DEF Clients, Mcp!declared
<1>6. Issued'
    BY <1>1, <1>2, McpTyped DEF Relays, Issued, Refreshes, Mcp!declared
<1>7. Tried' /\ Mapped' /\ Later' /\ Rounds' /\ Mcp!DisconnectIsEffective'
    BY <1>1, <1>2
       DEF Tried, Mapped, Later, Rounds, OfTheRow, Covers, Refreshes, Mcp!DisconnectIsEffective
<1> QED
    BY <1>3, <1>4, <1>5, <1>6, <1>7 DEF Relays

(* One call goes on, and refreshes nothing before or after. *)
Grants == \A s \in Ids : conn'[s] # Mcp!None => /\ conn[s] # Mcp!None
                                                /\ conn'[s].grant = conn[s].grant
                                                /\ conn'[s].refresh = conn[s].refresh

(* A call that holds no refresh goes from one step to another. *)
LEMMA OneCall ==
    ASSUME McpInv, NEW c \in Calls, NEW d \in Mcp!Call, call' = [call EXCEPT ![c] = d],
           ~Refreshes(c), d.pc \notin {"asking", "answered"},
           UNCHANGED <<servers, setting, pending, minted, refreshing, browser, asked, issued, good,
                       usable, crossed>>,
           conn' \in [Ids -> Mcp!Connection \cup {Mcp!None}], Grants,
           Registered(d.client), d.from <= issued + 1,
           d.pc = "body" => d.tries = 0, d.pc = "joined" => d.tries <= 1,
           d.pc # "idle" /\ conn[d.id] # Mcp!None => d.from <= conn[d.id].grant,
           d.pc = "sent" /\ d.oauth /\ d.id \notin crossed => d.grant >= d.from,
           \A r \in Calls : Refreshes(r) /\ call[r].id = d.id /\ d.id \notin crossed /\ d.oauth
                            /\ d.pc \notin {"idle", "body"} => d.from <= call[r].grant
    PROVE  McpInv'
<1> USE DEF McpInv
<1>1. /\ call' \in [Calls -> Mcp!Call] /\ call'[c] = d /\ d.id \in Ids
      /\ \A e \in Calls \ {c} : call'[e] = call[e]
      /\ \A e \in Calls : call[e].id \in Ids
    BY McpTyped, CallIs
<1>2. Mcp!McpTypes'
    BY <1>1 DEF Mcp!McpTypes
<1>3. Numbered'
    BY DEF Numbered, Begun
<1>4. Clients'
    <2>1. \A i : Registered(i) => Registered(i)'
        BY DEF Registered
    <2> QED
        BY <1>1, <2>1 DEF Clients, Mcp!declared
<1>5. Tried'
    BY <1>1 DEF Tried
<1>6. \A e \in Calls : Refreshes(e)' <=> e # c /\ Refreshes(e)
    BY <1>1 DEF Refreshes
<1>7. Issued'
    BY <1>1, <1>6 DEF Relays, Issued, Grants, Mcp!declared
<1>8. Mapped'
    BY <1>1, <1>6, McpTyped DEF Relays, Mapped
<1>9. Later'
    BY <1>1 DEF Relays, Later, Grants
<1>10. Mcp!DisconnectIsEffective'
    BY <1>1 DEF Relays, Mcp!DisconnectIsEffective
<1>11. \A e \in Calls : OfTheRow(e)'
    BY <1>1, <1>6 DEF Relays, Rounds, OfTheRow, Stale, Grants
<1>12. \A r, e \in Calls : Covers(r, e)'
    BY <1>1, <1>6 DEF Relays, Rounds, Covers
<1> QED
    BY <1>2, <1>3, <1>4, <1>5, <1>7, <1>8, <1>9, <1>10, <1>11, <1>12 DEF Relays, Rounds

(* An agent's call comes in, with the grant of the connection at that moment. *)
LEMMA RelayKept ==
    ASSUME McpInv, NEW c \in Calls, NEW s \in Ids, NEW p \in Projects, Mcp!relay(c, s, p)
    PROVE  McpInv'
<1> USE DEF McpInv
<1> DEFINE oauth == servers[s].auth = "oauth"
           from == Mcp!firstGrant(s)
           d == [Mcp!NoCall EXCEPT !.pc = "body", !.id = s, !.project = p, !.oauth = oauth,
                                   !.from = from]
<1>1. /\ UNCHANGED <<servers, conn, setting, pending, minted, refreshing, browser, asked, issued,
                     good, usable, crossed>>
      /\ call[c].pc = "idle" /\ call' = [call EXCEPT ![c] = d]
    BY DEF Mcp!relay, Mcp!rows, Mcp!issuer
<1>2. /\ from \in 0..(MaxToken + 1) /\ from <= issued + 1
      /\ conn[s] # Mcp!None => from <= conn[s].grant
    <2>1. CASE conn[s] = Mcp!None
        BY <2>1, McpTyped, McpAssumption DEF Mcp!firstGrant, Mcp!Token
    <2>2. CASE conn[s] # Mcp!None
        <3>1. from = conn[s].grant /\ from \in 0..MaxToken /\ from <= issued /\ issued \in Nat
            BY <2>2, McpTyped DEF Mcp!firstGrant, Mcp!Token, Relays, Issued
        <3> QED
            BY <3>1, McpAssumption
    <2> QED
        BY <2>1, <2>2
<1>3. oauth \in BOOLEAN
    OBVIOUS
<1> HIDE DEF oauth, from
<1>4. d \in Mcp!Call /\ d.pc = "body" /\ d.client = 0 /\ d.from = from /\ d.tries = 0 /\ d.id = s
    <2>1. d \in Mcp!Call
        BY <1>2, <1>3, Nobody, CallIs
    <2>2. d.pc = "body" /\ d.from = from /\ d.id = s
        BY Nobody, CallIs
    <2>3. d.client = Mcp!NoCall.client /\ d.tries = Mcp!NoCall.tries
        BY Nobody, CallIs
    <2>4. Mcp!NoCall.tries = 0
        BY DEF Mcp!NoCall
    <2> QED
        BY <2>1, <2>2, <2>3, <2>4, Nobody
<1> HIDE DEF d
<1>5. Registered(0) /\ ~Refreshes(c) /\ Grants
    BY <1>1 DEF Registered, Refreshes, Grants
<1> QED
    BY <1>1, <1>2, <1>4, <1>5, OneCall, McpTyped

(* Nothing moves but the calls, the map and the connections. *)
Bystanders ==
    UNCHANGED <<servers, setting, pending, minted, browser, asked, issued, good, usable, crossed>>

(* A call starts a refresh, of the connection as it is. *)
LEMMA AskKept ==
    ASSUME McpInv, NEW c \in Calls, NEW s \in Ids, s = call[c].id, call[c].pc \in {"body", "sent"},
           call[c].tries <= 1, refreshing[s] = Mcp!None, Mcp!declared(s), conn[s] # Mcp!None,
           call' = [call EXCEPT ![c] = [call[c] EXCEPT !.pc = "asking", !.used = conn[s].refresh,
                                            !.client = servers[s].client, !.grant = conn[s].grant]],
           refreshing' = [refreshing EXCEPT ![s] = c], UNCHANGED conn, Bystanders
    PROVE  McpInv'
<1> USE DEF McpInv, Bystanders
<1> DEFINE d == [call[c] EXCEPT !.pc = "asking", !.used = conn[s].refresh,
                                !.client = servers[s].client, !.grant = conn[s].grant]
<1>1. /\ d \in Mcp!Call /\ d.pc = "asking" /\ d.used = conn[s].refresh /\ d.id = s
      /\ d.client = servers[s].client /\ d.grant = conn[s].grant /\ d.from = call[c].from
      /\ d.oauth = call[c].oauth /\ d.tries = call[c].tries
    <2>1. servers[s].client \in Nat
        BY McpTyped, ServerIs
    <2>2. /\ conn[s].refresh \in Mcp!Token /\ conn[s].grant \in Mcp!Token /\ call[c] \in Mcp!Call
        BY McpTyped
    <2>3. d \in Mcp!Call
        BY <2>1, <2>2, CallIs
    <2>4. /\ d.pc = "asking" /\ d.used = conn[s].refresh /\ d.id = s
          /\ d.client = servers[s].client /\ d.grant = conn[s].grant
        BY <2>2, CallIs
    <2>5. d.from = call[c].from /\ d.oauth = call[c].oauth /\ d.tries = call[c].tries
        BY <2>2, CallIs
    <2> QED
        BY <2>3, <2>4, <2>5
<1> HIDE DEF d
<1>2. /\ call' \in [Calls -> Mcp!Call] /\ call'[c] = d
      /\ \A e \in Calls \ {c} : call'[e] = call[e]
      /\ refreshing' \in [Ids -> {Mcp!None} \cup Calls] /\ refreshing'[s] = c
      /\ \A t \in Ids \ {s} : refreshing'[t] = refreshing[t]
      /\ \A e \in Calls : call[e].id \in Ids
    BY <1>1, McpTyped DEF d
<1>3. Mcp!McpTypes'
    BY <1>2 DEF Mcp!McpTypes
<1>4. Numbered'
    BY DEF Numbered, Begun
<1>5. Clients'
    <2>1. \A i : Registered(i) => Registered(i)'
        BY DEF Registered
    <2> QED
        BY <1>1, <1>2, <2>1 DEF Clients, Mcp!declared
<1>6. Tried'
    BY <1>1, <1>2 DEF Tried
<1>7. /\ \A e \in Calls : Refreshes(e)' <=> e = c \/ Refreshes(e)
      /\ ~Refreshes(c) /\ \A e \in Calls : Refreshes(e) => call[e].id # s
    BY <1>1, <1>2, McpRows DEF Refreshes, Relays, Mapped
<1>8. Issued'
    BY <1>1, <1>2, <1>7 DEF Relays, Issued, Mcp!declared
<1>9. Mapped'
    BY <1>1, <1>2, <1>7, McpTyped DEF Relays, Mapped
<1>10. Later'
    BY <1>1, <1>2 DEF Relays, Later
<1>11. Mcp!DisconnectIsEffective'
    BY <1>1, <1>2 DEF Relays, Mcp!DisconnectIsEffective
<1>12. ASSUME NEW e \in Calls PROVE OfTheRow(e)'
    <2>1. CASE e = c
        BY <1>1, <1>2, <2>1 DEF OfTheRow, Stale
    <2>2. CASE e # c
        BY <1>2, <1>7, <2>2 DEF Relays, Rounds, OfTheRow, Stale
    <2> QED
        BY <2>1, <2>2
<1>13. ASSUME NEW r \in Calls, NEW e \in Calls PROVE Covers(r, e)'
    <2>1. CASE r = c
        BY <1>1, <1>2, <2>1 DEF Covers, Relays, Later
    <2>2. CASE r # c
        BY <1>1, <1>2, <1>7, <2>2 DEF Relays, Rounds, Covers
    <2> QED
        BY <2>1, <2>2
<1> QED
    BY <1>3, <1>4, <1>5, <1>6, <1>8, <1>9, <1>10, <1>11, <1>12, <1>13 DEF Relays, Rounds

(* The record of a call that is sent. *)
LEMMA SentIs ==
    ASSUME McpInv, NEW c \in Calls, call[c].tries <= 1, NEW token \in Mcp!Token,
           NEW grant \in Mcp!Token
    PROVE  LET d == Mcp!Sent(call[c], token, grant) IN
           /\ d \in Mcp!Call /\ d.pc = "sent" /\ d.grant = grant /\ d.id = call[c].id
           /\ d.client = call[c].client /\ d.from = call[c].from /\ d.oauth = call[c].oauth
<1> DEFINE n == call[c].tries + 1
           d == [call[c] EXCEPT !.pc = "sent", !.token = token, !.grant = grant, !.tries = n]
<1>1. call[c] \in Mcp!Call
    BY McpTyped DEF McpInv
<1>2. n \in 0..2
    BY <1>1, CallIs
<1> HIDE DEF n
<1>3. /\ d \in Mcp!Call /\ d.pc = "sent" /\ d.grant = grant /\ d.id = call[c].id
      /\ d.client = call[c].client /\ d.from = call[c].from /\ d.oauth = call[c].oauth
    BY <1>1, <1>2, CallIs
<1> QED
    BY <1>3 DEF n, Mcp!Sent

(* What is left when a call goes no further. *)
LEMMA Dropped ==
    ASSUME McpInv, NEW c \in Calls, ~Refreshes(c), call' = [call EXCEPT ![c] = Mcp!NoCall],
           UNCHANGED refreshing, Bystanders,
           conn' \in [Ids -> Mcp!Connection \cup {Mcp!None}], Grants
    PROVE  McpInv'
<1>1. Registered(0)
    BY DEF Registered
<1>2. 0 <= issued + 1
    BY McpTyped DEF McpInv
<1> QED
    BY <1>1, <1>2, Nobody, OneCall DEF Bystanders

(* A call asks for an access token: it has one that is good, it joins the *)
(* refresh in flight, it starts one, or there is nothing to refresh with. *)
LEMMA AccessKept ==
    ASSUME McpInv, NEW c \in Calls, NEW refused, call[c].pc \in {"body", "sent"}, call[c].oauth,
           call[c].tries <= 1, call[c].pc = "body" => conn[call[c].id] # Mcp!None,
           Mcp!accessToken(c, refused), Bystanders
    PROVE  McpInv'
<1> DEFINE d == call[c]
           s == d.id
<1>1. /\ d \in Mcp!Call /\ s \in Ids /\ ~Refreshes(c) /\ Registered(d.client)
      /\ d.from <= issued + 1
      /\ Mcp!McpTypes /\ Relays /\ Later /\ Issued /\ Mapped /\ Rounds
    BY McpTyped DEF McpInv, Refreshes, Relays, Clients, Issued
<1>2. UNCHANGED conn => conn' \in [Ids -> Mcp!Connection \cup {Mcp!None}] /\ Grants
    BY <1>1, McpTyped DEF Grants
<1>3. CASE /\ Mcp!inFlight(s) /\ call' = [call EXCEPT ![c].pc = "joined"]
           /\ UNCHANGED <<conn, refreshing>>
    <2> DEFINE j == [d EXCEPT !.pc = "joined"]
    <2>1. /\ j \in Mcp!Call /\ j.pc = "joined" /\ j.client = d.client /\ j.from = d.from
          /\ j.id = s /\ j.oauth = d.oauth /\ j.tries = d.tries
        BY <1>1, CallIs
    <2>2. call' = [call EXCEPT ![c] = j]
        BY <1>3
    <2>3. \A r \in Calls : Refreshes(r) /\ call[r].id = s /\ s \notin crossed
                           => d.from <= call[r].grant
        <3> SUFFICES ASSUME NEW r \in Calls, Refreshes(r), call[r].id = s, s \notin crossed
                     PROVE  d.from <= call[r].grant
            OBVIOUS
        <3>1. CASE d.pc = "sent"
            BY <1>1, <3>1 DEF Rounds, Covers
        <3>2. CASE d.pc = "body"
            BY <1>1, <3>2 DEF Rounds, OfTheRow, Later
        <3> QED
            BY <3>1, <3>2
    <2>4. conn[s] # Mcp!None => d.from <= conn[s].grant
        BY <1>1 DEF Later
    <2> HIDE DEF j, d, s
    <2> QED
        BY <1>1, <1>2, <1>3, <2>1, <2>2, <2>3, <2>4, OneCall DEF Bystanders, d, s
<1>4. CASE call' = [call EXCEPT ![c] = Mcp!NoCall] /\ UNCHANGED <<conn, refreshing>>
    BY <1>1, <1>2, <1>4, Dropped
<1>5. CASE /\ ~Mcp!inFlight(s) /\ Mcp!connected(s)
           /\ call' = [call EXCEPT ![c] = Mcp!Sent(d, conn[s].token, conn[s].grant)]
           /\ UNCHANGED <<conn, refreshing>>
    <2> DEFINE new == Mcp!Sent(d, conn[s].token, conn[s].grant)
    <2>1. conn[s] # Mcp!None /\ conn[s].token \in Mcp!Token /\ conn[s].grant \in Mcp!Token
        BY <1>1, <1>5, McpTyped DEF Mcp!connected
    <2>2. /\ new \in Mcp!Call /\ new.pc = "sent" /\ new.grant = conn[s].grant /\ new.id = s
          /\ new.client = d.client /\ new.from = d.from /\ new.oauth = d.oauth
        BY <2>1, SentIs
    <2>3. d.from <= conn[s].grant
        BY <1>1, <2>1 DEF Later
    <2>4. conn[s].grant >= d.from
        BY <1>1, <2>1, <2>3, McpTyped DEF Mcp!Token
    <2>5. \A r \in Calls : Refreshes(r) => call[r].id # s
        BY <1>1, <1>5, McpRows DEF Mapped, Mcp!inFlight
    <2> HIDE DEF new
    <2> QED
        BY <1>1, <1>2, <1>5, <2>2, <2>3, <2>4, <2>5, OneCall DEF Bystanders, new
<1>6. CASE /\ Mcp!connected(s) /\ conn' = [conn EXCEPT ![s].status = "needs_reauth"]
           /\ call' = [call EXCEPT ![c] = Mcp!NoCall] /\ UNCHANGED refreshing
    <2> DEFINE rec == [conn[s] EXCEPT !.status = "needs_reauth"]
    <2>1. rec \in Mcp!Connection /\ rec.grant = conn[s].grant /\ rec.refresh = conn[s].refresh
          /\ conn[s] # Mcp!None
        BY <1>1, <1>6, McpTyped DEF Mcp!Connection, Mcp!connected
    <2>2. conn' = [conn EXCEPT ![s] = rec]
        BY <1>6
    <2> HIDE DEF rec
    <2>3. conn' \in [Ids -> Mcp!Connection \cup {Mcp!None}] /\ Grants
        BY <1>1, <2>1, <2>2, McpTyped DEF Grants
    <2> QED
        BY <1>1, <1>6, <2>3, Dropped
<1>7. CASE /\ ~Mcp!inFlight(s) /\ Mcp!declared(s) /\ Mcp!connected(s)
           /\ call' = [call EXCEPT ![c] = [d EXCEPT !.pc = "asking", !.used = conn[s].refresh,
                                           !.client = servers[s].client, !.grant = conn[s].grant]]
           /\ refreshing' = [refreshing EXCEPT ![s] = c] /\ UNCHANGED conn
    BY <1>1, <1>7, AskKept DEF Mcp!inFlight, Mcp!connected
<1> QED
    BY <1>3, <1>4, <1>5, <1>6, <1>7 DEF Mcp!accessToken

(* The call is sent for the first time. *)
LEMMA SendKept == ASSUME McpInv, NEW c \in Calls, Mcp!Send(c) PROVE McpInv'
<1> DEFINE d == call[c]
<1>1. d.pc = "body" /\ Bystanders /\ d.tries <= 1 /\ ~Refreshes(c) /\ Mcp!McpTypes /\ d \in Mcp!Call
    BY McpTyped DEF Mcp!Send, Mcp!issuer, Bystanders, McpInv, Tried, Refreshes
<1>2. UNCHANGED conn => conn' \in [Ids -> Mcp!Connection \cup {Mcp!None}] /\ Grants
    BY <1>1, McpTyped DEF Grants
<1>3. CASE /\ ~d.oauth /\ call' = [call EXCEPT ![c] = Mcp!Sent(d, 0, 0)]
           /\ UNCHANGED <<conn, refreshing>>
    <2> DEFINE new == Mcp!Sent(d, 0, 0)
    <2>1. /\ new \in Mcp!Call /\ new.pc = "sent" /\ new.id = d.id
          /\ new.client = d.client /\ new.from = d.from /\ new.oauth = d.oauth
        BY <1>1, Nobody, SentIs
    <2>2. Registered(d.client) /\ d.from <= issued + 1 /\ d.id \in Ids
          /\ (conn[d.id] # Mcp!None => d.from <= conn[d.id].grant)
        BY <1>1, McpTyped DEF McpInv, Relays, Clients, Issued, Later
    <2> HIDE DEF new
    <2> QED
        BY <1>1, <1>2, <1>3, <2>1, <2>2, OneCall DEF Bystanders, new
<1>4. CASE call' = [call EXCEPT ![c] = Mcp!NoCall] /\ UNCHANGED <<conn, refreshing>>
    BY <1>1, <1>2, <1>4, Dropped
<1>5. CASE d.oauth /\ ~Mcp!notConnected(d) /\ Mcp!accessToken(c, 0)
    <2>1. conn[d.id] # Mcp!None
        BY <1>5 DEF Mcp!notConnected, Mcp!connected
    <2> QED
        BY <1>1, <1>5, <2>1, AccessKept
<1> QED
    BY <1>3, <1>4, <1>5 DEF Mcp!Send

(* The server answers: the call ends, or is refused and asks again. *)
LEMMA RelayedKept == ASSUME McpInv, NEW c \in Calls, Mcp!Relayed(c) PROVE McpInv'
<1> DEFINE d == call[c]
<1>1. d.pc = "sent" /\ Bystanders /\ ~Refreshes(c) /\ Mcp!McpTypes /\ d \in Mcp!Call
    BY McpTyped DEF Mcp!Relayed, Mcp!issuer, Bystanders, McpInv, Refreshes
<1>2. UNCHANGED conn => conn' \in [Ids -> Mcp!Connection \cup {Mcp!None}] /\ Grants
    BY <1>1, McpTyped DEF Grants
<1>3. CASE call' = [call EXCEPT ![c] = Mcp!NoCall] /\ UNCHANGED <<conn, refreshing>>
    BY <1>1, <1>2, <1>3, Dropped
<1>4. CASE d.oauth /\ Mcp!once(d) /\ Mcp!accessToken(c, d.token)
    BY <1>1, <1>4, AccessKept DEF Mcp!once
<1> QED
    BY <1>3, <1>4 DEF Mcp!Relayed

(* The authorization server answers a refresh: the token a pair gave is a new one, *)
(* and a pair it refuses is worth nothing.                                          *)
LEMMA AnswerKept == ASSUME McpInv, NEW c \in Calls, Mcp!refreshTokens(c) PROVE McpInv'
<1> USE DEF McpInv
<1> DEFINE n == issued + 1
           pair == <<call[c].used, call[c].client>>
<1>1. /\ UNCHANGED <<servers, conn, setting, pending, minted, refreshing, browser, asked, crossed>>
      /\ call[c].pc = "asking" /\ call[c] \in Mcp!Call /\ n \in Nat
    BY McpTyped DEF Mcp!refreshTokens, Mcp!rows
<1>2. /\ \/ n <= MaxToken /\ issued' = n /\ good' = good \cup {n}
         \/ UNCHANGED <<issued, good>>
      /\ \/ UNCHANGED usable
         \/ issued' = n /\ usable' = (usable \ {pair}) \cup {<<n, call[c].client>>}
    BY DEF Mcp!refreshTokens
<1>3. PICK g \in {"granted", "kept", "refused", "failed"} :
          /\ call' = [call EXCEPT ![c].pc = "answered", ![c].got = g, ![c].token = issued']
          /\ g = "refused" => pair \notin usable /\ UNCHANGED usable
    BY Zenon DEF Mcp!refreshTokens
<1> DEFINE now == issued'
           d == [call[c] EXCEPT !.pc = "answered", !.got = g, !.token = now]
<1>4. issued' \in Mcp!Token /\ issued' \in Nat /\ issued <= issued' /\ issued \in Nat
    BY <1>1, <1>2, McpTyped, McpAssumption DEF Mcp!Token
<1>5. call' = [call EXCEPT ![c] = d]
    BY <1>3
<1> HIDE DEF now
<1>6. /\ d \in Mcp!Call
    BY <1>1, <1>4, CallIs DEF now
<1>7. d.pc = "answered" /\ d.token = now /\ d.got = g
    BY <1>1, CallIs
<1>8. /\ d.id = call[c].id /\ d.client = call[c].client /\ d.used = call[c].used
      /\ d.grant = call[c].grant /\ d.from = call[c].from /\ d.oauth = call[c].oauth
      /\ d.tries = call[c].tries
    BY <1>1, CallIs
<1> HIDE DEF d
<1>9. /\ call' \in [Calls -> Mcp!Call] /\ call'[c] = d
      /\ \A e \in Calls \ {c} : call'[e] = call[e]
      /\ \A e \in Calls : call[e].id \in Ids
    BY <1>5, <1>6, McpTyped
<1>10. good' \subseteq Mcp!Token /\ usable' \subseteq Mcp!Token \X Nat
    BY <1>1, <1>2, <1>4, McpTyped
<1>11. Mcp!McpTypes'
    BY <1>1, <1>4, <1>9, <1>10 DEF Mcp!McpTypes
<1>12. Numbered'
    BY <1>1 DEF Numbered, Begun
<1>13. \A u \in usable' : u \in usable \/ (u[1] = n /\ u[2] = call[c].client /\ issued' = n)
    BY <1>2
<1>14. Clients'
    <2>1. \A i : Registered(i) => Registered(i)'
        BY <1>1 DEF Registered
    <2> QED
        BY <1>1, <1>8, <1>9, <1>13, <2>1 DEF Clients, Mcp!declared
<1>15. Tried'
    BY <1>1, <1>7, <1>8, <1>9 DEF Tried
<1>16. \A e \in Calls : /\ Refreshes(e)' <=> Refreshes(e)
                        /\ call'[e].id = call[e].id /\ call'[e].used = call[e].used
                        /\ call'[e].from = call[e].from /\ call'[e].grant = call[e].grant
                        /\ call'[e].client = call[e].client
                        /\ call'[e].pc = "idle" <=> call[e].pc = "idle"
                        /\ call'[e].oauth = call[e].oauth
    BY <1>1, <1>7, <1>8, <1>9 DEF Refreshes
<1>17. Issued'
    <2>1. \A s \in Ids : conn[s] # Mcp!None =>
              Mcp!declared(s) /\ conn[s].grant <= issued' /\ conn[s].refresh <= issued'
        BY <1>4, McpTyped DEF Relays, Issued, Mcp!Token
    <2>2. \A u \in usable' : u[1] \in 1..issued'
        BY <1>1, <1>4, <1>13 DEF Relays, Issued
    <2>3. \A e \in Calls : call[e].from <= issued' + 1 /\ (Refreshes(e) => call[e].used <= issued')
        BY <1>4, McpTyped DEF Relays, Issued
    <2>4. \A e \in Calls : call'[e].pc = "answered" => call'[e].token <= issued'
        <3>1. d.token <= issued'
            BY <1>4, <1>7 DEF now
        <3>2. \A e \in Calls \ {c} : call[e].pc = "answered" => call[e].token <= issued'
            BY <1>4, McpTyped DEF Relays, Issued
        <3> QED
            BY <1>9, <3>1, <3>2
    <2> QED
        BY <1>1, <1>16, <2>1, <2>2, <2>3, <2>4 DEF Issued, Mcp!declared
<1>18. Mapped'
    <2>1. \A e \in Calls : call[e].pc \in {"asking", "answered"}
                          <=> call'[e].pc \in {"asking", "answered"}
        BY <1>1, <1>7, <1>9
    <2>2. \A t \in Ids : refreshing[t] # Mcp!None => refreshing[t] \in Calls
        BY McpTyped
    <2> QED
        BY <1>1, <1>16, <2>1, <2>2 DEF Relays, Mapped, Refreshes
<1>19. Later'
    BY <1>1, <1>16 DEF Relays, Later
<1>20. Mcp!DisconnectIsEffective'
    BY <1>1, <1>7, <1>9 DEF Relays, Mcp!DisconnectIsEffective
<1>21. ASSUME NEW e \in Calls PROVE OfTheRow(e)'
    <2>1. Refreshes(e) /\ Stale(e) => Stale(e)'
        <3>1. Refreshes(e) => call[e].used # n
            BY <1>4, McpTyped DEF Relays, Issued
        <3> QED
            BY <1>1, <1>13, <1>16, <3>1 DEF Stale
    <2>2. CASE e # c
        BY <1>1, <1>9, <1>16, <2>1, <2>2 DEF Relays, Rounds, OfTheRow
    <2>3. CASE e = c
        <3>1. OfTheRow(c) /\ Refreshes(c)
            BY <1>1 DEF Relays, Rounds, Refreshes
        <3>2. g = "refused" /\ call[c].id \notin crossed /\ conn[call[c].id] # Mcp!None => Stale(c)
            BY <1>1, <1>3, <3>1 DEF OfTheRow, Stale
        <3> QED
            BY <1>1, <1>7, <1>9, <1>16, <2>1, <2>3, <3>1, <3>2 DEF OfTheRow
    <2> QED
        BY <2>2, <2>3
<1>22. ASSUME NEW r \in Calls, NEW e \in Calls PROVE Covers(r, e)'
    <2>1. call'[e].pc \notin {"idle", "body"} => call[e].pc \notin {"idle", "body"}
        BY <1>1, <1>9
    <2> QED
        BY <1>1, <1>16, <2>1 DEF Relays, Rounds, Covers
<1> QED
    BY <1>11, <1>12, <1>14, <1>15, <1>17, <1>18, <1>19, <1>20, <1>21, <1>22 DEF Relays, Rounds

(* The refresh is over: the row is written, and all who waited go on with it. *)
LEMMA RefreshedKept == ASSUME McpInv, NEW c \in Calls, Mcp!Refreshed(c) PROVE McpInv'
<1> USE DEF McpInv
<1> DEFINE d == call[c]
           s == d.id
           waiting == {c} \cup {e \in Calls : call[e].pc = "joined" /\ call[e].id = s}
           spent == [conn[s] EXCEPT !.status = "needs_reauth"]
           next == IF d.got = "granted" THEN d.token ELSE conn[s].refresh
           renewed == [conn[s] EXCEPT !.token = d.token, !.fresh = TRUE, !.refresh = next]
<1>1. /\ UNCHANGED <<servers, setting, pending, minted, browser, asked, issued, good, usable,
                     crossed>>
      /\ d.pc = "answered" /\ refreshing' = [refreshing EXCEPT ![s] = Mcp!None]
    BY DEF Mcp!Refreshed, Mcp!issuer, Mcp!settled
<1>2. /\ d \in Mcp!Call /\ s \in Ids /\ d.token \in Mcp!Token /\ d.grant \in Mcp!Token
      /\ d.token <= issued /\ d.tries <= 1
    BY <1>1, McpTyped, CallIs DEF Relays, Issued, Tried
<1>3. \/ UNCHANGED conn
      \/ conn[s] # Mcp!None /\ conn' = [conn EXCEPT ![s] = spent]
      \/ conn[s] # Mcp!None /\ conn' = [conn EXCEPT ![s] = renewed]
    BY Zenon DEF Mcp!Refreshed
<1>4. \E took \in BOOLEAN :
          call' = [e \in Calls |-> IF e \notin waiting THEN call[e]
                                  ELSE IF took THEN Mcp!Sent(call[e], d.token, d.grant)
                                  ELSE Mcp!NoCall]
    BY Zenon DEF Mcp!Refreshed
<1>5. /\ conn' \in [Ids -> Mcp!Connection \cup {Mcp!None}]
      /\ \A t \in Ids : conn'[t] # Mcp!None =>
             /\ conn[t] # Mcp!None /\ conn'[t].grant = conn[t].grant
             /\ conn'[t].refresh = conn[t].refresh \/ conn'[t].refresh = d.token
             /\ t # s => conn'[t] = conn[t]
    <2>1. CASE UNCHANGED conn
        BY <2>1, McpTyped
    <2>2. CASE conn[s] # Mcp!None /\ conn' = [conn EXCEPT ![s] = spent]
        <3>1. /\ spent \in Mcp!Connection /\ spent.grant = conn[s].grant
              /\ spent.refresh = conn[s].refresh
            <4>1. conn[s] \in Mcp!Connection
                BY <1>2, <2>2, McpTyped
            <4> QED
                BY <4>1 DEF Mcp!Connection
        <3> HIDE DEF spent, s
        <3> QED
            BY <1>2, <2>2, <3>1, McpTyped
    <2>3. CASE conn[s] # Mcp!None /\ conn' = [conn EXCEPT ![s] = renewed]
        <3>1. next \in Mcp!Token /\ (next = d.token \/ next = conn[s].refresh)
            BY <1>2, <2>3, McpTyped
        <3> HIDE DEF next
        <3>2. renewed \in Mcp!Connection /\ renewed.grant = conn[s].grant /\ renewed.refresh = next
            BY <1>2, <2>3, <3>1, McpTyped DEF Mcp!Connection
        <3> HIDE DEF renewed, s
        <3> QED
            BY <1>2, <2>3, <3>1, <3>2, McpTyped
    <2> QED
        BY <1>3, <2>1, <2>2, <2>3
<1>6. waiting \subseteq Calls /\ \A e \in waiting : call[e].tries <= 1 /\ call[e].id = s
    BY <1>2 DEF Tried
<1> HIDE DEF spent, renewed, next, waiting
<1>7. /\ call' \in [Calls -> Mcp!Call]
      /\ \A e \in Calls \ waiting : call'[e] = call[e]
      /\ \A e \in waiting :
             \/ call'[e] = Mcp!NoCall
             \/ /\ call'[e].pc = "sent" /\ call'[e].grant = d.grant /\ call'[e].id = s
                /\ call'[e].client = call[e].client /\ call'[e].from = call[e].from
                /\ call'[e].oauth = call[e].oauth
    <2>1. PICK took \in BOOLEAN :
              call' = [e \in Calls |-> IF e \notin waiting THEN call[e]
                                      ELSE IF took THEN Mcp!Sent(call[e], d.token, d.grant)
                                      ELSE Mcp!NoCall]
        BY <1>4 DEF waiting
    <2>2. \A e \in waiting :
              LET sent == Mcp!Sent(call[e], d.token, d.grant) IN
              /\ sent \in Mcp!Call /\ sent.pc = "sent" /\ sent.grant = d.grant /\ sent.id = s
              /\ sent.client = call[e].client /\ sent.from = call[e].from
              /\ sent.oauth = call[e].oauth
        BY <1>2, <1>6, SentIs
    <2> QED
        BY <1>6, <2>1, <2>2, Nobody, McpTyped
<1>8. /\ refreshing' \in [Ids -> {Mcp!None} \cup Calls] /\ refreshing'[s] = Mcp!None
      /\ \A t \in Ids \ {s} : refreshing'[t] = refreshing[t]
    BY <1>1, <1>2, McpTyped
<1>9. \A e \in Calls : /\ Refreshes(e)' <=> Refreshes(e) /\ e # c
                       /\ e # c /\ Refreshes(e) => /\ e \notin waiting /\ call[e].id # s
    <2>1. \A e \in Calls : Refreshes(e) /\ call[e].id = s => e = c
        BY <1>1 DEF Relays, Mapped, Refreshes
    <2>2. \A e \in waiting : e = c \/ call[e].pc = "joined"
        BY DEF waiting
    <2>3. c \in waiting
        BY DEF waiting
    <2> QED
        BY <1>6, <1>7, <2>1, <2>2, <2>3, Nobody DEF Refreshes
<1>10. Mcp!McpTypes'
    BY <1>1, <1>5, <1>7, <1>8 DEF Mcp!McpTypes
<1>11. Numbered'
    BY <1>1 DEF Numbered, Begun
<1>12. Clients'
    <2>1. Registered(0) /\ \A i : Registered(i) => Registered(i)'
        BY <1>1 DEF Registered
    <2>2. \A e \in Calls : call'[e].client = call[e].client \/ call'[e].client = 0
        BY <1>7, Nobody
    <2> QED
        BY <1>1, <2>1, <2>2 DEF Clients, Mcp!declared
<1>13. Tried'
    BY <1>6, <1>7, Nobody DEF Tried
<1>14. Issued'
    <2>1. \A e \in Calls : /\ call'[e].from = call[e].from \/ call'[e].from = 0
                           /\ Refreshes(e)' => call'[e] = call[e]
                           /\ call'[e].pc = "answered" => Refreshes(e)'
        BY <1>7, <1>9, Nobody DEF Refreshes
    <2>2. 0 <= issued + 1
        BY McpTyped
    <2>3. \A e \in Calls : /\ call'[e].from <= issued + 1
                           /\ Refreshes(e)' => call'[e].used <= issued
                           /\ call'[e].pc = "answered" => call'[e].token <= issued
        BY <1>9, <2>1, <2>2 DEF Relays, Issued
    <2>4. \A t \in Ids : conn'[t] # Mcp!None =>
              Mcp!declared(t) /\ conn'[t].grant <= issued /\ conn'[t].refresh <= issued
        BY <1>2, <1>5 DEF Relays, Issued
    <2>5. \A u \in usable : u[1] \in 1..issued
        BY DEF Relays, Issued
    <2> QED
        BY <1>1, <2>3, <2>4, <2>5 DEF Issued, Mcp!declared
<1>15. Mapped'
    <2>1. ASSUME NEW e \in Calls, call'[e].pc \in {"asking", "answered"}
          PROVE  refreshing'[call'[e].id] = e
        <3>1. Refreshes(e)'
            BY <2>1 DEF Refreshes
        <3>2. /\ refreshing[call[e].id] = e /\ call'[e] = call[e] /\ call[e].id # s
              /\ call[e].id \in Ids
            BY <1>7, <1>9, <3>1, McpTyped DEF Relays, Mapped
        <3> QED
            BY <1>8, <3>2
    <2>2. ASSUME NEW t \in Ids, refreshing'[t] # Mcp!None
          PROVE  /\ call'[refreshing'[t]].pc \in {"asking", "answered"}
                 /\ call'[refreshing'[t]].id = t
        <3> DEFINE r == refreshing[t]
        <3>1. /\ t # s /\ refreshing'[t] = r /\ r \in Calls /\ Refreshes(r) /\ call[r].id = t
            BY <1>8, <2>2, McpTyped DEF Relays, Mapped
        <3> HIDE DEF r
        <3>2. r \notin waiting
            BY <1>6, <3>1
        <3> QED
            BY <1>7, <3>1, <3>2 DEF Refreshes
    <2> QED
        BY <2>1, <2>2 DEF Mapped, Refreshes
<1>16. Later'
    <2>1. ASSUME NEW e \in Calls, call'[e].pc # "idle", conn'[call'[e].id] # Mcp!None
          PROVE  call'[e].from <= conn'[call'[e].id].grant
        <3>1. /\ call'[e].from = call[e].from /\ call'[e].id = call[e].id /\ call[e].id \in Ids
              /\ call[e].pc # "idle"
            <4>1. CASE e \in waiting
                <5>1. call[e].pc # "idle" /\ call'[e] # Mcp!NoCall
                    BY <1>1, <2>1, <4>1, Nobody DEF waiting
                <5> QED
                    BY <1>2, <1>6, <1>7, <4>1, <5>1
            <4>2. CASE e \notin waiting
                BY <1>7, <2>1, <4>2, McpTyped
            <4> QED
                BY <4>1, <4>2
        <3>2. conn[call[e].id] # Mcp!None /\ conn'[call[e].id].grant = conn[call[e].id].grant
            BY <1>5, <2>1, <3>1
        <3> QED
            BY <3>1, <3>2 DEF Relays, Later
    <2> QED
        BY <2>1 DEF Later
<1>17. Mcp!DisconnectIsEffective'
    <2>1. ASSUME NEW e \in waiting, s \notin crossed, call[e].oauth PROVE d.grant >= call[e].from
        <3>1. Covers(c, e) /\ Refreshes(c) /\ call[e].pc \notin {"idle", "body"}
            BY <1>1, <1>6, <2>1 DEF Relays, Rounds, Refreshes, waiting
        <3>2. call[e].from <= d.grant
            BY <1>6, <2>1, <3>1 DEF Covers
        <3> QED
            BY <1>6, <3>2, McpTyped
    <2> QED
        BY <1>1, <1>6, <1>7, <2>1, Nobody DEF Relays, Mcp!DisconnectIsEffective
<1>18. ASSUME NEW e \in Calls PROVE OfTheRow(e)'
    <2>1. CASE Refreshes(e)'
        <3>1. e # c /\ e \notin waiting /\ call[e].id # s /\ call[e].id \in Ids /\ OfTheRow(e)
            BY <1>9, <2>1, McpTyped DEF Relays, Rounds
        <3>2. call'[e] = call[e]
            BY <1>7, <3>1
        <3> QED
            BY <1>1, <1>5, <1>9, <2>1, <3>1, <3>2 DEF OfTheRow, Stale
    <2>2. CASE ~Refreshes(e)'
        BY <2>2 DEF OfTheRow
    <2> QED
        BY <2>1, <2>2
<1>19. ASSUME NEW r \in Calls, NEW e \in Calls PROVE Covers(r, e)'
    <2>1. CASE Refreshes(r)'
        <3>1. r # c /\ Refreshes(r) /\ call[r].id # s /\ call'[r] = call[r] /\ Covers(r, e)
            BY <1>7, <1>9, <2>1 DEF Relays, Rounds
        <3>2. CASE e \in waiting
            BY <1>1, <1>7, <3>1, <3>2, Nobody DEF Covers
        <3>3. CASE e \notin waiting
            BY <1>1, <1>7, <3>1, <3>3 DEF Covers
        <3> QED
            BY <3>2, <3>3
    <2>2. CASE ~Refreshes(r)'
        BY <2>2 DEF Covers
    <2> QED
        BY <2>1, <2>2
<1> QED
    BY <1>10, <1>11, <1>12, <1>13, <1>14, <1>15, <1>16, <1>17, <1>18, <1>19 DEF Relays, Rounds

(* Every step keeps the invariant. *)
LEMMA McpNext == ASSUME McpInv, Mcp!Next PROVE McpInv'
<1>1. ASSUME NEW c \in Calls, Mcp!Proceed(c) PROVE McpInv'
    BY <1>1, SendKept, RelayedKept, AnswerKept, RefreshedKept DEF Mcp!Proceed
<1>2. CASE Mcp!Declare
    BY <1>2, DeclaringKept, AsideKept, Zenon DEF Mcp!Declare, Aside
<1>3. CASE Mcp!Connect
    BY <1>3, ConnectKept, AsideKept, Zenon DEF Mcp!Connect, Aside
<1>4. CASE Mcp!Configure
    BY <1>4, RowsKept, AsideKept, Zenon DEF Mcp!Configure, Aside
<1>5. CASE Mcp!World
    BY <1>5, RowsKept, AsideKept, RestartKept, Zenon DEF Mcp!World, Aside
<1>6. CASE Mcp!Steps
    <2>1. ASSUME NEW b \in Browsers, NEW d \in Docs, NEW client \in {0, Mcp!Given},
                 Mcp!Probed(b, d, client)
          PROVE  McpInv'
        BY <2>1, DeclaringKept
    <2>2. ASSUME NEW b \in Browsers, Mcp!registerClient(b) PROVE McpInv'
        BY <2>2, ConnectKept
    <2>3. ASSUME NEW p \in Projects, Mcp!mintMcpGatewayToken(p) PROVE McpInv'
        BY <2>3, AsideKept, Zenon DEF Aside
    <2> QED
        BY <1>1, <1>6, <2>1, <2>2, <2>3, ExchangeKept, RelayKept, Zenon DEF Mcp!Steps
<1> QED
    BY <1>2, <1>3, <1>4, <1>5, <1>6 DEF Mcp!Next, Mcp!Events

(* Every step, and every stutter, keeps the invariant. *)
LEMMA McpStep == McpInv /\ [Mcp!Next]_(Mcp!vars) => McpInv'
<1>1. ASSUME McpInv, UNCHANGED Mcp!vars PROVE McpInv'
    <2>1. UNCHANGED <<servers, conn, setting, pending, minted, refreshing, call, browser, asked,
                      issued, good, usable, crossed>>
        BY <1>1 DEF Mcp!vars, Mcp!rows, Mcp!flight, Mcp!issuer
    <2> QED
        BY <1>1, <2>1
           DEF McpInv, Mcp!McpTypes, Numbered, Begun, Clients, Registered, Tried, Relays, Issued,
               Mapped, Later, Rounds, OfTheRow, Covers, Stale, Refreshes, Mcp!declared,
               Mcp!DisconnectIsEffective
<1> QED
    BY <1>1, McpNext

(* A connection is given up only by a call: one with no refresh token to use, or the one *)
(* whose refresh was refused.                                                            *)
LEMMA Deserved ==
    ASSUME McpInv, Mcp!Next, NEW s \in Ids, Mcp!connected(s), conn'[s] # Mcp!None,
           conn'[s].status = "needs_reauth", s \notin crossed
    PROVE  <<conn[s].refresh, servers[s].client>> \notin usable
<1> USE DEF McpInv
<1>1. /\ conn \in [Ids -> Mcp!Connection \cup {Mcp!None}] /\ conn[s] \in Mcp!Connection
      /\ conn[s].status = "ok" /\ conn'[s] # conn[s]
    BY McpTyped DEF Mcp!connected
<1>2. ASSUME NEW c \in Calls, NEW refused, Mcp!accessToken(c, refused)
      PROVE  <<conn[s].refresh, servers[s].client>> \notin usable
    <2>1. /\ conn' = [conn EXCEPT ![call[c].id].status = "needs_reauth"]
          /\ conn[call[c].id].refresh = 0 /\ call[c].id \in Ids
        BY <1>1, <1>2, McpTyped DEF Mcp!accessToken
    <2>2. call[c].id = s
        BY <1>1, <2>1
    <2> QED
        BY <2>1, <2>2 DEF Relays, Issued
<1>3. ASSUME NEW c \in Calls, Mcp!Refreshed(c)
      PROVE  <<conn[s].refresh, servers[s].client>> \notin usable
    <2> DEFINE d == call[c]
               t == d.id
    <2>1. d.pc = "answered" /\ t \in Ids /\ OfTheRow(c) /\ Refreshes(c)
        BY <1>3, McpTyped DEF Mcp!Refreshed, Relays, Rounds, Refreshes
    <2>2. \/ UNCHANGED conn
          \/ d.got = "refused" /\ conn' = [conn EXCEPT ![t].status = "needs_reauth"]
          \/ \E k : conn' = [conn EXCEPT ![t].token = d.token, ![t].fresh = TRUE, ![t].refresh = k]
        BY <1>3, Zenon DEF Mcp!Refreshed
    <2>3. ASSUME NEW k,
                 conn' = [conn EXCEPT ![t].token = d.token, ![t].fresh = TRUE, ![t].refresh = k]
          PROVE  FALSE
        <3>1. CASE t # s
            BY <1>1, <2>1, <2>3, <3>1
        <3>2. CASE t = s
            <4> DEFINE rec == [conn[s] EXCEPT !.token = d.token, !.fresh = TRUE, !.refresh = k]
            <4>1. conn'[s] = rec
                BY <1>1, <2>3, <3>2
            <4>2. rec.status = conn[s].status
                BY <1>1 DEF Mcp!Connection
            <4> QED
                BY <1>1, <4>1, <4>2
        <3> QED
            BY <3>1, <3>2
    <2>4. d.got = "refused" /\ t = s
        BY <1>1, <2>1, <2>2, <2>3
    <2> QED
        BY <1>1, <2>1, <2>4 DEF OfTheRow, Stale, Mcp!connected
<1>4. ~UNCHANGED conn
    BY <1>1
<1>5. ASSUME NEW c \in Calls, Mcp!Proceed(c)
      PROVE  <<conn[s].refresh, servers[s].client>> \notin usable
    <2>1. Mcp!Send(c) \/ Mcp!Relayed(c) => \E refused : Mcp!accessToken(c, refused)
        BY <1>4 DEF Mcp!Send, Mcp!Relayed
    <2>2. Mcp!refreshTokens(c) => UNCHANGED conn
        BY DEF Mcp!refreshTokens, Mcp!rows
    <2> QED
        BY <1>2, <1>3, <1>4, <1>5, <2>1, <2>2 DEF Mcp!Proceed
<1>6. ASSUME NEW t \in Ids, Mcp!deleteServer(t) \/ Mcp!disconnect(t) \/ Mcp!TokenAges(t) PROVE FALSE
    <2>1. conn' = [conn EXCEPT ![t] = Mcp!None] \/ conn' = [conn EXCEPT ![t].fresh = FALSE]
        BY <1>6 DEF Mcp!deleteServer, Mcp!disconnect, Mcp!TokenAges
    <2> QED
        BY <1>1, <1>6, <2>1 DEF Mcp!Connection
<1>7. ASSUME NEW b \in Browsers, NEW fresh \in BOOLEAN, Mcp!exchangeCode(b, fresh) PROVE FALSE
    <2>1. \/ UNCHANGED conn
          \/ \E rec : rec.status = "ok" /\ conn' = [conn EXCEPT ![browser[b].id] = rec]
        BY <1>7 DEF Mcp!exchangeCode
    <2> QED
        BY <1>1, <1>4, <2>1
<1>8. /\ Mcp!Declare => UNCHANGED conn
      /\ Mcp!Connect => UNCHANGED conn
      /\ Mcp!StatesAge \/ Mcp!Restart \/ (\E n \in Mcp!Token : Mcp!Revoked(n)) => UNCHANGED conn
    <2>1. Mcp!Declare => UNCHANGED conn
        BY DEF Mcp!Declare, Mcp!CreateWithHeader, Mcp!CreateServer, Mcp!rows
    <2>2. Mcp!Connect => UNCHANGED conn
        <3>1. \A b, t, o : Mcp!startConnect(b, t, o) => UNCHANGED conn
            BY Zenon DEF Mcp!startConnect
        <3>2. ASSUME NEW b, NEW p, NEW iss, NEW code, Mcp!finishConnect(b, p, iss, code)
              PROVE  UNCHANGED conn
            BY <3>2 DEF Mcp!finishConnect
        <3> QED
            BY <3>1, <3>2, Zenon DEF Mcp!Connect
    <2>3. Mcp!StatesAge \/ Mcp!Restart \/ (\E n \in Mcp!Token : Mcp!Revoked(n)) => UNCHANGED conn
        BY DEF Mcp!StatesAge, Mcp!Restart, Mcp!Revoked, Mcp!rows
    <2> QED
        BY <2>1, <2>2, <2>3
<1>9. ~Mcp!Configure
    <2>1. \A t, mode : Mcp!setMode(t, mode) => UNCHANGED conn
        BY DEF Mcp!setMode
    <2>2. \A p, t, on : Mcp!setProjectServer(p, t, on) \/ Mcp!clearProjectServer(p, t)
                       => UNCHANGED conn
        BY DEF Mcp!setProjectServer, Mcp!clearProjectServer
    <2>3. \A p : Mcp!TaskDeleted(p) => UNCHANGED conn
        BY DEF Mcp!TaskDeleted
    <2> QED
        BY <1>4, <1>6, <2>1, <2>2, <2>3, Zenon DEF Mcp!Configure
<1>10. CASE Mcp!Events
    BY <1>4, <1>6, <1>8, <1>9, <1>10, Zenon DEF Mcp!Events, Mcp!World
<1>11. CASE Mcp!Steps
    <2>1. \A b, d, client : Mcp!Probed(b, d, client) => UNCHANGED conn
        BY DEF Mcp!Probed
    <2>2. \A b : Mcp!registerClient(b) => UNCHANGED conn
        BY DEF Mcp!registerClient
    <2>3. \A p : Mcp!mintMcpGatewayToken(p) => UNCHANGED conn
        BY DEF Mcp!mintMcpGatewayToken
    <2>4. \A c, t, p : Mcp!relay(c, t, p) => UNCHANGED conn
        BY DEF Mcp!relay, Mcp!rows
    <2> QED
        BY <1>4, <1>5, <1>7, <1>11, <2>1, <2>2, <2>3, <2>4, Zenon DEF Mcp!Steps
<1> QED
    BY <1>10, <1>11 DEF Mcp!Next

(* A step of the whole is a step of the connections, or leaves them as they *)
(* are.                                                                     *)
LEMMA McpScene == ASSUME [Next]_vars PROVE [Mcp!Next]_(Mcp!vars)
<1>1. UNCHANGED vars => UNCHANGED Mcp!vars
    BY DEF vars, mcp, Mcp!vars, Mcp!rows, Mcp!flight, Mcp!issuer
<1>2. ASSUME Next, scene = "mcp"
      PROVE  Mcp!Next
    BY <1>2 DEF Next, Mcp!Next
<1>3. ASSUME Next
      PROVE  Others
    BY <1>3, Zenon DEF Next, Goes, Comes
<1>4. ASSUME Next, scene # "mcp"
      PROVE  UNCHANGED Mcp!vars
    BY <1>3, <1>4 DEF Others, mcp, Mcp!vars, Mcp!rows, Mcp!flight, Mcp!issuer
<1> QED
    BY <1>1, <1>2, <1>4

(* A connection that is forgotten is forgotten: no call that begins after a disconnect *)
(* (disconnect of services/mcp-servers.ts) is relayed on the connection it forgot,      *)
(* even when it joins a refresh begun before.                                           *)
THEOREM DisconnectsAreEffective ==
    /\ Mcp!Spec => []Mcp!DisconnectIsEffective
    /\ Spec => []DisconnectIsEffective
<1>1. McpInv => Mcp!DisconnectIsEffective /\ DisconnectIsEffective
    BY DEF McpInv, Relays, DisconnectIsEffective
<1>2. Init => Mcp!Init
    BY DEF Init
<1>3. Mcp!Spec => []Mcp!DisconnectIsEffective
    BY <1>1, McpInit, McpStep, PTL DEF Mcp!Spec
<1>4. Spec => []DisconnectIsEffective
    BY <1>1, <1>2, McpInit, McpStep, McpScene, PTL DEF Spec
<1> QED
    BY <1>3, <1>4

(* refresh and accessToken of services/mcp-servers.ts mark a connection needs_reauth    *)
(* only when its refresh token is worth nothing to the server's client any more: people *)
(* are not asked to connect again for a refresh that raced another.                     *)
THEOREM ReauthsAreDeserved ==
    /\ Mcp!Spec => Mcp!ReauthIsDeserved
    /\ Spec => ReauthIsDeserved
<1> DEFINE Step ==
        \A s \in Ids :
            Mcp!connected(s) /\ conn'[s] # Mcp!None /\ conn'[s].status = "needs_reauth"
            /\ s \notin crossed
            => <<conn[s].refresh, servers[s].client>> \notin usable
<1>1. McpInv /\ [Mcp!Next]_(Mcp!vars) => [Step]_(Mcp!vars)
    BY Deserved
<1>2. Init => Mcp!Init
    BY DEF Init
<1>3. Mcp!Spec => [][Step]_(Mcp!vars)
    BY <1>1, McpInit, McpStep, PTL DEF Mcp!Spec
<1>4. Spec => [][Step]_(Mcp!vars)
    BY <1>1, <1>2, McpInit, McpStep, McpScene, PTL DEF Spec
<1> QED
    BY <1>3, <1>4 DEF ReauthIsDeserved, Mcp!ReauthIsDeserved

-----------------------------------------------------------------------------
(* The SSH agent of the workers. *)

(* The ssh-agents Lite has spawned so far. *)
Spawned == {n \in Ssh!Agents : proc[n] # "none"}
(* They are numbered in order, so the number of the next one is free. *)
AgentsNumbered == Spawned = 1..Cardinality(Spawned) /\ Cardinality(Spawned) \in Nat
(* An ssh-agent that is not up holds nothing: keys are only ever in its *)
(* memory.                                                              *)
Emptied == \A n \in Ssh!Agents : proc[n] # "up" => holds[n] = {}
(* Every unlock under way is of a key there is. *)
Keyed == \A u \in Unlocks : unlock[u].pc # "idle" => unlock[u].key \in Keys
(* Since a lock that no unlock overlapped, nothing is unlocked and nothing is *)
(* unlocking.                                                                 *)
Quiet == locked => unlocked = Ssh!NoKey /\ ~Ssh!unlocking

(* The rest holds as long as unlocks and locks do not overlap: then one *)
(* unlock is under way at most,                                         *)
One ==
    \A u, v \in Unlocks : unlock[u].pc # "idle" /\ unlock[v].pc # "idle" => u = v
(* an ssh-agent that starts has an unlock that waits for it, *)
Waits ==
    \A n \in Ssh!Agents :
        proc[n] = "starting" => \E u \in Unlocks : unlock[u].pc = "agent" /\ unlock[u].agent = n
(* which waits for the only one that may take the socket, *)
Binds ==
    \A u \in Unlocks : unlock[u].pc = "agent" =>
        /\ unlock[u].agent \in Ssh!Agents /\ proc[unlock[u].agent] # "none"
        /\ sock # 0 => sock = unlock[u].agent /\ proc[sock] # "starting"
(* which forgets the key before it first, and adds its own to an ssh-agent it *)
(* emptied;                                                                   *)
Serves ==
    \A u \in Unlocks :
        /\ unlock[u].pc \in {"agent", "add", "list"} => unlocked = Ssh!NoKey
        /\ unlock[u].pc \in {"empty", "add", "list"} /\ Ssh!reachable(sock) => sshAgent = sock
        /\ unlock[u].pc = "add" /\ Ssh!reachable(sock) => holds[sock] = {}
        /\ unlock[u].pc = "list" /\ Ssh!reachable(sock) => holds[sock] = {unlock[u].key}
(* the ssh-agent at the socket is the one Lite remembers, or the one an *)
(* unlock still waits for;                                              *)
Ours ==
    Ssh!reachable(sock) =>
        \/ sshAgent = sock
        \/ \E u \in Unlocks : unlock[u].pc = "agent" /\ unlock[u].agent = sock
(* a lock under way has forgotten the key already; *)
Shut == (\E l \in Locks : lock[l]) => unlocked = Ssh!NoKey /\ ~Ssh!unlocking
(* the key that reads as unlocked is the one and only key of the ssh-agent at *)
(* the socket;                                                                *)
Open ==
    unlocked # Ssh!NoKey =>
        Ssh!reachable(sock) /\ sshAgent = sock /\ holds[sock] = {unlocked}
(* and the ssh-agent Lite remembers has been there. *)
Live == sshAgent # 0 => proc[sshAgent] \in {"up", "dead"}

(* All of this together. *)
Sole == One /\ Waits /\ Binds /\ Serves /\ Ours /\ Shut /\ Open /\ Live
(* The inductive invariant of the component. *)
SshInv == Ssh!SshTypes /\ AgentsNumbered /\ Emptied /\ Keyed /\ Quiet /\ (~overlapped => Sole)

-----------------------------------------------------------------------------
(* Where it begins, and what holds whatever overlaps. *)

(* Nothing is spawned, unlocked or under way at the beginning. *)
LEMMA SshInit == Ssh!Init => SshInv
<1> SUFFICES ASSUME Ssh!Init PROVE SshInv
    OBVIOUS
<1> USE SshAssumption DEF Ssh!Init, Ssh!NoKey, Ssh!NoJob, Ssh!Agents
<1>1. Ssh!SshTypes
    <2>1. /\ 0 \in 0..MaxAgents
          /\ [pc |-> "idle", key |-> "null", agent |-> 0] \in Ssh!Job
        BY DEF Ssh!Job
    <2>2. unlock \in [Unlocks -> Ssh!Job] /\ lock \in [Locks -> BOOLEAN]
        BY <2>1
    <2>3. /\ proc \in [1..MaxAgents -> {"none", "starting", "up", "dead"}]
          /\ holds \in [1..MaxAgents -> SUBSET Keys]
        OBVIOUS
    <2> QED
        BY <2>1, <2>2, <2>3 DEF Ssh!SshTypes
<1>2. AgentsNumbered
    <2>1. Spawned = {}
        BY DEF Spawned
    <2>2. Cardinality(Spawned) = 0
        BY <2>1, FS_EmptySet
    <2>3. 1..0 = {}
        OBVIOUS
    <2> QED
        BY <2>1, <2>2, <2>3 DEF AgentsNumbered
<1>3. Emptied /\ Keyed
    BY DEF Emptied, Keyed
<1>4. Quiet
    BY DEF Quiet, Ssh!unlocking
<1>5. Sole
    BY DEF Sole, One, Waits, Binds, Serves, Ours, Shut, Open, Live, Ssh!unlocking, Ssh!reachable
<1> QED
    BY <1>1, <1>2, <1>3, <1>4, <1>5 DEF SshInv

(* The next ssh-agent gets a number of its own. *)
LEMMA NextAgent ==
    ASSUME SshInv
    PROVE  /\ Ssh!nextAgent = Cardinality(Spawned) + 1
           /\ Ssh!nextAgent \in Nat \ {0}
           /\ Ssh!nextAgent <= MaxAgents =>
                Ssh!nextAgent \in Ssh!Agents /\ proc[Ssh!nextAgent] = "none"
<1>1. Ssh!nextAgent = Cardinality(Spawned) + 1
    BY Zenon DEF Ssh!nextAgent, Spawned, Ssh!Agents, Ssh!Cardinality, Cardinality
<1>2. Cardinality(Spawned) \in Nat /\ Spawned = 1..Cardinality(Spawned)
    BY DEF SshInv, AgentsNumbered
<1>3. Ssh!nextAgent \notin Spawned /\ Ssh!nextAgent \in Nat \ {0}
    BY <1>1, <1>2
<1> QED
    BY <1>1, <1>3, SshAssumption DEF Spawned, Ssh!Agents

(* Only an unlock spawns an ssh-agent, and gives it the next number. *)
LEMMA NumberedKept ==
    ASSUME SshInv, Ssh!Next
    PROVE  AgentsNumbered'
<1>1. Ssh!SshTypes /\ AgentsNumbered
    BY DEF SshInv
<1>2. CASE \E u \in Unlocks : Ssh!unlockSelectedKey(u)
    <2>1. CASE UNCHANGED proc
        BY <2>1, <1>1 DEF AgentsNumbered, Spawned, Ssh!Agents
    <2>2. CASE Ssh!nextAgent <= MaxAgents /\ proc' = [proc EXCEPT ![Ssh!nextAgent] = "starting"]
        <3> DEFINE c == Cardinality(Spawned)
        <3>1. c \in Nat /\ Spawned = 1..c
            BY <1>1 DEF AgentsNumbered
        <3>2. Ssh!nextAgent = c + 1 /\ Ssh!nextAgent \in Ssh!Agents
            BY <2>2, NextAgent
        <3>3. Spawned' = Spawned \cup {c + 1}
            BY <1>1, <2>2, <3>2 DEF Spawned, Ssh!Agents, Ssh!SshTypes
        <3> HIDE DEF c
        <3>4. Spawned' = 1..(c + 1) /\ c + 1 \in Nat
            BY <3>1, <3>3
        <3>5. Cardinality(1..(c + 1)) = c + 1
            BY <3>1, FS_Interval
        <3> QED
            BY <3>4, <3>5 DEF AgentsNumbered
    <2> QED
        BY <1>2, <2>1, <2>2 DEF Ssh!unlockSelectedKey, Ssh!ensureAgent
<1>3. CASE Spawned' = Spawned
    BY <1>1, <1>3 DEF AgentsNumbered
<1>4. CASE ~\E u \in Unlocks : Ssh!unlockSelectedKey(u)
    <2>1. ASSUME NEW n \in Ssh!Agents, Ssh!Bound(n)
          PROVE  Spawned' = Spawned
        BY <2>1, <1>1 DEF Ssh!Bound, Spawned, Ssh!Agents, Ssh!SshTypes
    <2>2. ASSUME NEW n \in Ssh!Agents, Ssh!AgentExits(n)
          PROVE  Spawned' = Spawned
        BY <2>2, <1>1 DEF Ssh!AgentExits, Spawned, Ssh!Agents, Ssh!SshTypes
    <2>3. ASSUME Ssh!Restart
          PROVE  Spawned' = Spawned
        BY <2>3, <1>1 DEF Ssh!Restart, Spawned, Ssh!Agents, Ssh!SshTypes
    <2>4. ASSUME UNCHANGED proc
          PROVE  Spawned' = Spawned
        BY <2>4 DEF Spawned, Ssh!Agents
    <2>5. UNCHANGED Ssh!ours => UNCHANGED proc
        BY DEF Ssh!ours
    <2>6. CASE Ssh!Events
        BY <2>6, <1>4, <2>2, <2>3, <2>4, <2>5, <1>3
           DEF Ssh!Events, Ssh!updateSettings, Ssh!HostAgent, Ssh!lockKey, Ssh!workerAgentBind
    <2>7. CASE Ssh!Steps
        BY <2>7, <2>1, <2>4, <2>5, <1>3
           DEF Ssh!Steps, Ssh!AgentStarted, Ssh!Emptied, Ssh!Added, Ssh!Unlocked, Ssh!Locked
    <2> QED
        BY <2>6, <2>7 DEF Ssh!Next
<1> QED
    BY <1>2, <1>4

(* Every step keeps the type of the state. *)
LEMMA SshTyped ==
    ASSUME SshInv, Ssh!Next
    PROVE  Ssh!SshTypes'
<1>1. Ssh!SshTypes /\ MaxAgents \in Nat
    BY SshAssumption DEF SshInv
<1>2. Ssh!NoJob \in Ssh!Job
    BY <1>1 DEF Ssh!NoJob, Ssh!Job
<1>3. ASSUME NEW key \in Keys \cup {Ssh!NoKey}, Ssh!updateSettings(key) PROVE Ssh!SshTypes'
    BY <1>1, <1>3 DEF Ssh!updateSettings, Ssh!SshTypes, Ssh!ours, Ssh!Agents
<1>4. ASSUME NEW keys \in {{Ssh!NoKey}} \cup {{k} : k \in Keys}, Ssh!HostAgent(keys)
      PROVE  Ssh!SshTypes'
    BY <1>1, <1>4 DEF Ssh!HostAgent, Ssh!SshTypes, Ssh!ours, Ssh!Agents
<1>5. ASSUME NEW u \in Unlocks, Ssh!unlockSelectedKey(u) PROVE Ssh!SshTypes'
    <2>1. /\ UNCHANGED <<selected, host, holds, sshAgent, unlocked, bind, lock>>
          /\ locked' \in BOOLEAN /\ overlapped' \in BOOLEAN
        BY <1>5, <1>1 DEF Ssh!unlockSelectedKey, Ssh!SshTypes, Ssh!unlocking
    <2>2. CASE Ssh!nextAgent <= MaxAgents /\ Ssh!nextAgent \in Ssh!Agents
        <3>1. /\ [pc |-> "empty", key |-> selected, agent |-> 0] \in Ssh!Job
              /\ [pc |-> "agent", key |-> selected, agent |-> Ssh!nextAgent] \in Ssh!Job
            BY <1>1, <2>2 DEF Ssh!Job, Ssh!SshTypes, Ssh!Agents
        <3>2. unlock' \in [Unlocks -> Ssh!Job]
            BY <1>1, <1>5, <3>1 DEF Ssh!unlockSelectedKey, Ssh!ensureAgent, Ssh!SshTypes
        <3>3. proc' \in [Ssh!Agents -> {"none", "starting", "up", "dead"}]
            BY <1>1, <1>5 DEF Ssh!unlockSelectedKey, Ssh!ensureAgent, Ssh!SshTypes
        <3>4. sock' \in 0..MaxAgents
            BY <1>1, <1>5 DEF Ssh!unlockSelectedKey, Ssh!ensureAgent, Ssh!SshTypes
        <3> QED
            BY <1>1, <2>1, <3>2, <3>3, <3>4 DEF Ssh!SshTypes, Ssh!Agents
    <2>3. CASE ~(Ssh!nextAgent <= MaxAgents)
        <3>1. [pc |-> "empty", key |-> selected, agent |-> 0] \in Ssh!Job
            BY <1>1 DEF Ssh!Job, Ssh!SshTypes
        <3>2. unlock' \in [Unlocks -> Ssh!Job] /\ UNCHANGED <<proc, sock>>
            BY <1>1, <1>5, <2>3, <3>1 DEF Ssh!unlockSelectedKey, Ssh!ensureAgent, Ssh!SshTypes
        <3> QED
            BY <1>1, <2>1, <3>2 DEF Ssh!SshTypes, Ssh!Agents
    <2> QED
        BY <2>2, <2>3, NextAgent
<1>6. ASSUME NEW l \in Locks, Ssh!lockKey(l) PROVE Ssh!SshTypes'
    BY <1>1, <1>6
       DEF Ssh!lockKey, Ssh!SshTypes, Ssh!ours, Ssh!Agents, Ssh!emptiable, Ssh!forgotten,
           Ssh!unlocking
<1>7. ASSUME NEW n \in Ssh!Agents, Ssh!AgentExits(n) PROVE Ssh!SshTypes'
    <2>1. n \in 0..MaxAgents /\ 0 \in 0..MaxAgents
        BY <1>1, <1>7 DEF Ssh!Agents
    <2>2. /\ sock' \in 0..MaxAgents /\ sshAgent' \in 0..MaxAgents
          /\ unlocked' \in Keys \cup {Ssh!NoKey}
        BY <1>1, <1>7, <2>1 DEF Ssh!AgentExits, Ssh!SshTypes, Ssh!exited
    <2>3. /\ proc' \in [Ssh!Agents -> {"none", "starting", "up", "dead"}]
          /\ holds' \in [Ssh!Agents -> SUBSET Keys]
        BY <1>1, <1>7 DEF Ssh!AgentExits, Ssh!SshTypes
    <2> QED
        BY <1>1, <1>7, <2>2, <2>3 DEF Ssh!AgentExits, Ssh!SshTypes, Ssh!Agents
<1>8. ASSUME Ssh!workerAgentBind PROVE Ssh!SshTypes'
    BY <1>1, <1>8 DEF Ssh!workerAgentBind, Ssh!SshTypes, Ssh!ours, Ssh!Agents
<1>9. ASSUME Ssh!Restart PROVE Ssh!SshTypes'
    <2>1. /\ proc' \in [Ssh!Agents -> {"none", "starting", "up", "dead"}]
          /\ holds' \in [Ssh!Agents -> SUBSET Keys]
          /\ unlock' \in [Unlocks -> Ssh!Job] /\ lock' \in [Locks -> BOOLEAN]
        BY <1>1, <1>2, <1>9 DEF Ssh!Restart
    <2>2. sock' \in 0..MaxAgents /\ sshAgent' \in 0..MaxAgents
        BY <1>1, <1>9 DEF Ssh!Restart, Ssh!SshTypes
    <2> QED
        BY <1>1, <1>9, <2>1, <2>2 DEF Ssh!Restart, Ssh!SshTypes, Ssh!Agents
<1>10. ASSUME NEW n \in Ssh!Agents, Ssh!Bound(n) PROVE Ssh!SshTypes'
    <2>1. n \in 0..MaxAgents /\ 0 \in 0..MaxAgents
        BY <1>1, <1>10 DEF Ssh!Agents
    <2>2. /\ sock' \in 0..MaxAgents /\ sshAgent' \in 0..MaxAgents
          /\ unlocked' \in Keys \cup {Ssh!NoKey}
        BY <1>1, <1>10, <2>1 DEF Ssh!Bound, Ssh!SshTypes, Ssh!exited
    <2>3. proc' \in [Ssh!Agents -> {"none", "starting", "up", "dead"}]
        BY <1>1, <1>10 DEF Ssh!Bound, Ssh!SshTypes
    <2> QED
        BY <1>1, <1>10, <2>2, <2>3 DEF Ssh!Bound, Ssh!SshTypes, Ssh!Agents
<1>11. ASSUME NEW u \in Unlocks,
              Ssh!AgentStarted(u) \/ Ssh!Emptied(u) \/ Ssh!Added(u) \/ Ssh!Unlocked(u)
       PROVE  Ssh!SshTypes'
    <2>1. unlock[u] \in Ssh!Job
        BY <1>1 DEF Ssh!SshTypes
    <2>2. /\ [unlock[u] EXCEPT !.pc = "empty"] \in Ssh!Job
          /\ [unlock[u] EXCEPT !.pc = "add"] \in Ssh!Job
          /\ [unlock[u] EXCEPT !.pc = "list"] \in Ssh!Job
        BY <2>1 DEF Ssh!Job
    <2>3. unlock' \in [Unlocks -> Ssh!Job]
        BY <1>1, <1>2, <1>11, <2>2
           DEF Ssh!AgentStarted, Ssh!Emptied, Ssh!Added, Ssh!Unlocked, Ssh!Failed, Ssh!SshTypes
    <2>4. unlock[u].agent \in 0..MaxAgents /\ unlock[u].key \in Keys \cup {Ssh!NoKey}
        BY <2>1 DEF Ssh!Job
    <2>5. CASE Ssh!AgentStarted(u)
        BY <1>1, <2>3, <2>4, <2>5 DEF Ssh!AgentStarted, Ssh!SshTypes, Ssh!Agents
    <2>6. CASE Ssh!Emptied(u)
        <3>1. Ssh!emptied \in [Ssh!Agents -> SUBSET Keys]
            BY <1>1 DEF Ssh!SshTypes, Ssh!emptied
        <3> QED
            BY <1>1, <2>3, <2>6, <3>1 DEF Ssh!Emptied, Ssh!SshTypes, Ssh!Agents
    <2>7. CASE Ssh!Added(u)
        <3>1. unlock[u].key \in Keys
            BY <2>7 DEF SshInv, Keyed, Ssh!Added
        <3>2. holds' \in [Ssh!Agents -> SUBSET Keys]
            BY <1>1, <2>7, <3>1 DEF Ssh!Added, Ssh!SshTypes
        <3> QED
            BY <1>1, <2>3, <2>7, <3>2 DEF Ssh!Added, Ssh!SshTypes, Ssh!Agents
    <2>8. CASE Ssh!Unlocked(u)
        BY <1>1, <2>3, <2>4, <2>8 DEF Ssh!Unlocked, Ssh!SshTypes, Ssh!Agents, Ssh!ours
    <2> QED
        BY <1>11, <2>5, <2>6, <2>7, <2>8
<1>12. ASSUME NEW l \in Locks, Ssh!Locked(l) PROVE Ssh!SshTypes'
    <2>1. Ssh!emptied \in [Ssh!Agents -> SUBSET Keys]
        BY <1>1 DEF Ssh!SshTypes, Ssh!emptied
    <2>2. lock' \in [Locks -> BOOLEAN] /\ holds' \in [Ssh!Agents -> SUBSET Keys]
        BY <1>1, <1>12, <2>1 DEF Ssh!Locked, Ssh!SshTypes
    <2> QED
        BY <1>1, <1>12, <2>2 DEF Ssh!Locked, Ssh!SshTypes, Ssh!Agents
<1> QED
    BY <1>3, <1>4, <1>5, <1>6, <1>7, <1>8, <1>9, <1>10, <1>11, <1>12
       DEF Ssh!Next, Ssh!Events, Ssh!Steps

-----------------------------------------------------------------------------
(* The steps of an unlock. *)

(* What an unlock that goes on keeps of itself. *)
LEMMA UnlockMoves ==
    ASSUME Ssh!SshTypes, NEW u \in Unlocks, NEW p, unlock' = [unlock EXCEPT ![u].pc = p]
    PROVE  /\ unlock'[u].pc = p /\ unlock'[u].key = unlock[u].key
           /\ unlock'[u].agent = unlock[u].agent
<1>1. unlock[u] \in Ssh!Job /\ unlock'[u] = [unlock[u] EXCEPT !.pc = p]
    BY DEF Ssh!SshTypes
<1> QED
    BY <1>1 DEF Ssh!Job

(* What an unlock that fails leaves. *)
LEMMA UnlockFails ==
    ASSUME Ssh!SshTypes, NEW u \in Unlocks, Ssh!Failed(u)
    PROVE  unlock'[u].pc = "idle"
<1>1. unlock'[u] = Ssh!NoJob
    BY DEF Ssh!SshTypes, Ssh!Failed
<1> QED
    BY <1>1 DEF Ssh!NoJob

(* What an unlock begins with: the ssh-agent that is kept, or a new one and a *)
(* freed socket.                                                              *)
LEMMA UnlockBegins ==
    ASSUME SshInv, NEW u \in Unlocks, Ssh!unlockSelectedKey(u)
    PROVE  /\ selected \in Keys
           /\ \A v \in Unlocks : v # u => unlock'[v] = unlock[v]
           /\ UNCHANGED <<holds, sshAgent, unlocked, lock>>
           /\ unlock'[u].key = selected
           /\ \/ /\ unlock'[u].pc = "empty"
                 /\ UNCHANGED <<proc, sock>>
              \/ \E n \in Ssh!Agents :
                    /\ unlock'[u].pc = "agent" /\ unlock'[u].agent = n
                    /\ proc[n] = "none" /\ proc'[n] = "starting" /\ sock' = 0
                    /\ \A m \in Ssh!Agents : m # n => proc'[m] = proc[m]
                    /\ ~(sshAgent # 0 /\ proc[sshAgent] # "dead" /\ sock # 0)
<1>1. Ssh!SshTypes /\ Encrypted \subseteq Keys
    BY SshAssumption DEF SshInv
<1>2. CASE /\ UNCHANGED <<proc, sock>>
           /\ unlock' = [unlock EXCEPT ![u] = [pc |-> "empty", key |-> selected, agent |-> 0]]
    BY <1>1, <1>2 DEF Ssh!unlockSelectedKey, Ssh!SshTypes
<1>3. CASE /\ Ssh!nextAgent <= MaxAgents
           /\ proc' = [proc EXCEPT ![Ssh!nextAgent] = "starting"] /\ sock' = 0
           /\ unlock' = [unlock EXCEPT ![u] =
                              [pc |-> "agent", key |-> selected, agent |-> Ssh!nextAgent]]
           /\ ~(sshAgent # 0 /\ proc[sshAgent] # "dead" /\ sock # 0)
    <2>1. Ssh!nextAgent \in Ssh!Agents /\ proc[Ssh!nextAgent] = "none"
        BY <1>3, NextAgent
    <2> QED
        BY <1>1, <1>3, <2>1 DEF Ssh!unlockSelectedKey, Ssh!SshTypes
<1> QED
    BY <1>2, <1>3 DEF Ssh!unlockSelectedKey, Ssh!ensureAgent

(* Every step keeps what holds of the agents, the unlocks and the last lock *)
(* whatever overlaps.                                                       *)
LEMMA SmallKept ==
    ASSUME SshInv, Ssh!Next
    PROVE  Emptied' /\ Keyed' /\ Quiet'
<1>1. Ssh!SshTypes /\ Emptied /\ Keyed /\ Quiet /\ Encrypted \subseteq Keys
    BY SshAssumption DEF SshInv
<1>2. ASSUME NEW key \in Keys \cup {Ssh!NoKey}, Ssh!updateSettings(key)
      PROVE  Emptied' /\ Keyed' /\ Quiet'
    BY <1>1, <1>2
       DEF Emptied, Keyed, Quiet, Ssh!reachable, Ssh!unlocking, Ssh!updateSettings, Ssh!ours,
           Ssh!SshTypes, Ssh!Agents, Ssh!Job
<1>3. ASSUME NEW keys \in {{Ssh!NoKey}} \cup {{k} : k \in Keys}, Ssh!HostAgent(keys)
      PROVE  Emptied' /\ Keyed' /\ Quiet'
    BY <1>1, <1>3
       DEF Emptied, Keyed, Quiet, Ssh!reachable, Ssh!unlocking, Ssh!HostAgent, Ssh!ours,
           Ssh!SshTypes, Ssh!Agents, Ssh!Job
<1>4. ASSUME NEW u \in Unlocks, Ssh!unlockSelectedKey(u)
      PROVE  Emptied' /\ Keyed' /\ Quiet'
    <2>1. Emptied'
        BY <1>1, <1>4, UnlockBegins DEF Emptied, Ssh!reachable, Ssh!SshTypes, Ssh!Agents
    <2>2. Keyed'
        BY <1>1, <1>4, UnlockBegins DEF Keyed, Ssh!Job, Ssh!SshTypes, Ssh!Agents
    <2>3. Quiet'
        BY <1>1, <1>4
           DEF Quiet, Ssh!unlocking, Ssh!unlockSelectedKey, Ssh!ensureAgent,
               Ssh!SshTypes, Ssh!Agents
    <2> QED
        BY <2>1, <2>2, <2>3
<1>5. ASSUME NEW l \in Locks, Ssh!lockKey(l)
      PROVE  Emptied' /\ Keyed' /\ Quiet'
    BY <1>1, <1>5
       DEF Emptied, Keyed, Quiet, Ssh!reachable, Ssh!unlocking, Ssh!lockKey, Ssh!ours,
           Ssh!emptiable, Ssh!forgotten, Ssh!SshTypes, Ssh!Agents, Ssh!Job
<1>6. ASSUME NEW n \in Ssh!Agents, Ssh!AgentExits(n)
      PROVE  Emptied' /\ Keyed' /\ Quiet'
    BY <1>1, <1>6
       DEF Emptied, Keyed, Quiet, Ssh!reachable, Ssh!unlocking, Ssh!AgentExits, Ssh!exited,
           Ssh!SshTypes, Ssh!Agents, Ssh!Job
<1>7. ASSUME Ssh!workerAgentBind
      PROVE  Emptied' /\ Keyed' /\ Quiet'
    BY <1>1, <1>7
       DEF Emptied, Keyed, Quiet, Ssh!reachable, Ssh!unlocking, Ssh!workerAgentBind,
           Ssh!ours, Ssh!SshTypes, Ssh!Agents, Ssh!Job
<1>8. ASSUME Ssh!Restart
      PROVE  Emptied' /\ Keyed' /\ Quiet'
    BY <1>1, <1>8
       DEF Emptied, Keyed, Quiet, Ssh!reachable, Ssh!unlocking, Ssh!Restart, Ssh!NoJob,
           Ssh!SshTypes, Ssh!Agents, Ssh!Job
<1>9. ASSUME NEW n \in Ssh!Agents, Ssh!Bound(n)
      PROVE  Emptied' /\ Keyed' /\ Quiet'
    BY <1>1, <1>9
       DEF Emptied, Keyed, Quiet, Ssh!reachable, Ssh!unlocking, Ssh!Bound, Ssh!exited,
           Ssh!SshTypes, Ssh!Agents, Ssh!Job
<1>10. ASSUME NEW u \in Unlocks, Ssh!AgentStarted(u)
      PROVE  Emptied' /\ Keyed' /\ Quiet'
    BY <1>1, <1>10
       DEF Emptied, Keyed, Quiet, Ssh!reachable, Ssh!unlocking, Ssh!AgentStarted, Ssh!Failed,
           Ssh!NoJob, Ssh!SshTypes, Ssh!Agents, Ssh!Job
<1>11. ASSUME NEW u \in Unlocks, Ssh!Emptied(u)
      PROVE  Emptied' /\ Keyed' /\ Quiet'
    BY <1>1, <1>11
       DEF Emptied, Keyed, Quiet, Ssh!reachable, Ssh!unlocking, Ssh!Emptied, Ssh!emptied,
           Ssh!SshTypes, Ssh!Agents, Ssh!Job
<1>12. ASSUME NEW u \in Unlocks, Ssh!Added(u)
      PROVE  Emptied' /\ Keyed' /\ Quiet'
    <2>1. Emptied'
        BY <1>1, <1>12
           DEF Emptied, Ssh!reachable, Ssh!Added, Ssh!Failed, Ssh!NoJob, Ssh!SshTypes,
               Ssh!Agents
    <2>2. Keyed'
        BY <1>1, <1>12
           DEF Keyed, Ssh!Job, Ssh!Added, Ssh!Failed, Ssh!NoJob, Ssh!SshTypes, Ssh!Agents
    <2>3. Quiet'
        BY <1>1, <1>12
           DEF Quiet, Ssh!unlocking, Ssh!Added, Ssh!Failed, Ssh!NoJob, Ssh!SshTypes,
               Ssh!Agents
    <2> QED
        BY <2>1, <2>2, <2>3
<1>13. ASSUME NEW u \in Unlocks, Ssh!Unlocked(u)
      PROVE  Emptied' /\ Keyed' /\ Quiet'
    BY <1>1, <1>13
       DEF Emptied, Keyed, Quiet, Ssh!reachable, Ssh!unlocking, Ssh!Unlocked, Ssh!Failed,
           Ssh!NoJob, Ssh!ours, Ssh!SshTypes, Ssh!Agents, Ssh!Job
<1>14. ASSUME NEW l \in Locks, Ssh!Locked(l)
      PROVE  Emptied' /\ Keyed' /\ Quiet'
    BY <1>1, <1>14
       DEF Emptied, Keyed, Quiet, Ssh!reachable, Ssh!unlocking, Ssh!Locked, Ssh!emptied,
           Ssh!SshTypes, Ssh!Agents, Ssh!Job
<1> QED
    BY <1>2, <1>3, <1>4, <1>5, <1>6, <1>7, <1>8, <1>9, <1>10, <1>11, <1>12, <1>13, <1>14
       DEF Ssh!Next, Ssh!Events, Ssh!Steps

-----------------------------------------------------------------------------
(* What holds while no two of them overlap. *)

(* Every step keeps what holds while nothing overlaps, or it is one that *)
(* overlaps another.                                                     *)
LEMMA SoleKept ==
    ASSUME SshInv, Ssh!Next, ~overlapped'
    PROVE  Sole'
<1>1. Ssh!SshTypes /\ Emptied /\ Keyed /\ Encrypted \subseteq Keys /\ (~overlapped => Sole)
    BY SshAssumption DEF SshInv
<1>2. Ssh!SshTypes'
    BY SshTyped
<1>3. ASSUME NEW key \in Keys \cup {Ssh!NoKey}, Ssh!updateSettings(key)
      PROVE  Sole'
    <2>1. Sole
        BY <1>1, <1>3 DEF Ssh!updateSettings
    <2>2. UNCHANGED <<proc, holds, sock, sshAgent, unlocked, unlock, lock>>
        BY <1>3 DEF Ssh!updateSettings, Ssh!ours
    <2> QED
        BY <2>1, <2>2
           DEF Sole, One, Waits, Binds, Serves, Ours, Shut, Open, Live, Ssh!reachable,
               Ssh!unlocking, Ssh!Agents
<1>4. ASSUME NEW keys \in {{Ssh!NoKey}} \cup {{k} : k \in Keys}, Ssh!HostAgent(keys)
      PROVE  Sole'
    <2>1. Sole
        BY <1>1, <1>4 DEF Ssh!HostAgent
    <2>2. UNCHANGED <<proc, holds, sock, sshAgent, unlocked, unlock, lock>>
        BY <1>4 DEF Ssh!HostAgent, Ssh!ours
    <2> QED
        BY <2>1, <2>2
           DEF Sole, One, Waits, Binds, Serves, Ours, Shut, Open, Live, Ssh!reachable,
               Ssh!unlocking, Ssh!Agents
<1>5. ASSUME NEW u \in Unlocks, Ssh!unlockSelectedKey(u)
      PROVE  Sole'
    <2>1. Sole
        BY <1>1, <1>5 DEF Ssh!unlockSelectedKey
    <2>2. (\A v \in Unlocks : unlock[v].pc = "idle") /\ (\A l \in Locks : ~lock[l])
        BY <1>1, <1>5 DEF Ssh!unlockSelectedKey, Ssh!unlocking, Ssh!SshTypes
    <2>3. sshAgent # 0 => sshAgent \in Ssh!Agents
        BY <1>1 DEF Ssh!SshTypes, Ssh!Agents
    <2>4. One'
        BY <2>1, <2>2, <2>3, <1>5, UnlockBegins DEF Sole, One, Ssh!Agents
    <2>5. Waits'
        BY <2>1, <2>2, <2>3, <1>5, UnlockBegins, <1>1 DEF Sole, Waits, Ssh!Agents, Ssh!SshTypes
    <2>6. Binds'
        BY <2>1, <2>2, <2>3, <1>5, UnlockBegins DEF Sole, Binds, Ssh!Agents
    <2>7. Serves'
        BY <2>1, <2>2, <2>3, <1>5, UnlockBegins
           DEF Sole, Serves, Ssh!reachable, Ssh!Agents, Open, Ours
    <2>8. Ours'
        BY <2>1, <2>2, <2>3, <1>5, UnlockBegins, <1>1
           DEF Sole, Ours, Ssh!reachable, Ssh!Agents, Ssh!SshTypes, Binds
    <2>9. Shut'
        BY <2>1, <2>2, <2>3, <1>5, UnlockBegins DEF Sole, Shut, Ssh!unlocking, Ssh!Agents
    <2>10. Open'
        BY <2>1, <2>2, <2>3, <1>5, UnlockBegins, <1>1
           DEF Sole, Open, Ssh!reachable, Ssh!Agents, Ssh!NoKey, Ssh!SshTypes
    <2>11. Live'
        BY <2>1, <2>2, <2>3, <1>5, UnlockBegins, <1>1 DEF Sole, Live, Ssh!Agents, Ssh!SshTypes
    <2> QED
        BY <2>4, <2>5, <2>6, <2>7, <2>8, <2>9, <2>10, <2>11 DEF Sole
<1>6. ASSUME NEW l \in Locks, Ssh!lockKey(l)
      PROVE  Sole'
    <2>1. Sole
        BY <1>1, <1>6 DEF Ssh!lockKey
    <2> QED
        BY <2>1, <1>1, <1>2, <1>6
           DEF Sole, One, Waits, Binds, Serves, Ours, Shut, Open, Live, Ssh!reachable,
               Ssh!unlocking, Ssh!lockKey, Ssh!ours, Ssh!emptiable, Ssh!forgotten,
               Ssh!SshTypes, Ssh!Agents, Ssh!Job
<1>7. ASSUME NEW n \in Ssh!Agents, Ssh!AgentExits(n)
      PROVE  Sole'
    <2>1. Sole
        BY <1>1, <1>7 DEF Ssh!AgentExits
    <2> QED
        BY <2>1, <1>1, <1>2, <1>7
           DEF Sole, One, Waits, Binds, Serves, Ours, Shut, Open, Live, Ssh!reachable,
               Ssh!unlocking, Ssh!AgentExits, Ssh!exited, Ssh!SshTypes, Ssh!Agents,
               Ssh!Job
<1>8. ASSUME Ssh!workerAgentBind
      PROVE  Sole'
    <2>1. Sole
        BY <1>1, <1>8 DEF Ssh!workerAgentBind
    <2>2. UNCHANGED <<proc, holds, sock, sshAgent, unlocked, unlock, lock>>
        BY <1>8 DEF Ssh!workerAgentBind, Ssh!ours
    <2> QED
        BY <2>1, <2>2
           DEF Sole, One, Waits, Binds, Serves, Ours, Shut, Open, Live, Ssh!reachable,
               Ssh!unlocking, Ssh!Agents
<1>9. ASSUME Ssh!Restart
      PROVE  Sole'
    BY <1>1, <1>2, <1>9
       DEF Sole, One, Waits, Binds, Serves, Ours, Shut, Open, Live, Ssh!reachable,
           Ssh!unlocking, Ssh!Restart, Ssh!NoJob, Ssh!SshTypes, Ssh!Agents
<1>10. ASSUME NEW n \in Ssh!Agents, Ssh!Bound(n)
      PROVE  Sole'
    <2>1. Sole
        BY <1>1, <1>10 DEF Ssh!Bound
    <2>2. PICK u \in Unlocks : unlock[u].pc = "agent" /\ unlock[u].agent = n
        BY <2>1, <1>10 DEF Sole, Waits, Ssh!Bound
    <2>3. \A v \in Unlocks : v # u => unlock[v].pc = "idle"
        BY <2>1, <2>2 DEF Sole, One
    <2>4. sshAgent # 0 => sshAgent \in Ssh!Agents
        BY <1>1 DEF Ssh!SshTypes, Ssh!Agents
    <2>5. /\ sshAgent # 0 => sshAgent # n /\ proc'[sshAgent] = proc[sshAgent]
          /\ sshAgent' = sshAgent /\ (sshAgent # 0 => proc[sshAgent] \in {"up", "dead"})
        <3>1. sshAgent # 0 => sshAgent # n /\ proc[sshAgent] \in {"up", "dead"}
            BY <2>1, <1>10 DEF Sole, Live, Ssh!Bound
        <3>2. n # 0
            BY DEF Ssh!Agents
        <3>3. sshAgent' = sshAgent
            BY <3>1, <3>2, <1>10 DEF Ssh!Bound
        <3>4. \A m \in Ssh!Agents : m # n => proc'[m] = proc[m]
            BY <1>1, <1>10 DEF Ssh!Bound, Ssh!SshTypes
        <3> QED
            BY <2>4, <3>1, <3>3, <3>4
    <2>6. sock = 0 /\ n # 0 /\ unlocked = Ssh!NoKey
        BY <2>1, <2>2, <1>1, <1>10 DEF Sole, Binds, Serves, Ssh!Bound, Ssh!Agents
    <2>7. One'
        BY <2>1, <2>2, <2>3, <2>6, <2>4, <1>1, <1>10
           DEF Sole, One, Ssh!Agents, Ssh!Bound, Ssh!exited, Ssh!SshTypes
    <2>8. Waits'
        BY <2>1, <2>2, <2>3, <2>6, <2>4, <1>1, <1>10
           DEF Sole, Waits, Ssh!Agents, Ssh!Bound, Ssh!exited, Ssh!SshTypes
    <2>9. Binds'
        BY <2>1, <2>2, <2>3, <2>6, <2>4, <1>1, <1>10
           DEF Sole, Binds, Ssh!Agents, Ssh!Bound, Ssh!exited, Ssh!SshTypes
    <2>10. Serves'
        BY <2>1, <2>2, <2>3, <2>6, <2>4, <1>1, <1>10
           DEF Sole, Serves, Ssh!reachable, Ssh!Agents, Ssh!Bound, Ssh!exited,
               Ssh!SshTypes
    <2>11. Ours'
        BY <2>1, <2>2, <2>3, <2>6, <2>4, <1>1, <1>10
           DEF Sole, Ours, Ssh!reachable, Ssh!Agents, Ssh!Bound, Ssh!exited,
               Ssh!SshTypes, Binds
    <2>12. Shut'
        BY <2>1, <2>2, <2>3, <2>6, <2>4, <1>1, <1>10
           DEF Sole, Shut, Ssh!unlocking, Ssh!Agents, Ssh!Bound, Ssh!exited, Ssh!SshTypes
    <2>13. Open'
        BY <2>1, <2>2, <2>3, <2>6, <2>4, <1>1, <1>10
           DEF Sole, Open, Ssh!reachable, Ssh!Agents, Ssh!Bound, Ssh!exited, Ssh!SshTypes
    <2>14. Live'
        BY <2>5 DEF Live
    <2> QED
        BY <2>7, <2>8, <2>9, <2>10, <2>11, <2>12, <2>13, <2>14 DEF Sole
<1>11. ASSUME NEW u \in Unlocks, Ssh!AgentStarted(u)
      PROVE  Sole'
    <2>1. Sole
        BY <1>1, <1>11 DEF Ssh!AgentStarted
    <2>2. \A v \in Unlocks : v # u => unlock[v].pc = "idle" /\ unlock'[v] = unlock[v]
        BY <2>1, <1>1, <1>11 DEF Sole, One, Ssh!AgentStarted, Ssh!Failed, Ssh!SshTypes
    <2>3. unlock[u].pc = "agent" /\ unlock[u].agent \in Ssh!Agents /\ unlocked = Ssh!NoKey
        BY <2>1, <1>11 DEF Sole, Binds, Serves, Ssh!AgentStarted
    <2>4. UNCHANGED <<proc, holds, sock, unlocked, lock>>
        BY <1>11 DEF Ssh!AgentStarted
    <2>5. unlock' = [unlock EXCEPT ![u].pc = "empty"] => unlock'[u].pc = "empty"
        BY <1>1, UnlockMoves
    <2>6. Ssh!Failed(u) => unlock'[u].pc = "idle"
        BY <1>1, UnlockFails
    <2>7. sock # 0 => sock = unlock[u].agent /\ proc[sock] \in {"up", "dead"}
        BY <2>1, <2>3, <1>1 DEF Sole, Binds, Ssh!SshTypes
    <2>8. \/ /\ sock = unlock[u].agent /\ sshAgent' = sock /\ sock # 0 /\ unlock'[u].pc = "empty"
             /\ proc[sock] \in {"up", "dead"}
          \/ /\ sock = 0 /\ unlock'[u].pc = "idle" /\ UNCHANGED sshAgent
             /\ proc[unlock[u].agent] # "starting"
        BY <2>5, <2>6, <2>7, <1>11 DEF Ssh!AgentStarted
    <2> QED
        BY <2>1, <2>2, <2>3, <2>4, <2>8
           DEF Sole, One, Waits, Binds, Serves, Ours, Shut, Open, Live, Ssh!reachable,
               Ssh!unlocking, Ssh!Agents, Ssh!SshTypes
<1>12. ASSUME NEW u \in Unlocks, Ssh!Emptied(u)
      PROVE  Sole'
    <2>1. Sole
        BY <1>1, <1>12 DEF Ssh!Emptied
    <2>2. \A v \in Unlocks : v # u => unlock[v].pc = "idle" /\ unlock'[v] = unlock[v]
        BY <2>1, <1>1, <1>12 DEF Sole, One, Ssh!Emptied, Ssh!Failed, Ssh!SshTypes
    <2>3. unlock[u].pc = "empty" /\ unlock'[u].pc = "add" /\ unlocked' = Ssh!NoKey
        BY <1>1, <1>12 DEF Ssh!Emptied, Ssh!SshTypes, Ssh!Job
    <2>4. UNCHANGED <<proc, sock, sshAgent, lock>>
        BY <1>12 DEF Ssh!Emptied
    <2>5. Ssh!reachable(sock) => sshAgent = sock /\ holds'[sock] = {}
        BY <2>1, <2>3, <1>1, <1>12
           DEF Sole, Serves, Ssh!Emptied, Ssh!emptied, Ssh!SshTypes, Ssh!Agents, Ssh!reachable
    <2> QED
        BY <2>1, <2>2, <2>3, <2>4, <2>5
           DEF Sole, One, Waits, Binds, Serves, Ours, Shut, Open, Live, Ssh!reachable,
               Ssh!unlocking, Ssh!Agents, Ssh!SshTypes
<1>13. ASSUME NEW u \in Unlocks, Ssh!Added(u)
      PROVE  Sole'
    <2>1. Sole
        BY <1>1, <1>13 DEF Ssh!Added
    <2>2. \A v \in Unlocks : v # u => unlock[v].pc = "idle" /\ unlock'[v] = unlock[v]
        BY <2>1, <1>1, <1>13 DEF Sole, One, Ssh!Added, Ssh!Failed, Ssh!SshTypes
    <2>3. unlock[u].pc = "add" /\ unlocked = Ssh!NoKey
        BY <2>1, <1>13 DEF Sole, Serves, Ssh!Added
    <2>4. UNCHANGED <<proc, sock, sshAgent, unlocked, lock>>
        BY <1>13 DEF Ssh!Added
    <2>5. Ssh!reachable(sock) => sshAgent = sock /\ holds[sock] = {} /\ sock \in Ssh!Agents
        BY <2>1, <2>3, <1>1 DEF Sole, Serves, Ssh!reachable, Ssh!SshTypes, Ssh!Agents
    <2>6. \/ unlock'[u].pc = "idle"
          \/ /\ unlock'[u].pc = "list" /\ unlock'[u].key = unlock[u].key
             /\ sshAgent = sock /\ holds'[sock] = {unlock[u].key}
        <3>1. CASE Ssh!Failed(u)
            BY <3>1, <1>1, UnlockFails
        <3>2. CASE /\ Ssh!reachable(sock)
                   /\ holds' = [holds EXCEPT ![sock] = holds[sock] \cup {unlock[u].key}]
                   /\ unlock' = [unlock EXCEPT ![u].pc = "list"]
            <4>1. holds'[sock] = {unlock[u].key}
                BY <2>5, <3>2, <1>1 DEF Ssh!SshTypes
            <4>2. unlock'[u].pc = "list" /\ unlock'[u].key = unlock[u].key
                BY <3>2, <1>1, UnlockMoves
            <4> QED
                BY <2>5, <3>2, <4>1, <4>2
        <3> QED
            BY <1>13, <3>1, <3>2 DEF Ssh!Added
    <2> QED
        BY <2>1, <2>2, <2>3, <2>4, <2>6
           DEF Sole, One, Waits, Binds, Serves, Ours, Shut, Open, Live, Ssh!reachable,
               Ssh!unlocking, Ssh!Agents, Ssh!SshTypes
<1>14. ASSUME NEW u \in Unlocks, Ssh!Unlocked(u)
      PROVE  Sole'
    <2>1. Sole
        BY <1>1, <1>14 DEF Ssh!Unlocked
    <2>2. \A v \in Unlocks : v # u => unlock[v].pc = "idle" /\ unlock'[v] = unlock[v]
        BY <2>1, <1>1, <1>14 DEF Sole, One, Ssh!Unlocked, Ssh!Failed, Ssh!SshTypes
    <2>3. unlock[u].pc = "list" /\ unlock'[u].pc = "idle" /\ unlocked' = unlock[u].key
        BY <1>1, <1>14 DEF Ssh!Unlocked, Ssh!Failed, Ssh!NoJob, Ssh!SshTypes
    <2>4. UNCHANGED <<proc, holds, sock, sshAgent, lock>>
        BY <1>14 DEF Ssh!Unlocked, Ssh!ours
    <2>5. Ssh!reachable(sock) /\ sshAgent = sock /\ holds[sock] = {unlock[u].key}
        BY <2>1, <2>3, <1>14 DEF Sole, Serves, Ssh!Unlocked
    <2> QED
        BY <2>1, <2>2, <2>3, <2>4, <2>5, <1>1
           DEF Sole, One, Waits, Binds, Serves, Ours, Shut, Open, Live, Ssh!reachable,
               Ssh!unlocking, Ssh!Agents, Ssh!SshTypes
<1>15. ASSUME NEW l \in Locks, Ssh!Locked(l)
      PROVE  Sole'
    <2>1. Sole
        BY <1>1, <1>15 DEF Ssh!Locked
    <2>2. unlocked = Ssh!NoKey /\ \A u \in Unlocks : unlock[u].pc = "idle"
        BY <2>1, <1>15 DEF Sole, Shut, Ssh!Locked, Ssh!unlocking
    <2>3. /\ UNCHANGED <<proc, sock, sshAgent, unlocked, unlock>>
          /\ \A k \in Locks : lock'[k] => lock[k]
        BY <1>1, <1>15 DEF Ssh!Locked, Ssh!SshTypes
    <2> QED
        BY <2>1, <2>2, <2>3, <1>1
           DEF Sole, One, Waits, Binds, Serves, Ours, Shut, Open, Live, Ssh!reachable,
               Ssh!unlocking, Ssh!Agents, Ssh!SshTypes
<1> QED
    BY <1>3, <1>4, <1>5, <1>6, <1>7, <1>8, <1>9, <1>10, <1>11, <1>12, <1>13, <1>14, <1>15
       DEF Ssh!Next, Ssh!Events, Ssh!Steps

-----------------------------------------------------------------------------
(* The theorems. *)

(* The invariant is inductive. *)
LEMMA SshStep == SshInv /\ [Ssh!Next]_(Ssh!vars) => SshInv'
<1> SUFFICES ASSUME SshInv, [Ssh!Next]_(Ssh!vars)
             PROVE  SshInv'
    OBVIOUS
<1>1. CASE Ssh!Next
    BY <1>1, SshTyped, NumberedKept, SmallKept, SoleKept DEF SshInv
<1>2. CASE UNCHANGED Ssh!vars
    <2>1. Ssh!SshTypes' <=> Ssh!SshTypes
        BY <1>2 DEF Ssh!vars, Ssh!SshTypes, Ssh!Agents
    <2>2. AgentsNumbered' <=> AgentsNumbered
        BY <1>2 DEF Ssh!vars, AgentsNumbered, Spawned, Ssh!Agents
    <2>3. (Emptied' <=> Emptied) /\ (Keyed' <=> Keyed) /\ (Quiet' <=> Quiet)
        BY <1>2 DEF Ssh!vars, Emptied, Keyed, Quiet, Ssh!Agents, Ssh!unlocking
    <2>4. Sole' <=> Sole
        BY <1>2 DEF Ssh!vars, Sole, One, Waits, Binds, Serves, Ours, Shut, Open, Live, Ssh!Agents,
                    Ssh!unlocking, Ssh!reachable
    <2> QED
        BY <1>2, <2>1, <2>2, <2>3, <2>4 DEF SshInv, Ssh!vars
<1> QED
    BY <1>1, <1>2

(* What the invariant means for the workers: the keys they are offered *)
(* (lib/ssh-agent.ts handleClient).                                    *)
LEMMA SshMeaning ==
    ASSUME SshInv
    PROVE  Ssh!LockHolds /\ Ssh!OnlyTheSelected /\ Ssh!UsableIsOffered
<1>1. Quiet /\ (~overlapped => Sole)
    BY DEF SshInv
<1>2. Ssh!LockHolds
    BY <1>1 DEF Ssh!LockHolds, Ssh!ourKeys, Ssh!servesSelectedKey, Quiet
<1>3. Ssh!OnlyTheSelected
    BY <1>1 DEF Ssh!OnlyTheSelected, Ssh!ourKeys, Ssh!servesSelectedKey, Sole, Open
<1>4. Ssh!UsableIsOffered
    <2> SUFFICES ASSUME ~overlapped, selected \in Legible, Ssh!isUnlocked \/ Ssh!hostHasKey
                 PROVE  selected \in Ssh!handleClient
        BY DEF Ssh!UsableIsOffered, Ssh!getSshAgentStatus
    <2>1. unlocked # Ssh!NoKey => Ssh!reachable(sock) /\ holds[sock] = {unlocked}
        BY <1>1 DEF Sole, Open
    <2>2. CASE Ssh!servesSelectedKey
        BY <2>1, <2>2 DEF Ssh!servesSelectedKey, Ssh!ourKeys, Ssh!handleClient
    <2>3. CASE ~Ssh!servesSelectedKey
        <3>1. ~Ssh!isUnlocked
            BY <2>3 DEF Ssh!servesSelectedKey, Ssh!isUnlocked, Ssh!reachable
        <3>2. Ssh!hostAgent /\ selected \in host
            BY <3>1 DEF Ssh!hostHasKey, Ssh!holdsKey
        <3> QED
            BY <2>3, <3>2 DEF Ssh!handleClient
    <2> QED
        BY <2>2, <2>3
<1> QED
    BY <1>2, <1>3, <1>4

(* A step of the whole server is a step of this component, or leaves it *)
(* alone.                                                               *)
LEMMA SshScene ==
    ASSUME [Next]_vars
    PROVE  [Ssh!Next]_(Ssh!vars)
<1>1. UNCHANGED vars => UNCHANGED Ssh!vars
    BY DEF vars, ssh, Ssh!vars
<1>2. ASSUME Next, scene = "ssh"
      PROVE  Ssh!Next
    BY <1>2 DEF Next, Ssh!Next
<1>3. ASSUME Next
      PROVE  Others
    BY <1>3, Zenon DEF Next, Goes, Comes
<1>4. ASSUME Next, scene # "ssh"
      PROVE  UNCHANGED Ssh!vars
    BY <1>3, <1>4 DEF Others, ssh, Ssh!vars
<1> QED
    BY <1>1, <1>2, <1>4

(* `Locks it again' and `the agent holds exactly what Settings has selected': *)
(* after a lock that no unlock overlaps no key of Lite's is offered until     *)
(* somebody unlocks, and while they do not overlap none but the selected one  *)
(* ever is.                                                                   *)
THEOREM KeysKept ==
    /\ Ssh!Spec => [](Ssh!LockHolds /\ Ssh!OnlyTheSelected)
    /\ Spec => []KeysAreGuarded
<1>1. Ssh!Spec => [](Ssh!LockHolds /\ Ssh!OnlyTheSelected)
    BY SshInit, SshStep, SshMeaning, PTL DEF Ssh!Spec
<1>2. Init => Ssh!Init
    BY DEF Init
<1>3. Spec => []SshInv
    BY <1>2, SshInit, SshStep, SshScene, PTL DEF Spec
<1>4. SshInv => KeysAreGuarded
    BY SshMeaning DEF KeysAreGuarded
<1> QED
    BY <1>1, <1>3, <1>4, PTL

(* A key with a passphrase that Settings calls usable is among the keys a     *)
(* worker is offered, unless unlocks overlapped or an agent has to be trusted *)
(* to hold it.                                                                *)
THEOREM UsableKept ==
    /\ Ssh!Spec => []Ssh!UsableIsOffered
    /\ Spec => []UsableIsOffered
<1>1. Ssh!Spec => []Ssh!UsableIsOffered
    BY SshInit, SshStep, SshMeaning, PTL DEF Ssh!Spec
<1>2. Init => Ssh!Init
    BY DEF Init
<1>3. Spec => []SshInv
    BY <1>2, SshInit, SshStep, SshScene, PTL DEF Spec
<1>4. SshInv => UsableIsOffered
    BY SshMeaning DEF UsableIsOffered
<1> QED
    BY <1>1, <1>3, <1>4, PTL
=============================================================================
