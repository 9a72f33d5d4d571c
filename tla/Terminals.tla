------------------------------ MODULE Terminals ------------------------------
(***************************************************************************)
(* The terminal bridge of a worker (server/terminal-ws.ts), from a browser *)
(* to a session in the container, through `docker exec' or through the     *)
(* worker's agent (lib/agent.ts); and the record of which sessions have a  *)
(* browser (lib/terminal-attachments.ts).                                  *)
(***************************************************************************)
EXTENDS Naturals, FiniteSets

CONSTANTS
    Tabs,     \* browser tabs
    Sessions, \* names of terminal sessions
    MaxConns  \* bound: connections of the worker's agent

VARIABLES
    row,         \* of the worker: has it a container, and which data plane
    connections, \* connections(): the agent's connection, 0 without
    dialled,     \* connections made so far
    tab,         \* per tab, its bridge
    registry,    \* sessions marked as attached
    sessions,    \* sessions that live in the container
    shared,      \* history: sessions two tabs were on at once
    hasty        \* history: sessions a tab left before it was attached

vars == <<row, connections, dialled, tab, registry, sessions, shared, hasty>>

(* `open': both sides are there.  `closing': the session's side is not, and  *)
(* the browser has been told.                                                  *)
Tab == [pc : {"idle", "exec", "start", "resize", "open", "closing"}, session : Sessions,
        gone : BOOLEAN, conn : 0..MaxConns, released : BOOLEAN,
        code : {"", "1000", "1012"}]
NoTab == [pc |-> "idle", session |-> CHOOSE s \in Sessions : TRUE, gone |-> FALSE, conn |-> 0,
          released |-> TRUE, code |-> ""]

TerminalTypes ==
    /\ row \in [container : BOOLEAN, plane : {"exec", "agent"}]
    /\ connections \in 0..MaxConns /\ dialled \in 0..MaxConns
    /\ tab \in [Tabs -> Tab]
    /\ registry \subseteq Sessions /\ sessions \subseteq Sessions
    /\ shared \subseteq Sessions /\ hasty \subseteq Sessions

agentFor == connections
isAttached(s) == s \in registry
on(b, s) == tab[b].session = s /\ tab[b].pc \in {"open", "closing"}

(* One key a session, whatever the number of its browsers. *)
markAttached(b, s) ==
    /\ registry' = registry \cup {s}
    /\ shared' = IF \E c \in Tabs \ {b} : on(c, s) /\ ~tab[c].released THEN shared \cup {s}
                 ELSE shared
everyTime(b) == TRUE  \* mutant: a detach is not safe to call twice
notReleased(b) == ~tab[b].released
detach(b) == registry' = IF notReleased(b) THEN registry \ {tab[b].session} ELSE registry

Leaves(b) == tab' = [tab EXCEPT ![b] = NoTab]

-----------------------------------------------------------------------------
(* The bridge of an exec worker: three calls to the daemon, then the listeners. *)

bridge(b, s) ==
    /\ tab[b].pc = "idle" /\ row.container /\ row.plane = "exec"
    /\ tab' = [tab EXCEPT ![b] = [NoTab EXCEPT !.pc = "exec", !.session = s]]
    /\ UNCHANGED <<row, connections, dialled, registry, sessions, shared, hasty>>

Goes(b, from, to) ==
    /\ tab[b].pc = from
    /\ \/ tab' = [tab EXCEPT ![b].pc = to] \/ Leaves(b)
    /\ UNCHANGED <<row, connections, dialled, registry, sessions, shared, hasty>>
Exec(b) == Goes(b, "exec", "start")
Start(b) == Goes(b, "start", "resize")

(* A tab that has left in between will not be heard leaving. *)
Attached(b) ==
    LET s == tab[b].session IN
    /\ tab[b].pc = "resize"
    /\ markAttached(b, s)
    /\ sessions' = IF row.container THEN sessions \cup {s} ELSE sessions
    /\ IF tab[b].gone THEN hasty' = hasty \cup {s} /\ Leaves(b)
       ELSE /\ tab' = [tab EXCEPT ![b].pc = "open", ![b].released = FALSE]
            /\ UNCHANGED hasty
    /\ UNCHANGED <<row, connections, dialled>>

(* The bridge of an agent worker is there at once, or the agent is not. *)
bridgeAgent(b, s) ==
    /\ tab[b].pc = "idle" /\ row.container /\ row.plane = "agent" /\ agentFor # 0
    /\ markAttached(b, s)
    /\ tab' = [tab EXCEPT ![b] = [NoTab EXCEPT !.pc = "open", !.session = s, !.conn = agentFor,
                                               !.released = FALSE]]
    /\ sessions' = sessions \cup {s}
    /\ UNCHANGED <<row, connections, dialled, hasty>>

createTerminalSession(s) ==
    /\ row.container /\ (row.plane = "agent" => agentFor # 0)
    /\ sessions' = sessions \cup {s}
    /\ UNCHANGED <<row, connections, dialled, tab, registry, shared, hasty>>

-----------------------------------------------------------------------------
(* The ends of a bridge. *)

(* The tab is closed; an exec bridge does not notice before it is attached. *)
BrowserLeaves(b) ==
    /\ tab[b].pc # "idle" /\ ~tab[b].gone
    /\ IF tab[b].pc = "open" THEN Leaves(b) /\ detach(b)
       ELSE tab' = [tab EXCEPT ![b].gone = TRUE] /\ UNCHANGED registry
    /\ UNCHANGED <<row, connections, dialled, sessions, shared, hasty>>

(* Both ends of a closing socket have closed it. *)
SocketCloses(b) ==
    /\ tab[b].pc = "closing"
    /\ Leaves(b) /\ detach(b)
    /\ UNCHANGED <<row, connections, dialled, sessions, shared, hasty>>

(* What the ends of these bridges are told: an exec that ends says no more than *)
(* that; an agent, whether its session or only itself is gone.                     *)
viaAgent(b) == tab[b].conn # 0
Ends(bs, code) ==
    /\ tab' = [b \in Tabs |->
           IF b \notin bs THEN tab[b]
           ELSE [tab[b] EXCEPT !.pc = "closing", !.released = viaAgent(b),
                               !.code = IF viaAgent(b) THEN code ELSE ""]]
    /\ registry' = registry \ {tab[b].session : b \in {c \in bs : viaAgent(c) /\ notReleased(c)}}

onExit(s) ==
    /\ s \in sessions
    /\ sessions' = sessions \ {s}
    /\ Ends({b \in Tabs : tab[b].pc = "open" /\ tab[b].session = s}, "1000")
    /\ UNCHANGED <<row, connections, dialled, shared, hasty>>

closed == {b \in Tabs : tab[b].pc = "open" /\ viaAgent(b)}
AgentGone ==
    /\ connections # 0
    /\ connections' = 0
    /\ Ends(closed, "1012")
    /\ UNCHANGED <<row, dialled, sessions, shared, hasty>>

(* An agent that dials replaces the connection it had. *)
attach ==
    /\ row.plane = "agent" /\ row.container /\ dialled < MaxConns
    /\ dialled' = dialled + 1 /\ connections' = dialled + 1
    /\ Ends(closed, "1012")
    /\ UNCHANGED <<row, sessions, shared, hasty>>

(* The container goes down and its sessions with it; its row is another matter, *)
(* and a rebuild may change the plane.                                            *)
ContainerStops ==
    /\ row.container
    /\ \/ UNCHANGED row
       \/ \E plane \in {"exec", "agent"} : row' = [container |-> FALSE, plane |-> plane]
    /\ sessions' = {} /\ connections' = 0
    /\ Ends({b \in Tabs : tab[b].pc = "open"}, "1012")
    /\ UNCHANGED <<dialled, shared, hasty>>
ContainerStarts ==
    /\ ~row.container /\ row' = [row EXCEPT !.container = TRUE]
    /\ UNCHANGED <<connections, dialled, tab, registry, sessions, shared, hasty>>

-----------------------------------------------------------------------------
Init ==
    /\ row \in [container : {TRUE}, plane : {"exec", "agent"}] /\ connections = 0 /\ dialled = 0
    /\ tab = [b \in Tabs |-> NoTab]
    /\ registry = {} /\ sessions = {} /\ shared = {} /\ hasty = {}

Events ==
    \/ \E b \in Tabs, s \in Sessions : bridge(b, s) \/ bridgeAgent(b, s)
    \/ \E b \in Tabs : BrowserLeaves(b)
    \/ \E s \in Sessions : createTerminalSession(s) \/ onExit(s)
    \/ AgentGone \/ ContainerStops \/ ContainerStarts

Steps ==
    \/ \E b \in Tabs : Exec(b) \/ Start(b) \/ Attached(b) \/ SocketCloses(b)
    \/ attach

Next == Events \/ Steps
Spec == Init /\ [][Next]_vars

-----------------------------------------------------------------------------
(* `Whether a session has a client is the bridge's knowledge': it shows as    *)
(* attached exactly while a browser is on it, through reconnections and late   *)
(* closes; but for a session two browsers share, where the first to leave       *)
(* speaks for both, and for one a tab left too soon to be heard.                *)
AttachedIsTrue ==
    \A s \in Sessions \ (shared \cup hasty) :
        isAttached(s) <=> \E b \in Tabs : on(b, s) /\ ~tab[b].released
=============================================================================
