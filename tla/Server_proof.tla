---------------------------- MODULE Server_proof ----------------------------
(***************************************************************************)
(* Proofs about the components of the server: of each, an inductive        *)
(* invariant over its own variables, kept by every one of its actions, and *)
(* so by every step of MCServer, which runs them all in one behaviour and  *)
(* whose properties these are.                                             *)
(***************************************************************************)
EXTENDS MCServer, SequenceTheorems, TLAPS

-----------------------------------------------------------------------------
(* The terminals: who the registry says is attached. *)

(* What has its bridge open has not released its place: the registry still *)
(* speaks for it.                                                          *)
Opened == \A b \in Tabs : tab[b].pc = "open" => ~tab[b].released
(* Browser b is attached to session s, and nothing has released it. *)
At(b, s) == Terminal!on(b, s) /\ ~tab[b].released
(* But for a session two browsers were on at once, a session has at most one *)
(* browser attached.                                                         *)
Alone == \A s \in Sessions \ shared, b, c \in Tabs : At(b, s) /\ At(c, s) => b = c
(* But for such a session, and one whose browser had gone before its bridge *)
(* could listen for it, the registry names exactly the sessions with a      *)
(* browser attached.  This is AttachedIsTrue; a step keeps it only together *)
(* with the two above.                                                      *)
Said == \A s \in Sessions \ (shared \cup hasty) : s \in registry <=> \E b \in Tabs : At(b, s)
(* The inductive invariant of the terminals. *)
TerminalInv == Terminal!TerminalTypes /\ Opened /\ Alone /\ Said

(* The record of a browser with no terminal is one of the records a browser *)
(* may have.                                                                *)
LEMMA NoTab == Terminal!NoTab \in Terminal!Tab /\ Terminal!NoTab.pc = "idle"
<1>1. (CHOOSE s \in Sessions : TRUE) \in Sessions
    BY TerminalAssumption
<1> QED
    BY <1>1, TerminalAssumption DEF Terminal!NoTab, Terminal!Tab

(* At first no browser is attached and the registry is empty. *)
LEMMA TerminalInit == Terminal!Init => TerminalInv
<1> SUFFICES ASSUME Terminal!Init PROVE TerminalInv
    OBVIOUS
<1>1. tab \in [Tabs -> Terminal!Tab] /\ \A b \in Tabs : tab[b].pc = "idle"
    BY NoTab DEF Terminal!Init
<1>2. row \in [container : BOOLEAN, plane : {"exec", "agent"}]
    BY DEF Terminal!Init
<1>3. Terminal!TerminalTypes
    BY <1>1, <1>2, TerminalAssumption DEF Terminal!Init, Terminal!TerminalTypes
<1> QED
    BY <1>1, <1>3 DEF Terminal!Init, TerminalInv, Opened, Alone, Said, At, Terminal!on

(* A set of open bridges that close together (an exit, a lost agent, a     *)
(* container that stops): those of the agent's plane leave the registry in *)
(* the same step, those of exec stay in it until their socket closes.      *)
LEMMA EndsKept ==
    ASSUME TerminalInv, NEW bs \in SUBSET Tabs, NEW code \in {"1000", "1012"},
           \A b \in bs : tab[b].pc = "open",
           Terminal!Ends(bs, code), UNCHANGED <<shared, hasty>>
    PROVE  /\ tab' \in [Tabs -> Terminal!Tab] /\ registry' \subseteq Sessions
           /\ Opened' /\ Alone' /\ Said'
<1>1. /\ tab \in [Tabs -> Terminal!Tab] /\ registry \subseteq Sessions
      /\ \A b \in Tabs : tab[b] \in Terminal!Tab
    BY DEF TerminalInv, Terminal!TerminalTypes
<1>2. \A b \in Tabs \ bs : tab'[b] = tab[b]
    BY DEF Terminal!Ends
<1>3. ASSUME NEW b \in bs
      PROVE  /\ tab'[b] \in Terminal!Tab
             /\ tab'[b].pc = "closing" /\ tab'[b].session = tab[b].session
             /\ tab'[b].released = Terminal!viaAgent(b)
    <2>1. tab'[b] = [tab[b] EXCEPT !.pc = "closing", !.released = Terminal!viaAgent(b),
                                   !.code = IF Terminal!viaAgent(b) THEN code ELSE ""]
        BY <1>3 DEF Terminal!Ends
    <2>2. Terminal!viaAgent(b) \in BOOLEAN
        BY DEF Terminal!viaAgent
    <2> QED
        BY <1>1, <2>1, <2>2 DEF Terminal!Tab
<1>4. tab' \in [Tabs -> Terminal!Tab]
    <2>1. \A b \in Tabs : tab'[b] \in Terminal!Tab
        BY <1>1, <1>2, <1>3
    <2> QED
        BY <2>1 DEF Terminal!Ends
<1>5. \A b \in bs : tab[b].pc = "open" /\ ~tab[b].released
    BY DEF TerminalInv, Opened
<1>6. \A s \in Sessions :
          s \in registry' <=>
              s \in registry /\ ~\E b \in bs : Terminal!viaAgent(b) /\ tab[b].session = s
    BY <1>1, <1>5 DEF Terminal!Ends, Terminal!notReleased
<1>7. \A b \in Tabs, s \in Sessions :
          At(b, s)' <=> At(b, s) /\ ~(b \in bs /\ Terminal!viaAgent(b))
    BY <1>2, <1>3, <1>5 DEF At, Terminal!on
<1>8. \A b \in bs : At(b, tab[b].session)
    BY <1>5 DEF At, Terminal!on
<1>9. Opened'
    BY <1>2, <1>3 DEF TerminalInv, Opened
<1>10. Alone'
    BY <1>7 DEF TerminalInv, Alone
<1>11. Said'
    <2> SUFFICES ASSUME NEW s \in Sessions \ (shared \cup hasty)
                 PROVE  s \in registry' <=> \E b \in Tabs : At(b, s)'
        BY DEF Said
    <2>1. s \in registry <=> \E b \in Tabs : At(b, s)
        BY DEF TerminalInv, Said
    <2>2. \A b, c \in Tabs : At(b, s) /\ At(c, s) => b = c
        BY DEF TerminalInv, Alone
    <2> QED
        BY <1>6, <1>7, <1>8, <2>1, <2>2 DEF At, Terminal!on
<1> QED
    BY <1>1, <1>4, <1>9, <1>10, <1>11 DEF Terminal!Ends

(* A browser that leaves takes its session out of the registry exactly when *)
(* it was the one holding it there.                                         *)
LEMMA LeavesKept ==
    ASSUME TerminalInv, NEW b \in Tabs, Terminal!Leaves(b), UNCHANGED <<shared, hasty>>,
           \/ tab[b].pc \in {"open", "closing"} /\ Terminal!detach(b)
           \/ tab[b].pc \notin {"open", "closing"} /\ UNCHANGED registry
    PROVE  /\ tab' \in [Tabs -> Terminal!Tab] /\ registry' \subseteq Sessions
           /\ Opened' /\ Alone' /\ Said'
<1>1. tab \in [Tabs -> Terminal!Tab] /\ registry \subseteq Sessions
    BY DEF TerminalInv, Terminal!TerminalTypes
<1>2. tab' \in [Tabs -> Terminal!Tab] /\ tab'[b].pc = "idle"
    BY <1>1, NoTab DEF Terminal!Leaves
<1>3. \A c \in Tabs \ {b} : tab'[c] = tab[c]
    BY <1>1 DEF Terminal!Leaves
<1>4. \A c \in Tabs, s \in Sessions : At(c, s)' <=> At(c, s) /\ c # b
    BY <1>2, <1>3 DEF At, Terminal!on
<1>5. \A s \in Sessions : s \in registry' <=> s \in registry /\ ~At(b, s)
    <2>1. CASE tab[b].pc \in {"open", "closing"} /\ Terminal!detach(b)
        BY <2>1 DEF Terminal!detach, Terminal!notReleased, At, Terminal!on
    <2>2. CASE tab[b].pc \notin {"open", "closing"} /\ UNCHANGED registry
        BY <2>2 DEF At, Terminal!on
    <2> QED
        BY <2>1, <2>2
<1>6. registry' \subseteq Sessions
    BY <1>1 DEF Terminal!detach
<1>7. Opened'
    BY <1>2, <1>3 DEF TerminalInv, Opened
<1>8. Alone'
    BY <1>4 DEF TerminalInv, Alone
<1>9. Said'
    BY <1>4, <1>5 DEF TerminalInv, Said, Alone
<1> QED
    BY <1>2, <1>6, <1>7, <1>8, <1>9

(* markAttached: the session enters the registry with the browser that opens *)
(* its bridge, and is marked as shared when another browser is on it.        *)
LEMMA JoinsKept ==
    ASSUME TerminalInv, NEW b \in Tabs, NEW s \in Sessions, tab[b].pc \notin {"open", "closing"},
           Terminal!markAttached(b, s), UNCHANGED hasty,
           tab' \in [Tabs -> Terminal!Tab], \A c \in Tabs \ {b} : tab'[c] = tab[c],
           tab'[b].pc = "open", tab'[b].session = s, ~tab'[b].released
    PROVE  registry' \subseteq Sessions /\ shared' \subseteq Sessions /\ Opened' /\ Alone' /\ Said'
<1>1. registry \subseteq Sessions /\ shared \subseteq Sessions
    BY DEF TerminalInv, Terminal!TerminalTypes
<1>2. registry' = registry \cup {s}
    BY DEF Terminal!markAttached
<1>3. shared \subseteq shared' /\ shared' \subseteq shared \cup {s}
    BY DEF Terminal!markAttached
<1>4. s \notin shared' => \A c \in Tabs \ {b} : ~At(c, s)
    BY DEF Terminal!markAttached, At, Terminal!on
<1>5. \A c \in Tabs, r \in Sessions : At(c, r)' <=> IF c = b THEN r = s ELSE At(c, r)
    BY DEF At, Terminal!on
<1>6. \A r \in Sessions : ~At(b, r)
    BY DEF At, Terminal!on
<1>7. Opened'
    BY DEF TerminalInv, Opened
<1>8. Alone'
    <2> SUFFICES ASSUME NEW r \in Sessions \ shared', NEW c \in Tabs, NEW d \in Tabs,
                        At(c, r)', At(d, r)'
                 PROVE  c = d
        BY DEF Alone
    <2> QED
        BY <1>3, <1>4, <1>5 DEF TerminalInv, Alone
<1>9. Said'
    BY <1>2, <1>3, <1>5, <1>6 DEF TerminalInv, Said
<1> QED
    BY <1>1, <1>2, <1>3, <1>7, <1>8, <1>9

(* A browser on its way to a bridge (exec, start, resize) holds nothing in *)
(* the registry.                                                           *)
LEMMA MovesKept ==
    ASSUME TerminalInv, NEW b \in Tabs, NEW p \in {"exec", "start", "resize"}, NEW t \in Terminal!Tab,
           tab' = [tab EXCEPT ![b] = t], t.pc = p,
           tab[b].pc \notin {"open", "closing"}, UNCHANGED <<registry, shared, hasty>>
    PROVE  tab' \in [Tabs -> Terminal!Tab] /\ Opened' /\ Alone' /\ Said'
<1>1. tab \in [Tabs -> Terminal!Tab]
    BY DEF TerminalInv, Terminal!TerminalTypes
<1>2. tab' \in [Tabs -> Terminal!Tab] /\ tab'[b].pc = p /\ \A c \in Tabs \ {b} : tab'[c] = tab[c]
    BY <1>1
<1>3. \A c \in Tabs, s \in Sessions : At(c, s)' <=> At(c, s)
    BY <1>2 DEF At, Terminal!on
<1>4. Opened'
    BY <1>2 DEF TerminalInv, Opened
<1>5. Alone' /\ Said'
    BY <1>3 DEF TerminalInv, Alone, Said
<1> QED
    BY <1>2, <1>4, <1>5

(* Every step of the terminals keeps TerminalInv, one step per action. *)
LEMMA TerminalStep == TerminalInv /\ [Terminal!Next]_(Terminal!vars) => TerminalInv'
<1> SUFFICES ASSUME TerminalInv, [Terminal!Next]_(Terminal!vars)
             PROVE  TerminalInv'
    OBVIOUS
<1>1. /\ Terminal!TerminalTypes /\ MaxConns \in Nat
      /\ \A b \in Tabs : tab[b] \in Terminal!Tab
    BY TerminalAssumption DEF TerminalInv, Terminal!TerminalTypes
<1>2. ASSUME UNCHANGED <<tab, registry, shared, hasty>>
      PROVE  Opened' /\ Alone' /\ Said'
    BY <1>2 DEF TerminalInv, Opened, Alone, Said, At, Terminal!on
<1>3. CASE UNCHANGED Terminal!vars
    BY <1>1, <1>2, <1>3 DEF Terminal!vars, Terminal!TerminalTypes, TerminalInv
<1>4. ASSUME NEW b \in Tabs, NEW s \in Sessions, Terminal!bridge(b, s)
      PROVE  TerminalInv'
    <2>1. [Terminal!NoTab EXCEPT !.pc = "exec", !.session = s] \in Terminal!Tab
        BY NoTab DEF Terminal!Tab
    <2>2. [Terminal!NoTab EXCEPT !.pc = "exec", !.session = s].pc = "exec"
        BY NoTab DEF Terminal!Tab
    <2>3. tab' \in [Tabs -> Terminal!Tab] /\ Opened' /\ Alone' /\ Said'
        BY <1>4, <2>1, <2>2, MovesKept DEF Terminal!bridge
    <2> QED
        BY <1>1, <1>4, <2>3 DEF Terminal!bridge, Terminal!TerminalTypes, TerminalInv
<1>5. ASSUME NEW b \in Tabs, NEW s \in Sessions, Terminal!bridgeAgent(b, s)
      PROVE  TerminalInv'
    <2> DEFINE t == [Terminal!NoTab EXCEPT !.pc = "open", !.session = s, !.conn = connections,
                                           !.released = FALSE]
    <2>1. t \in Terminal!Tab /\ t.pc = "open" /\ t.session = s /\ ~t.released
        BY NoTab, <1>1 DEF Terminal!Tab, Terminal!TerminalTypes
    <2>2. tab' = [tab EXCEPT ![b] = t] /\ tab \in [Tabs -> Terminal!Tab]
        BY <1>1, <1>5 DEF Terminal!bridgeAgent, Terminal!agentFor, Terminal!TerminalTypes
    <2> HIDE DEF t
    <2>3. tab' \in [Tabs -> Terminal!Tab] /\ tab'[b] = t /\ \A c \in Tabs \ {b} : tab'[c] = tab[c]
        BY <2>1, <2>2
    <2>4. registry' \subseteq Sessions /\ shared' \subseteq Sessions /\ Opened' /\ Alone' /\ Said'
        BY <1>5, <2>1, <2>3, JoinsKept DEF Terminal!bridgeAgent
    <2> QED
        BY <1>1, <1>5, <2>3, <2>4 DEF Terminal!bridgeAgent, Terminal!TerminalTypes, TerminalInv
<1>6. ASSUME NEW b \in Tabs, Terminal!BrowserLeaves(b)
      PROVE  TerminalInv'
    <2>1. CASE tab[b].pc = "open"
        <3>1. /\ tab' \in [Tabs -> Terminal!Tab] /\ registry' \subseteq Sessions
              /\ Opened' /\ Alone' /\ Said'
            BY <1>6, <2>1, LeavesKept DEF Terminal!BrowserLeaves
        <3> QED
            BY <1>1, <1>6, <3>1 DEF Terminal!BrowserLeaves, Terminal!TerminalTypes, TerminalInv
    <2>2. CASE tab[b].pc # "open"
        <3>1. tab' = [tab EXCEPT ![b].gone = TRUE] /\ UNCHANGED <<registry, shared, hasty>>
            BY <1>6, <2>2 DEF Terminal!BrowserLeaves
        <3>2. /\ tab' \in [Tabs -> Terminal!Tab]
              /\ \A c \in Tabs : /\ tab'[c].pc = tab[c].pc /\ tab'[c].session = tab[c].session
                                 /\ tab'[c].released = tab[c].released
            BY <1>1, <3>1 DEF Terminal!TerminalTypes, Terminal!Tab
        <3>3. Opened' /\ Alone' /\ Said'
            BY <3>1, <3>2 DEF TerminalInv, Opened, Alone, Said, At, Terminal!on
        <3> QED
            BY <1>1, <1>6, <3>1, <3>2, <3>3
               DEF Terminal!BrowserLeaves, Terminal!TerminalTypes, TerminalInv
    <2> QED
        BY <2>1, <2>2
<1>7. ASSUME NEW s \in Sessions, Terminal!createTerminalSession(s)
      PROVE  TerminalInv'
    BY <1>1, <1>2, <1>7 DEF Terminal!createTerminalSession, Terminal!TerminalTypes, TerminalInv
<1>8. ASSUME NEW s \in Sessions, Terminal!onExit(s)
      PROVE  TerminalInv'
    <2>1. /\ tab' \in [Tabs -> Terminal!Tab] /\ registry' \subseteq Sessions
          /\ Opened' /\ Alone' /\ Said'
        BY <1>8, EndsKept DEF Terminal!onExit
    <2> QED
        BY <1>1, <1>8, <2>1 DEF Terminal!onExit, Terminal!TerminalTypes, TerminalInv
<1>9. ASSUME Terminal!AgentGone
      PROVE  TerminalInv'
    <2>1. /\ tab' \in [Tabs -> Terminal!Tab] /\ registry' \subseteq Sessions
          /\ Opened' /\ Alone' /\ Said'
        BY <1>9, EndsKept DEF Terminal!AgentGone, Terminal!closed
    <2>2. connections' \in 0..MaxConns
        BY <1>1, <1>9 DEF Terminal!AgentGone
    <2> QED
        BY <1>1, <1>9, <2>1, <2>2 DEF Terminal!AgentGone, Terminal!TerminalTypes, TerminalInv
<1>10. ASSUME Terminal!ContainerStops
      PROVE  TerminalInv'
    <2>1. /\ tab' \in [Tabs -> Terminal!Tab] /\ registry' \subseteq Sessions
          /\ Opened' /\ Alone' /\ Said'
        BY <1>10, EndsKept DEF Terminal!ContainerStops
    <2>2. connections' \in 0..MaxConns /\ sessions' = {}
        BY <1>1, <1>10 DEF Terminal!ContainerStops
    <2>3. row' \in [container : BOOLEAN, plane : {"exec", "agent"}]
        <3>1. \A plane \in {"exec", "agent"} :
                  [container |-> FALSE, plane |-> plane]
                      \in [container : BOOLEAN, plane : {"exec", "agent"}]
            OBVIOUS
        <3>2. \/ UNCHANGED row
              \/ \E plane \in {"exec", "agent"} : row' = [container |-> FALSE, plane |-> plane]
            BY <1>10 DEF Terminal!ContainerStops
        <3> QED
            BY <1>1, <3>1, <3>2 DEF Terminal!TerminalTypes
    <2> QED
        BY <1>1, <1>10, <2>1, <2>2, <2>3
           DEF Terminal!ContainerStops, Terminal!TerminalTypes, TerminalInv
<1>11. ASSUME Terminal!ContainerStarts
      PROVE  TerminalInv'
    <2>1. row' \in [container : BOOLEAN, plane : {"exec", "agent"}]
        BY <1>1, <1>11 DEF Terminal!ContainerStarts, Terminal!TerminalTypes
    <2> QED
        BY <1>1, <1>2, <1>11, <2>1 DEF Terminal!ContainerStarts, Terminal!TerminalTypes, TerminalInv
<1>12. ASSUME NEW b \in Tabs, Terminal!Exec(b) \/ Terminal!Start(b)
      PROVE  TerminalInv'
    <2>1. CASE Terminal!Leaves(b)
        <3>1. /\ tab' \in [Tabs -> Terminal!Tab] /\ registry' \subseteq Sessions
              /\ Opened' /\ Alone' /\ Said'
            BY <1>12, <2>1, LeavesKept DEF Terminal!Exec, Terminal!Start, Terminal!Goes
        <3> QED
            BY <1>1, <1>12, <3>1
               DEF Terminal!Exec, Terminal!Start, Terminal!Goes, Terminal!TerminalTypes, TerminalInv
    <2>2. ASSUME NEW p \in {"start", "resize"}, tab' = [tab EXCEPT ![b].pc = p]
          PROVE  TerminalInv'
        <3> DEFINE t == [tab[b] EXCEPT !.pc = p]
        <3>1. t \in Terminal!Tab /\ t.pc = p
            BY <1>1 DEF Terminal!Tab
        <3>2. tab' = [tab EXCEPT ![b] = t]
            BY <2>2
        <3> HIDE DEF t
        <3>3. tab' \in [Tabs -> Terminal!Tab] /\ Opened' /\ Alone' /\ Said'
            BY <1>12, <3>1, <3>2, MovesKept DEF Terminal!Exec, Terminal!Start, Terminal!Goes
        <3> QED
            BY <1>1, <1>12, <3>3
               DEF Terminal!Exec, Terminal!Start, Terminal!Goes, Terminal!TerminalTypes, TerminalInv
    <2> QED
        BY <1>12, <2>1, <2>2 DEF Terminal!Exec, Terminal!Start, Terminal!Goes
<1>13. ASSUME NEW b \in Tabs, Terminal!SocketCloses(b)
      PROVE  TerminalInv'
    <2>1. /\ tab' \in [Tabs -> Terminal!Tab] /\ registry' \subseteq Sessions
          /\ Opened' /\ Alone' /\ Said'
        BY <1>13, LeavesKept DEF Terminal!SocketCloses
    <2> QED
        BY <1>1, <1>13, <2>1 DEF Terminal!SocketCloses, Terminal!TerminalTypes, TerminalInv
<1>14. ASSUME Terminal!attach
      PROVE  TerminalInv'
    <2>1. /\ tab' \in [Tabs -> Terminal!Tab] /\ registry' \subseteq Sessions
          /\ Opened' /\ Alone' /\ Said'
        BY <1>14, EndsKept DEF Terminal!attach, Terminal!closed
    <2>2. connections' \in 0..MaxConns /\ dialled' \in 0..MaxConns
        BY <1>1, <1>14 DEF Terminal!attach, Terminal!TerminalTypes
    <2> QED
        BY <1>1, <1>14, <2>1, <2>2 DEF Terminal!attach, Terminal!TerminalTypes, TerminalInv
<1>15. ASSUME NEW b \in Tabs, Terminal!Attached(b)
      PROVE  TerminalInv'
    <2> DEFINE s == tab[b].session
    <2>1. s \in Sessions
        BY <1>1 DEF Terminal!Tab
    <2>2. sessions' \subseteq Sessions /\ UNCHANGED <<row, connections, dialled>>
        BY <1>1, <1>15, <2>1 DEF Terminal!Attached, Terminal!TerminalTypes
    <2>3. CASE ~tab[b].gone
        <3> DEFINE t == [tab[b] EXCEPT !.pc = "open", !.released = FALSE]
        <3>1. t \in Terminal!Tab /\ t.pc = "open" /\ t.session = s /\ ~t.released
            BY <1>1 DEF Terminal!Tab
        <3>2. tab' = [tab EXCEPT ![b] = t] /\ tab \in [Tabs -> Terminal!Tab]
            BY <1>1, <1>15, <2>3 DEF Terminal!Attached, Terminal!TerminalTypes
        <3>3. tab[b].pc = "resize" /\ Terminal!markAttached(b, s) /\ UNCHANGED hasty
            BY <1>15, <2>3 DEF Terminal!Attached
        <3> HIDE DEF t, s
        <3>4. tab' \in [Tabs -> Terminal!Tab] /\ tab'[b] = t /\ \A c \in Tabs \ {b} : tab'[c] = tab[c]
            BY <3>1, <3>2
        <3>5. registry' \subseteq Sessions /\ shared' \subseteq Sessions /\ Opened' /\ Alone' /\ Said'
            BY <2>1, <3>1, <3>3, <3>4, JoinsKept
        <3> QED
            BY <1>1, <2>2, <3>3, <3>4, <3>5 DEF Terminal!TerminalTypes, TerminalInv
    <2>4. CASE tab[b].gone
        <3>1. /\ tab[b].pc = "resize" /\ registry' = registry \cup {s} /\ hasty' = hasty \cup {s}
              /\ shared \subseteq shared' /\ shared' \subseteq shared \cup {s}
              /\ tab' = [tab EXCEPT ![b] = Terminal!NoTab]
            BY <1>15, <2>4 DEF Terminal!Attached, Terminal!markAttached, Terminal!Leaves
        <3>2. /\ tab' \in [Tabs -> Terminal!Tab] /\ tab'[b].pc = "idle"
              /\ \A c \in Tabs \ {b} : tab'[c] = tab[c]
            BY <1>1, <3>1, NoTab DEF Terminal!TerminalTypes
        <3>3. \A c \in Tabs, r \in Sessions : At(c, r)' <=> At(c, r)
            BY <3>1, <3>2 DEF At, Terminal!on
        <3> HIDE DEF s
        <3>4. Opened'
            BY <3>2 DEF TerminalInv, Opened
        <3>5. Alone' /\ Said'
            BY <3>1, <3>3 DEF TerminalInv, Alone, Said
        <3> QED
            BY <1>1, <2>1, <2>2, <3>1, <3>2, <3>4, <3>5 DEF Terminal!TerminalTypes, TerminalInv
    <2> QED
        BY <2>3, <2>4
<1> QED
    BY <1>3, <1>4, <1>5, <1>6, <1>7, <1>8, <1>9, <1>10, <1>11, <1>12, <1>13, <1>14, <1>15
       DEF Terminal!Next, Terminal!Events, Terminal!Steps

(* A step of the whole server is a step of the terminals, or leaves them *)
(* alone.                                                                *)
LEMMA TerminalScene ==
    ASSUME [Next]_vars
    PROVE  [Terminal!Next]_(Terminal!vars)
<1>1. UNCHANGED vars => UNCHANGED Terminal!vars
    BY DEF vars, terminals, Terminal!vars
<1>2. ASSUME Next, scene = "terminals"
      PROVE  Terminal!Next
    BY <1>2 DEF Next, Terminal!Next
<1>3. ASSUME Next
      PROVE  Others
    BY <1>3, Zenon DEF Next, Goes, Comes
<1>4. ASSUME Next, scene # "terminals"
      PROVE  UNCHANGED Terminal!vars
    BY <1>3, <1>4 DEF Others, terminals, Terminal!vars
<1> QED
    BY <1>1, <1>2, <1>4

(* The list of sessions the dashboard shows as attached is true of every    *)
(* browser at every moment, but for the two races named above (isAttached,  *)
(* markAttached, detach of src/services/terminal-registry.ts): of the       *)
(* component for every number of browsers, sessions and connections, and of *)
(* the server that runs it among the others.                                *)
THEOREM AttachedKept ==
    /\ Terminal!Spec => []Terminal!AttachedIsTrue
    /\ Spec => []AttachedIsTrue
<1>1. TerminalInv => Terminal!AttachedIsTrue
    BY DEF TerminalInv, Said, At, Terminal!AttachedIsTrue, Terminal!isAttached
<1>2. Terminal!Spec => []Terminal!AttachedIsTrue
    BY TerminalInit, TerminalStep, <1>1, PTL DEF Terminal!Spec
<1>3. Init => Terminal!Init
    BY DEF Init
<1>4. Spec => []TerminalInv
    BY <1>3, TerminalInit, TerminalStep, TerminalScene, PTL DEF Spec
<1>5. TerminalInv => AttachedIsTrue
    BY <1>1 DEF AttachedIsTrue
<1> QED
    BY <1>2, <1>4, <1>5, PTL
-----------------------------------------------------------------------------
(* The commands of the tasks: what the row of one says of its process. *)

(* A read of a background command under way, with what it asked and what it *)
(* was answered.                                                            *)
Reading == [pc : {"idle", "poll", "write"}, command : Orders, crate : 0..MaxCrates,
            answer : Command!Statuses]
(* A cancellation under way. *)
Killing == [pc : {"idle", "signal", "write"}, command : Orders, crate : 0..MaxCrates]
(* The types, of the readers and of the killers as records: with them the *)
(* inductive invariant needs no more of the shape of the state.           *)
CommandTyped ==
    /\ seat \in [there : BOOLEAN, crate : 0..MaxCrates, state : {"ready", "other"}]
    /\ crates \in [1..MaxCrates -> {"absent", "up", "down"}]
    /\ process \in [Orders -> Command!Process] /\ record \in [Orders -> Command!Record]
    /\ order \in [Orders -> {"idle", "start", "run", "started", "ran", "over"}]
    /\ reader \in [Readers -> Reading] /\ killer \in [Killers -> Killing]
    /\ alive \in BOOLEAN /\ first \in [Orders -> Command!Statuses] /\ blind \subseteq Orders
(* The worker has one container at a time: any other is gone. *)
TheContainer ==
    /\ \A n \in 1..MaxCrates : crates[n] # "absent" => seat.crate = n
    /\ seat.crate # 0 => seat.there
(* A process that lives is in a container that is up, which is therefore the *)
(* worker's.                                                                 *)
Inside ==
    \A c \in Orders :
        Command!lives(c) => process[c].crate # 0 /\ crates[process[c].crate] = "up"
(* A command has no process before its exec has gone out, and no row before *)
(* its call is over.                                                        *)
Launches ==
    \A c \in Orders :
        /\ order[c] \in {"idle", "start", "run"} => process[c].phase = "none"
        /\ order[c] # "over" => record[c].mode = "none"
(* What a final status says of the process: lost or canceled, that it does *)
(* not live; any other, the code it ended with.                            *)
Ending(c, status) ==
    \/ status \in {"lost", "canceled"} /\ ~Command!lives(c)
    \/ process[c].phase = "ended" /\ status = Command!statusOf(process[c].code)
(* A poll is of a row that was written, and its answer says how the process  *)
(* ended: it still does when it is written, since a process that ended stays *)
(* so, unless the answer was lost on its way.                                *)
Reads ==
    \A r \in Readers :
        /\ reader[r].pc # "idle" => order[reader[r].command] = "over"
        /\ (reader[r].pc = "write" /\ reader[r].command \notin blind
               /\ reader[r].answer # "running") =>
              Ending(reader[r].command, reader[r].answer)
(* A cancellation is of a row that was written, and what it is about to *)
(* record as canceled is dead.                                          *)
Kills ==
    \A k \in Killers :
        /\ killer[k].pc # "idle" => order[killer[k].command] = "over"
        /\ killer[k].pc = "write" => ~Command!lives(killer[k].command)
(* A deleted task has no rows, so an insert or a status that arrives late *)
(* makes none.                                                            *)
Orphans == ~alive => \A c \in Orders : record[c].mode = "none"
(* The final status of a row is the first it had: the first conjunct of *)
(* RowIsTrue.                                                           *)
Final == \A c \in Orders : record[c].mode # "none" => record[c].status = first[c]
(* A final status says how the process ended, or that the call that ran it *)
(* failed: the second conjunct.                                            *)
Ended ==
    \A c \in Orders \ blind :
        record[c].mode # "none" /\ record[c].status # "running" =>
            \/ Ending(c, record[c].status)
            \/ record[c].mode = "sync" /\ record[c].status = "failed"
(* A process that lives, of a task that is there and once its call is over, *)
(* has a background row that says it runs: the third conjunct.              *)
Covered ==
    \A c \in Orders \ blind :
        Command!lives(c) /\ alive /\ order[c] = "over" =>
            record[c].mode = "background" /\ record[c].status = "running"
(* The inductive invariant of the commands. *)
CommandInv ==
    /\ CommandTyped /\ TheContainer /\ Inside /\ Launches /\ Reads /\ Kills /\ Orphans
    /\ Final /\ Ended /\ Covered

(* The records of a read and of a cancellation that are not under way are *)
(* typed, and idle.                                                       *)
LEMMA Nobody == Command!NoReader \in Reading /\ Command!NoKiller \in Killing
               /\ Command!NoReader.pc = "idle" /\ Command!NoKiller.pc = "idle"
<1>1. (CHOOSE c \in Orders : TRUE) \in Orders
    BY CommandAssumption
<1> QED
    BY <1>1, CommandAssumption
       DEF Command!NoReader, Command!NoKiller, Reading, Killing, Command!Statuses

(* At first no command has a process nor a row. *)
LEMMA CommandInit == Command!Init => CommandInv
<1> SUFFICES ASSUME Command!Init PROVE CommandInv
    OBVIOUS
<1>1. Command!NoProcess \in Command!Process /\ Command!NoProcess.phase = "none"
    BY CommandAssumption DEF Command!NoProcess, Command!Process, Command!NoCode
<1>2. Command!NoRecord \in Command!Record /\ Command!NoRecord.mode = "none"
    BY DEF Command!NoRecord, Command!Record, Command!Statuses
<1>3. CommandTyped
    BY <1>1, <1>2, Nobody, CommandAssumption DEF Command!Init, CommandTyped, Command!Statuses
<1>4. \A c \in Orders : /\ process[c].phase = "none" /\ record[c].mode = "none"
                        /\ order[c] = "idle"
    BY <1>1, <1>2 DEF Command!Init
<1>5. (\A r \in Readers : reader[r].pc = "idle") /\ \A k \in Killers : killer[k].pc = "idle"
    BY Nobody DEF Command!Init
<1>6. TheContainer
    BY CommandAssumption DEF Command!Init, TheContainer
<1> QED
    BY <1>3, <1>4, <1>5, <1>6
       DEF CommandInv, Inside, Launches, Reads, Kills, Orphans, Final, Ended, Covered, Command!lives

(* A process that ends is in the same container, with the code it ended with. *)
LEMMA EndedMeans ==
    ASSUME NEW p \in Command!Process, NEW code \in Command!Codes
    PROVE  /\ [p EXCEPT !.phase = "ended", !.code = code] \in Command!Process
           /\ [p EXCEPT !.phase = "ended", !.code = code].phase = "ended"
           /\ [p EXCEPT !.phase = "ended", !.code = code].crate = p.crate
BY DEF Command!Process, Command!Codes

(* The insert of a row (inserted): it keeps the invariants of the rows as *)
(* long as its status is true of the process, or the command is blind.    *)
LEMMA InsertKept ==
    ASSUME CommandInv, NEW c \in Orders, NEW mode \in {"sync", "background"},
           NEW status \in Command!Statuses, Command!inserted(c, mode, status),
           order' = [order EXCEPT ![c] = "over"], blind' \in {blind, blind \cup {c}},
           UNCHANGED <<process, alive>>,
           c \notin blind' => \/ mode = "background" /\ status = "running"
                              \/ /\ ~Command!lives(c)
                                 /\ Ending(c, status) \/ (mode = "sync" /\ status = "failed")
    PROVE  /\ record' \in [Orders -> Command!Record] /\ first' \in [Orders -> Command!Statuses]
           /\ Launches' /\ Orphans' /\ Final' /\ Ended' /\ Covered'
<1>1. /\ record \in [Orders -> Command!Record] /\ first \in [Orders -> Command!Statuses]
      /\ order \in [Orders -> {"idle", "start", "run", "started", "ran", "over"}]
    BY DEF CommandInv, CommandTyped
<1> DEFINE new == [mode |-> mode, status |-> status]
<1>2. new \in Command!Record /\ new.mode = mode /\ new.status = status
    BY DEF Command!Record
<1>3. /\ alive => record' = [record EXCEPT ![c] = new] /\ first' = [first EXCEPT ![c] = status]
      /\ ~alive => UNCHANGED <<record, first>>
    BY DEF Command!inserted
<1> HIDE DEF new
<1>4. /\ record' \in [Orders -> Command!Record] /\ first' \in [Orders -> Command!Statuses]
      /\ \A d \in Orders \ {c} : record'[d] = record[d] /\ first'[d] = first[d]
      /\ alive => record'[c].mode = mode /\ record'[c].status = status /\ first'[c] = status
      /\ ~alive => record'[c] = record[c] /\ first'[c] = first[c]
    BY <1>1, <1>2, <1>3
<1>5. order'[c] = "over" /\ \A d \in Orders \ {c} : order'[d] = order[d]
    BY <1>1
<1>6. \A d \in Orders \ {c} : d \in blind' <=> d \in blind
    OBVIOUS
<1>6a. blind \subseteq blind'
    OBVIOUS
<1>7. ~alive => \A d \in Orders : record[d].mode = "none"
    BY DEF CommandInv, Orphans
<1>8. Launches'
    BY <1>4, <1>5 DEF CommandInv, Launches
<1>9. Orphans' /\ Final'
    BY <1>4, <1>7 DEF CommandInv, Orphans, Final
<1>10. Ended'
    BY <1>4, <1>6, <1>7 DEF CommandInv, Ended, Ending, Command!lives, Command!statusOf
<1>11. Covered'
    BY <1>4, <1>5, <1>6 DEF CommandInv, Covered, Ending, Command!lives
<1> QED
    BY <1>4, <1>8, <1>9, <1>10, <1>11

(* A status that is written only on a row still running (Finish) keeps the *)
(* invariants of the rows as long as it is true of the process.            *)
LEMMA FinishKept ==
    ASSUME CommandInv, NEW c \in Orders, NEW status \in Command!Statuses,
           Command!Finish(c, status), UNCHANGED <<process, order, alive, blind>>,
           order[c] = "over", c \notin blind /\ status # "running" => Ending(c, status)
    PROVE  /\ record' \in [Orders -> Command!Record] /\ first' \in [Orders -> Command!Statuses]
           /\ Launches' /\ Orphans' /\ Final' /\ Ended' /\ Covered'
<1>1. /\ record \in [Orders -> Command!Record] /\ first \in [Orders -> Command!Statuses]
      /\ record[c] \in Command!Record
    BY DEF CommandInv, CommandTyped
<1>2. CASE UNCHANGED <<record, first>>
    BY <1>1, <1>2 DEF CommandInv, Launches, Orphans, Final, Ended, Covered, Ending, Command!lives
<1>3. CASE /\ record[c].status = "running" /\ status # "running"
           /\ record' = [record EXCEPT ![c].status = status]
           /\ first' = [first EXCEPT ![c] = IF first[c] = "running" THEN status ELSE first[c]]
    <2> DEFINE new == [record[c] EXCEPT !.status = status]
               f == IF first[c] = "running" THEN status ELSE first[c]
    <2>1. new \in Command!Record /\ new.mode = record[c].mode /\ new.status = status
        BY <1>1 DEF Command!Record
    <2>2. f \in Command!Statuses /\ (first[c] = "running" => f = status)
        BY <1>1
    <2>3. record' = [record EXCEPT ![c] = new] /\ first' = [first EXCEPT ![c] = f]
        BY <1>3
    <2> HIDE DEF new, f
    <2>4. /\ record' \in [Orders -> Command!Record] /\ first' \in [Orders -> Command!Statuses]
          /\ \A d \in Orders \ {c} : record'[d] = record[d] /\ first'[d] = first[d]
          /\ record'[c].mode = record[c].mode /\ record'[c].status = status
          /\ first[c] = "running" => first'[c] = status
        BY <1>1, <2>1, <2>2, <2>3
    <2>5. Launches'
        BY <2>4 DEF CommandInv, Launches
    <2>6. Orphans' /\ Final'
        BY <1>3, <2>4 DEF CommandInv, Orphans, Final
    <2>7. Ended'
        BY <1>3, <2>4 DEF CommandInv, Ended, Ending, Command!lives, Command!statusOf
    <2>8. Covered'
        BY <1>3, <2>4 DEF CommandInv, Covered, Ending, Command!lives
    <2> QED
        BY <2>4, <2>5, <2>6, <2>7, <2>8
<1> QED
    BY <1>2, <1>3 DEF Command!Finish, Command!stillRunning, Command!isRunning

(* A process that runs on, ends or dies, whatever the reason, falsifies no *)
(* row and no answer on its way: only processes that live move, and they   *)
(* never come back.                                                        *)
LEMMA ProcessKept ==
    ASSUME CommandInv, UNCHANGED <<order, record, reader, alive, blind>>,
           \A c \in Orders : \/ process'[c] = process[c]
                             \/ /\ Command!lives(c) /\ process'[c].crate = process[c].crate
                                /\ process'[c].phase \in {"running", "ended", "dead"}
    PROVE  /\ Launches' /\ Reads' /\ Ended' /\ Covered'
           /\ \A c \in Orders :
                    Command!lives(c)' => Command!lives(c) /\ process'[c].crate = process[c].crate
<1>1. /\ \A c \in Orders :
               Command!lives(c)' => Command!lives(c) /\ process'[c].crate = process[c].crate
      /\ \A c \in Orders : process[c].phase = "ended" => process'[c] = process[c]
      /\ \A c \in Orders : process[c].phase = "none" => process'[c] = process[c]
    BY DEF Command!lives
<1>2. \A c \in Orders, status \in Command!Statuses : Ending(c, status) => Ending(c, status)'
    BY <1>1 DEF Ending, Command!statusOf
<1>3. /\ \A r \in Readers : reader[r] \in Reading
      /\ \A c \in Orders : record[c] \in Command!Record
    BY DEF CommandInv, CommandTyped
<1>4. Launches'
    BY <1>1 DEF CommandInv, Launches
<1>5. Reads'
    BY <1>2, <1>3 DEF CommandInv, Reads, Reading
<1>6. Ended'
    BY <1>2, <1>3 DEF CommandInv, Ended, Command!Record
<1>7. Covered'
    BY <1>1 DEF CommandInv, Covered
<1> QED
    BY <1>1, <1>4, <1>5, <1>6, <1>7

(* Every action of the commands keeps CommandInv, one step per action. *)
LEMMA CommandNext == CommandInv /\ (Command!Steps \/ Command!Events) => CommandInv'
<1> SUFFICES ASSUME CommandInv, Command!Steps \/ Command!Events PROVE CommandInv'
    OBVIOUS
<1>1. CommandInv
    OBVIOUS
<1>2. /\ CommandTyped /\ TheContainer /\ Inside /\ Launches /\ Reads /\ Kills /\ Orphans
      /\ Final /\ Ended /\ Covered /\ MaxCrates \in Nat \ {0}
    BY CommandAssumption DEF CommandInv
<1>3. /\ \A c \in Orders : process[c] \in Command!Process /\ record[c] \in Command!Record
      /\ \A r \in Readers : reader[r] \in Reading
      /\ \A k \in Killers : killer[k] \in Killing
    BY <1>2 DEF CommandTyped
<1>4. /\ seat \in [there : BOOLEAN, crate : 0..MaxCrates, state : {"ready", "other"}]
      /\ seat.there \in BOOLEAN /\ seat.crate \in 0..MaxCrates
      /\ crates \in [1..MaxCrates -> {"absent", "up", "down"}]
      /\ \A n \in 0..MaxCrates : n # 0 /\ crates[n] # "absent" => seat.crate = n
    BY <1>2 DEF CommandTyped, TheContainer
<1>5. \A c \in Orders :
          Command!lives(c) => process[c].crate = seat.crate /\ seat.crate # 0 /\ seat.there
    <2>1. \A c \in Orders : process[c].crate \in 0..MaxCrates
        BY <1>3 DEF Command!Process
    <2> QED
        BY <1>2, <1>4, <2>1 DEF Inside, TheContainer
<1>6. ASSUME NEW c \in Orders, Command!startTaskCommand(c)
      PROVE  CommandInv'
    <2>1. /\ order[c] = "idle" /\ order' = [order EXCEPT ![c] = "start"]
          /\ process' = [process EXCEPT ![c].crate = seat.crate]
          /\ UNCHANGED <<seat, crates, record, reader, killer, alive, first, blind>>
        BY <1>6 DEF Command!startTaskCommand
    <2>2. [process[c] EXCEPT !.crate = seat.crate] \in Command!Process
        BY <1>3, <1>4 DEF Command!Process
    <2>3. /\ process' \in [Orders -> Command!Process]
          /\ \A d \in Orders :
                   process'[d].phase = process[d].phase /\ process'[d].code = process[d].code
          /\ \A d \in Orders \ {c} : process'[d] = process[d]
        BY <1>2, <1>3, <2>1, <2>2 DEF CommandTyped, Command!Process
    <2>4. /\ order' \in [Orders -> {"idle", "start", "run", "started", "ran", "over"}]
          /\ order'[c] = "start"
          /\ \A d \in Orders \ {c} : order'[d] = order[d]
        BY <1>2, <2>1 DEF CommandTyped
    <2>5. CommandTyped'
        BY <1>2, <2>1, <2>3, <2>4 DEF CommandTyped
    <2>6. TheContainer'
        BY <1>2, <2>1 DEF TheContainer
    <2>7. Inside'
        BY <1>2, <2>1, <2>3 DEF Inside, Launches, Command!lives
    <2>8. Launches'
        BY <1>2, <2>1, <2>2, <2>3, <2>4 DEF Launches
    <2>9. Reads'
        BY <1>2, <1>3, <2>1, <2>2, <2>3, <2>4 DEF Reads, Ending, Command!lives, Command!statusOf
    <2>10. Kills'
        BY <1>2, <1>3, <2>1, <2>2, <2>3, <2>4 DEF Kills, Command!lives
    <2>11. Orphans'
        BY <1>2, <2>1 DEF Orphans
    <2>12. Final'
        BY <1>2, <2>1 DEF Final
    <2>13. Ended'
        BY <1>2, <1>3, <2>1, <2>2, <2>3 DEF Ended, Ending, Command!lives, Command!statusOf
    <2>14. Covered'
        BY <1>2, <1>3, <2>1, <2>2, <2>3, <2>4 DEF Covered, Command!lives
    <2> QED
        BY <2>5, <2>6, <2>7, <2>8, <2>9, <2>10, <2>11, <2>12, <2>13, <2>14 DEF CommandInv
<1>7. ASSUME NEW c \in Orders, Command!runTaskCommand(c)
      PROVE  CommandInv'
    <2>1. /\ order[c] = "idle" /\ order' = [order EXCEPT ![c] = "run"]
          /\ process' = [process EXCEPT ![c].crate = seat.crate]
          /\ UNCHANGED <<seat, crates, record, reader, killer, alive, first, blind>>
        BY <1>7 DEF Command!runTaskCommand
    <2>2. [process[c] EXCEPT !.crate = seat.crate] \in Command!Process
        BY <1>3, <1>4 DEF Command!Process
    <2>3. /\ process' \in [Orders -> Command!Process]
          /\ \A d \in Orders :
                   process'[d].phase = process[d].phase /\ process'[d].code = process[d].code
          /\ \A d \in Orders \ {c} : process'[d] = process[d]
        BY <1>2, <1>3, <2>1, <2>2 DEF CommandTyped, Command!Process
    <2>4. /\ order' \in [Orders -> {"idle", "start", "run", "started", "ran", "over"}]
          /\ order'[c] = "run"
          /\ \A d \in Orders \ {c} : order'[d] = order[d]
        BY <1>2, <2>1 DEF CommandTyped
    <2>5. CommandTyped'
        BY <1>2, <2>1, <2>3, <2>4 DEF CommandTyped
    <2>6. TheContainer'
        BY <1>2, <2>1 DEF TheContainer
    <2>7. Inside'
        BY <1>2, <2>1, <2>3 DEF Inside, Launches, Command!lives
    <2>8. Launches'
        BY <1>2, <2>1, <2>2, <2>3, <2>4 DEF Launches
    <2>9. Reads'
        BY <1>2, <1>3, <2>1, <2>2, <2>3, <2>4 DEF Reads, Ending, Command!lives, Command!statusOf
    <2>10. Kills'
        BY <1>2, <1>3, <2>1, <2>2, <2>3, <2>4 DEF Kills, Command!lives
    <2>11. Orphans'
        BY <1>2, <2>1 DEF Orphans
    <2>12. Final'
        BY <1>2, <2>1 DEF Final
    <2>13. Ended'
        BY <1>2, <1>3, <2>1, <2>2, <2>3 DEF Ended, Ending, Command!lives, Command!statusOf
    <2>14. Covered'
        BY <1>2, <1>3, <2>1, <2>2, <2>3, <2>4 DEF Covered, Command!lives
    <2> QED
        BY <2>5, <2>6, <2>7, <2>8, <2>9, <2>10, <2>11, <2>12, <2>13, <2>14 DEF CommandInv
<1>8. ASSUME NEW c \in Orders, Command!execScript(c)
      PROVE  CommandInv'
    <2>1. order[c] \in {"start", "run"} /\ UNCHANGED <<seat, crates, reader, killer, alive, blind>>
        BY <1>8 DEF Command!execScript
    <2>2. process[c].phase = "none" /\ record[c].mode = "none"
        BY <1>2, <2>1 DEF Launches
    <2>3. CASE Command!reaches(process[c].crate)
        <3> DEFINE new == [process[c] EXCEPT !.phase = "starting"]
        <3>1. new \in Command!Process /\ new.phase = "starting" /\ new.crate = process[c].crate
            BY <1>3 DEF Command!Process
        <3>2. /\ process' = [process EXCEPT ![c] = new] /\ UNCHANGED <<record, first>>
              /\ order' = [order EXCEPT ![c] = IF order[c] = "start" THEN "started" ELSE "ran"]
              /\ process[c].crate # 0 /\ crates[process[c].crate] = "up"
            BY <1>8, <2>3 DEF Command!execScript, Command!reaches
        <3> HIDE DEF new
        <3>3. /\ process' \in [Orders -> Command!Process] /\ process'[c] = new
              /\ order' \in [Orders -> {"idle", "start", "run", "started", "ran", "over"}]
              /\ order'[c] \in {"started", "ran"}
              /\ \A d \in Orders \ {c} : process'[d] = process[d] /\ order'[d] = order[d]
            BY <1>2, <3>1, <3>2 DEF CommandTyped
        <3>4. CommandTyped' /\ TheContainer' /\ Orphans' /\ Final'
            BY <1>2, <2>1, <3>2, <3>3 DEF CommandTyped, TheContainer, Orphans, Final
        <3>5. Inside'
            BY <1>2, <2>1, <3>1, <3>2, <3>3 DEF Inside, Command!lives
        <3>6. Launches'
            BY <1>2, <2>1, <2>2, <3>2, <3>3 DEF Launches
        <3>7. Reads' /\ Kills'
            BY <1>2, <1>3, <2>1, <3>2, <3>3
               DEF Reads, Kills, Ending, Command!lives, Command!statusOf, Reading, Killing
        <3>8. Ended' /\ Covered'
            BY <1>2, <2>1, <2>2, <3>2, <3>3
               DEF Ended, Covered, Ending, Command!lives, Command!statusOf
        <3> QED
            BY <3>4, <3>5, <3>6, <3>7, <3>8 DEF CommandInv
    <2>4. CASE ~Command!reaches(process[c].crate)
        <3>1. /\ order' = [order EXCEPT ![c] = "over"] /\ UNCHANGED process
              /\ Command!inserted(c, "sync", "failed") \/ UNCHANGED <<record, first>>
            BY <1>8, <2>4 DEF Command!execScript, Command!inserted
        <3>2. /\ order' \in [Orders -> {"idle", "start", "run", "started", "ran", "over"}]
              /\ order'[c] = "over" /\ \A d \in Orders \ {c} : order'[d] = order[d]
            BY <1>2, <3>1 DEF CommandTyped
        <3>3. /\ record' \in [Orders -> Command!Record] /\ first' \in [Orders -> Command!Statuses]
              /\ Launches' /\ Orphans' /\ Final' /\ Ended' /\ Covered'
            <4>1. CASE Command!inserted(c, "sync", "failed")
                BY <1>1, <2>1, <2>2, <3>1, <4>1, InsertKept DEF Command!Statuses, Command!lives
            <4>2. CASE UNCHANGED <<record, first>>
                <5>1. /\ record \in [Orders -> Command!Record]
                      /\ first \in [Orders -> Command!Statuses]
                    BY <1>2 DEF CommandTyped
                <5>2. Launches' /\ Orphans' /\ Final'
                    BY <1>2, <2>1, <3>1, <3>2, <4>2 DEF Launches, Orphans, Final
                <5>3. Ended' /\ Covered'
                    BY <1>2, <2>1, <2>2, <3>1, <3>2, <4>2 DEF Ended, Covered, Ending, Command!lives
                <5> QED
                    BY <4>2, <5>1, <5>2, <5>3
            <4> QED
                BY <3>1, <4>1, <4>2
        <3>4. CommandTyped' /\ TheContainer' /\ Inside'
            BY <1>2, <2>1, <3>1, <3>2, <3>3 DEF CommandTyped, TheContainer, Inside, Command!lives
        <3>5. Reads' /\ Kills'
            BY <1>2, <1>3, <2>1, <3>1, <3>2
               DEF Reads, Kills, Ending, Command!lives, Command!statusOf, Reading, Killing
        <3> QED
            BY <3>3, <3>4, <3>5 DEF CommandInv
    <2> QED
        BY <2>3, <2>4
<1>9. ASSUME NEW c \in Orders, Command!recordedAtLaunch(c)
      PROVE  CommandInv'
    <2>1. /\ order[c] = "started" /\ order' = [order EXCEPT ![c] = "over"]
          /\ Command!inserted(c, "background", "running")
          /\ UNCHANGED <<seat, crates, process, reader, killer, alive, blind>>
        BY <1>9 DEF Command!recordedAtLaunch
    <2>2. /\ order' \in [Orders -> {"idle", "start", "run", "started", "ran", "over"}]
          /\ order'[c] = "over"
          /\ \A d \in Orders \ {c} : order'[d] = order[d]
        BY <1>2, <2>1 DEF CommandTyped
    <2>3. /\ record' \in [Orders -> Command!Record] /\ first' \in [Orders -> Command!Statuses]
          /\ Launches' /\ Orphans' /\ Final' /\ Ended' /\ Covered'
        BY <1>1, <2>1, InsertKept DEF Command!Statuses
    <2>4. CommandTyped'
        BY <1>2, <2>1, <2>2, <2>3 DEF CommandTyped
    <2>5. TheContainer'
        BY <1>2, <2>1 DEF TheContainer
    <2>6. Inside'
        BY <1>2, <2>1 DEF Inside, Command!lives
    <2>7. Reads'
        BY <1>2, <1>3, <2>1, <2>2 DEF Reads, Ending, Command!lives, Command!statusOf
    <2>8. Kills'
        BY <1>2, <1>3, <2>1, <2>2 DEF Kills, Command!lives
    <2> QED
        BY <2>3, <2>4, <2>5, <2>6, <2>7, <2>8 DEF CommandInv
<1>10. ASSUME NEW c \in Orders, Command!recordedAtReturn(c)
       PROVE  CommandInv'
    <2>1. /\ order[c] = "ran" /\ order' = [order EXCEPT ![c] = "over"]
          /\ process[c].phase \in {"ended", "dead"}
          /\ UNCHANGED <<seat, crates, process, reader, killer, alive, blind>>
        BY <1>10 DEF Command!recordedAtReturn
    <2>2. /\ order' \in [Orders -> {"idle", "start", "run", "started", "ran", "over"}]
          /\ order'[c] = "over"
          /\ \A d \in Orders \ {c} : order'[d] = order[d]
        BY <1>2, <2>1 DEF CommandTyped
    <2>3. PICK status \in Command!Statuses :
              /\ Command!inserted(c, "sync", status)
              /\ Ending(c, status) \/ status = "failed"
        BY <1>10, <2>1 DEF Command!recordedAtReturn, Command!Statuses, Command!statusOf, Ending
    <2>4. ~Command!lives(c)
        BY <2>1 DEF Command!lives
    <2>5. /\ record' \in [Orders -> Command!Record] /\ first' \in [Orders -> Command!Statuses]
          /\ Launches' /\ Orphans' /\ Final' /\ Ended' /\ Covered'
        <3> DEFINE mode == "sync"
        <3>1. /\ mode \in {"sync", "background"} /\ Command!inserted(c, mode, status)
           /\ order' = [order EXCEPT ![c] = "over"] /\ blind' \in {blind, blind \cup {c}}
           /\ UNCHANGED <<process, alive>>
            BY <2>1, <2>3
        <3>2. ~Command!lives(c) /\ (Ending(c, status) \/ (mode = "sync" /\ status = "failed"))
            BY <2>3, <2>4
        <3> HIDE DEF mode
        <3> QED
            BY <1>1, <3>1, <3>2, InsertKept
    <2>6. CommandTyped'
        BY <1>2, <2>1, <2>2, <2>5 DEF CommandTyped
    <2>7. TheContainer'
        BY <1>2, <2>1 DEF TheContainer
    <2>8. Inside'
        BY <1>2, <2>1 DEF Inside, Command!lives
    <2>9. Reads'
        BY <1>2, <1>3, <2>1, <2>2, <2>3, <2>4 DEF Reads, Ending, Command!lives, Command!statusOf
    <2>10. Kills'
        BY <1>2, <1>3, <2>1, <2>2, <2>3, <2>4 DEF Kills, Command!lives
    <2> QED
        BY <2>5, <2>6, <2>7, <2>8, <2>9, <2>10 DEF CommandInv
<1>11. ASSUME NEW c \in Orders, Command!AnswerLost(c)
      PROVE  CommandInv'
    <2>1. /\ order[c] \in {"started", "ran"} /\ order' = [order EXCEPT ![c] = "over"]
          /\ blind' = blind \cup {c} /\ UNCHANGED <<seat, crates, process, reader, killer, alive>>
        BY <1>11 DEF Command!AnswerLost
    <2>2. /\ order' \in [Orders -> {"idle", "start", "run", "started", "ran", "over"}]
          /\ order'[c] = "over"
          /\ \A d \in Orders \ {c} : order'[d] = order[d]
        BY <1>2, <2>1 DEF CommandTyped
    <2>3. /\ record' \in [Orders -> Command!Record] /\ first' \in [Orders -> Command!Statuses]
          /\ Launches' /\ Orphans' /\ Final' /\ Ended' /\ Covered'
        <3>1. CASE Command!inserted(c, "sync", "failed")
            BY <1>1, <2>1, <3>1, InsertKept DEF Command!Statuses
        <3>2. CASE UNCHANGED <<record, first>>
            <4>1. record \in [Orders -> Command!Record] /\ first \in [Orders -> Command!Statuses]
                BY <1>2 DEF CommandTyped
            <4>2. Launches' /\ Orphans' /\ Final'
                BY <1>2, <2>1, <2>2, <3>2 DEF Launches, Orphans, Final
            <4>3. Ended' /\ Covered'
                BY <1>2, <2>1, <2>2, <3>2 DEF Ended, Covered, Ending, Command!lives
            <4> QED
                BY <3>2, <4>1, <4>2, <4>3
        <3> QED
            BY <1>11, <3>1, <3>2 DEF Command!AnswerLost
    <2>4. CommandTyped'
        BY <1>2, <2>1, <2>2, <2>3 DEF CommandTyped
    <2>5. TheContainer'
        BY <1>2, <2>1 DEF TheContainer
    <2>6. Inside'
        BY <1>2, <2>1 DEF Inside, Command!lives
    <2>7. Reads'
        BY <1>2, <1>3, <2>1, <2>2 DEF Reads, Ending, Command!lives, Command!statusOf
    <2>8. Kills'
        BY <1>2, <1>3, <2>1, <2>2 DEF Kills, Command!lives
    <2> QED
        BY <2>3, <2>4, <2>5, <2>6, <2>7, <2>8 DEF CommandInv
<1>12. ASSUME NEW r \in Readers, NEW c \in Orders, Command!refreshTaskCommand(r, c)
      PROVE  CommandInv'
    <2>1. /\ reader[r].pc = "idle" /\ record[c].mode = "background"
          /\ UNCHANGED <<seat, crates, process, order, killer, alive, blind>>
        BY <1>12 DEF Command!refreshTaskCommand
    <2>2. order[c] = "over"
        BY <1>2, <2>1 DEF Launches
    <2>3. \/ Command!Finish(c, "lost") /\ UNCHANGED reader /\ ~Command!hasContainer
          \/ /\ UNCHANGED <<record, first>>
             /\ reader' = [reader EXCEPT ![r] =
                    [Command!NoReader EXCEPT !.pc = "poll", !.command = c, !.crate = seat.crate]]
        BY <1>12 DEF Command!refreshTaskCommand
    <2>4. ~Command!hasContainer => ~Command!lives(c)
        BY <1>5 DEF Command!hasContainer
    <2>5. /\ record' \in [Orders -> Command!Record] /\ first' \in [Orders -> Command!Statuses]
          /\ Launches' /\ Orphans' /\ Final' /\ Ended' /\ Covered'
        <3>1. CASE Command!Finish(c, "lost") /\ ~Command!hasContainer
            BY <1>1, <2>1, <2>2, <2>4, <3>1, FinishKept DEF Command!Statuses, Ending
        <3>2. CASE UNCHANGED <<record, first>>
            <4>1. record \in [Orders -> Command!Record] /\ first \in [Orders -> Command!Statuses]
                BY <1>2 DEF CommandTyped
            <4> QED
                BY <1>2, <2>1, <3>2, <4>1
                   DEF Launches, Orphans, Final, Ended, Covered, Ending,
                       Command!lives
        <3> QED
            BY <2>3, <3>1, <3>2
    <2>6. /\ reader' \in [Readers -> Reading]
          /\ \A s \in Readers : \/ reader'[s] = reader[s]
                                \/ reader'[s].pc = "poll" /\ reader'[s].command = c
        <3> DEFINE new ==
                [Command!NoReader EXCEPT !.pc = "poll", !.command = c, !.crate = seat.crate]
        <3>1. new \in Reading /\ new.pc = "poll" /\ new.command = c
            BY <1>4, Nobody DEF Reading
        <3> HIDE DEF new
        <3>2. UNCHANGED reader \/ reader' = [reader EXCEPT ![r] = new]
            BY <2>3 DEF new
        <3> QED
            <4>1. reader \in [Readers -> Reading]
                BY <1>2 DEF CommandTyped
            <4> QED
                BY <3>1, <3>2, <4>1
    <2>7. CommandTyped'
        BY <1>2, <2>1, <2>3, <2>5, <2>6 DEF CommandTyped
    <2>8. TheContainer'
        BY <1>2, <2>1 DEF TheContainer
    <2>9. Inside'
        BY <1>2, <2>1 DEF Inside, Command!lives
    <2>10. Reads'
        BY <1>2, <1>3, <2>1, <2>2, <2>3, <2>4, <2>6
           DEF Reads, Ending, Command!lives, Command!statusOf
    <2>11. Kills'
        BY <1>2, <2>1 DEF Kills, Command!lives
    <2> QED
        BY <2>5, <2>7, <2>8, <2>9, <2>10, <2>11 DEF CommandInv
<1>13. ASSUME NEW r \in Readers, Command!Polled(r)
      PROVE  CommandInv'
    <2>1. /\ reader[r].pc = "poll"
          /\ UNCHANGED <<seat, crates, process, record, order, killer, alive, first, blind>>
        BY <1>13 DEF Command!Polled
    <2>2. PICK new \in Reading :
              /\ reader' = [reader EXCEPT ![r] = new]
              /\ new.pc # "idle" => /\ new.command = reader[r].command
                                    /\ new.answer # "running" => Ending(new.command, new.answer)
        <3> DEFINE c == reader[r].command
                   new ==
                       [reader[r] EXCEPT !.pc = "write",
                                         !.answer = Command!pollCommand(c, reader[r].crate)]
        <3>1. /\ c \in Orders /\ order[c] = "over"
              /\ reader[r] \in Reading /\ reader[r].crate \in 0..MaxCrates
            BY <1>2, <1>3, <2>1 DEF Reading, Reads
        <3>2. Command!pollCommand(c, reader[r].crate) \in Command!Statuses
            BY DEF Command!pollCommand, Command!statusOf, Command!Statuses
        <3>3. /\ new \in Reading /\ new.command = c
              /\ new.answer = Command!pollCommand(c, reader[r].crate)
            BY <3>1, <3>2 DEF Reading
        <3>4. CASE Command!reaches(reader[r].crate)
            <4>1. process[c].crate # reader[r].crate => ~Command!lives(c)
                BY <1>4, <1>5, <3>1, <3>4 DEF Command!reaches
            <4>2. new.answer # "running" => Ending(c, new.answer)
                BY <3>1, <3>3, <4>1
                   DEF Ending, Command!pollCommand, Command!found, Command!died,
                       Command!lives
            <4> HIDE DEF new
            <4>3. reader' = [reader EXCEPT ![r] = new]
                BY <1>13, <3>4 DEF Command!Polled, new
            <4> QED
                BY <3>3, <4>2, <4>3
        <3>5. CASE ~Command!reaches(reader[r].crate)
            BY <1>13, <3>5, Nobody DEF Command!Polled
        <3> QED
            BY <3>4, <3>5
    <2>3. /\ reader' \in [Readers -> Reading] /\ reader'[r] = new
          /\ \A s \in Readers \ {r} : reader'[s] = reader[s]
        BY <1>2, <2>2 DEF CommandTyped
    <2>4. CommandTyped'
        BY <1>2, <2>1, <2>2, <2>3 DEF CommandTyped
    <2>5. TheContainer'
        BY <1>2, <2>1 DEF TheContainer
    <2>6. Inside'
        BY <1>2, <2>1 DEF Inside, Command!lives
    <2>7. Launches'
        BY <1>2, <2>1 DEF Launches
    <2>8. Reads'
        BY <1>2, <2>1, <2>2, <2>3 DEF Reads, Ending, Command!lives
    <2>9. Kills'
        BY <1>2, <2>1 DEF Kills, Command!lives
    <2>10. Orphans'
        BY <1>2, <2>1 DEF Orphans
    <2>11. Final'
        BY <1>2, <2>1 DEF Final
    <2>12. Ended'
        BY <1>2, <2>1 DEF Ended, Ending, Command!lives, Command!statusOf
    <2>13. Covered'
        BY <1>2, <2>1 DEF Covered, Command!lives
    <2> QED
        BY <2>4, <2>5, <2>6, <2>7, <2>8, <2>9, <2>10, <2>11, <2>12, <2>13 DEF CommandInv
<1>14. ASSUME NEW r \in Readers, Command!StreamBreaks(r)
      PROVE  CommandInv'
    <2>1. /\ reader[r].pc = "poll" /\ blind' = blind \cup {reader[r].command}
          /\ reader' = [reader EXCEPT ![r].pc = "write", ![r].answer = "lost"]
          /\ UNCHANGED <<seat, crates, process, record, order, killer, alive, first>>
        BY <1>14 DEF Command!StreamBreaks
    <2>2. PICK new \in Reading :
              /\ reader' = [reader EXCEPT ![r] = new] /\ new.command = reader[r].command
              /\ new.pc = "write"
        <3> DEFINE new == [reader[r] EXCEPT !.pc = "write", !.answer = "lost"]
        <3>1. new \in Reading /\ new.command = reader[r].command /\ new.pc = "write"
            BY <1>3 DEF Reading, Command!Statuses
        <3>2. reader' = [reader EXCEPT ![r] = new]
            BY <2>1
        <3> QED
            BY <3>1, <3>2
    <2>3. /\ reader' \in [Readers -> Reading] /\ reader'[r] = new
          /\ \A s \in Readers \ {r} : reader'[s] = reader[s]
        BY <1>2, <2>2 DEF CommandTyped
    <2>4. blind' \subseteq Orders
        BY <1>2, <1>3, <2>1 DEF CommandTyped, Reading
    <2>5. CommandTyped'
        BY <1>2, <2>1, <2>2, <2>3, <2>4 DEF CommandTyped
    <2>6. TheContainer'
        BY <1>2, <2>1 DEF TheContainer
    <2>7. Inside'
        BY <1>2, <2>1 DEF Inside, Command!lives
    <2>8. Launches'
        BY <1>2, <2>1 DEF Launches
    <2>9. Reads'
        BY <1>2, <1>3, <2>1, <2>2, <2>3, <2>4 DEF Reads, Ending, Command!lives, Command!statusOf
    <2>10. Kills'
        BY <1>2, <2>1 DEF Kills, Command!lives
    <2>11. Orphans'
        BY <1>2, <2>1 DEF Orphans
    <2>12. Final'
        BY <1>2, <2>1 DEF Final
    <2>13. Ended'
        BY <1>2, <2>1, <2>4 DEF Ended, Ending, Command!lives
    <2>14. Covered'
        BY <1>2, <2>1 DEF Covered, Command!lives
    <2> QED
        BY <2>5, <2>6, <2>7, <2>8, <2>9, <2>10, <2>11, <2>12, <2>13, <2>14 DEF CommandInv
<1>15. ASSUME NEW r \in Readers, Command!WriteStatus(r)
      PROVE  CommandInv'
    <2>1. /\ reader[r].pc = "write" /\ reader' = [reader EXCEPT ![r] = Command!NoReader]
          /\ Command!Finish(reader[r].command, reader[r].answer)
          /\ UNCHANGED <<seat, crates, process, order, killer, alive, blind>>
        BY <1>15 DEF Command!WriteStatus
    <2>2. PICK c \in Orders, status \in Command!Statuses :
              /\ c = reader[r].command /\ status = reader[r].answer /\ order[c] = "over"
              /\ c \notin blind /\ status # "running" => Ending(c, status)
        BY <1>2, <1>3, <2>1 DEF Reading, Reads
    <2>3. /\ record' \in [Orders -> Command!Record] /\ first' \in [Orders -> Command!Statuses]
          /\ Launches' /\ Orphans' /\ Final' /\ Ended' /\ Covered'
        BY <1>1, <2>1, <2>2, FinishKept
    <2>4. /\ reader' \in [Readers -> Reading] /\ reader'[r].pc = "idle"
          /\ \A s \in Readers \ {r} : reader'[s] = reader[s]
        BY <1>2, <2>1, Nobody DEF CommandTyped
    <2>5. CommandTyped'
        BY <1>2, <2>1, <2>3, <2>4 DEF CommandTyped
    <2>6. TheContainer'
        BY <1>2, <2>1 DEF TheContainer
    <2>7. Inside'
        BY <1>2, <2>1 DEF Inside, Command!lives
    <2>8. Reads'
        BY <1>2, <1>3, <2>1, <2>2, <2>4 DEF Reads, Ending, Command!lives, Command!statusOf
    <2>9. Kills'
        BY <1>2, <2>1 DEF Kills, Command!lives
    <2> QED
        BY <2>3, <2>5, <2>6, <2>7, <2>8, <2>9 DEF CommandInv
<1>16. ASSUME NEW k \in Killers, NEW c \in Orders, Command!cancelTaskCommand(k, c)
      PROVE  CommandInv'
    <2>1. /\ killer' = [killer EXCEPT ![k] = [pc |-> "signal", command |-> c, crate |-> seat.crate]]
          /\ record[c].mode = "background"
          /\ UNCHANGED <<seat, crates, process, record, order, reader, alive, first, blind>>
        BY <1>16 DEF Command!cancelTaskCommand
    <2>2. [pc |-> "signal", command |-> c, crate |-> seat.crate] \in Killing
        BY <1>4 DEF Killing
    <2>3. order[c] = "over"
        BY <1>2, <2>1 DEF Launches
    <2>4. /\ killer' \in [Killers -> Killing]
          /\ \A l \in Killers : \/ killer'[l] = killer[l]
                                \/ killer'[l].pc = "signal" /\ killer'[l].command = c
        BY <1>2, <2>1, <2>2 DEF CommandTyped
    <2>5. CommandTyped'
        BY <1>2, <2>1, <2>4 DEF CommandTyped
    <2>6. TheContainer'
        BY <1>2, <2>1 DEF TheContainer
    <2>7. Inside'
        BY <1>2, <2>1 DEF Inside, Command!lives
    <2>8. Launches'
        BY <1>2, <2>1 DEF Launches
    <2>9. Reads'
        BY <1>2, <2>1 DEF Reads, Ending, Command!lives, Command!statusOf
    <2>10. Kills'
        BY <1>2, <1>3, <2>1, <2>2, <2>3, <2>4 DEF Kills, Command!lives
    <2>11. Orphans'
        BY <1>2, <2>1 DEF Orphans
    <2>12. Final'
        BY <1>2, <2>1 DEF Final
    <2>13. Ended'
        BY <1>2, <2>1 DEF Ended, Ending, Command!lives, Command!statusOf
    <2>14. Covered'
        BY <1>2, <2>1 DEF Covered, Command!lives
    <2> QED
        BY <2>5, <2>6, <2>7, <2>8, <2>9, <2>10, <2>11, <2>12, <2>13, <2>14 DEF CommandInv
<1>17. ASSUME NEW k \in Killers, Command!cancelCommand(k)
      PROVE  CommandInv'
    <2>1. /\ killer[k].pc = "signal"
          /\ UNCHANGED <<seat, crates, record, order, reader, alive, first, blind>>
        BY <1>17 DEF Command!cancelCommand
    <2>2. PICK c \in Orders :
              c = killer[k].command /\ order[c] = "over" /\ killer[k].crate \in 0..MaxCrates
        BY <1>2, <1>3, <2>1 DEF Killing, Kills
    <2>3. /\ process' \in [Orders -> Command!Process]
          /\ \A d \in Orders : \/ process'[d] = process[d]
                               \/ /\ Command!lives(d) /\ process'[d].crate = process[d].crate
                                  /\ process'[d].phase \in {"running", "ended", "dead"}
          /\ Command!reaches(killer[k].crate) => ~Command!lives(c)'
        <3> DEFINE new == [process[c] EXCEPT !.phase = "ended", !.code = 143]
        <3>1. new \in Command!Process /\ new.phase = "ended" /\ new.crate = process[c].crate
            BY <1>3, EndedMeans DEF Command!Codes
        <3>2. Command!reaches(killer[k].crate) /\ Command!lives(c) =>
                  process[c].crate = killer[k].crate
            BY <1>4, <1>5, <2>2 DEF Command!reaches
        <3>3. \/ Command!lives(c) /\ process' = [process EXCEPT ![c] = new]
           \/ /\ UNCHANGED process
              /\ Command!reaches(killer[k].crate) =>
                    ~(Command!lives(c) /\ process[c].crate = killer[k].crate)
            BY <1>17, <2>2 DEF Command!cancelCommand, Command!found
        <3> HIDE DEF new
        <3>4. process \in [Orders -> Command!Process]
            BY <1>2 DEF CommandTyped
        <3>5. CASE Command!lives(c) /\ process' = [process EXCEPT ![c] = new]
            <4>1. process'[c] = new /\ \A d \in Orders \ {c} : process'[d] = process[d]
                BY <3>4, <3>5
            <4> QED
                BY <3>1, <3>4, <3>5, <4>1 DEF Command!lives
        <3>6. CASE /\ UNCHANGED process
                   /\ Command!reaches(killer[k].crate) =>
                         ~(Command!lives(c) /\ process[c].crate = killer[k].crate)
            BY <3>2, <3>4, <3>6 DEF Command!lives
        <3> QED
            BY <3>3, <3>5, <3>6
    <2>4. /\ Launches' /\ Reads' /\ Ended' /\ Covered'
          /\ \A d \in Orders :
                   Command!lives(d)' => Command!lives(d) /\ process'[d].crate = process[d].crate
        BY <1>1, <2>1, <2>3, ProcessKept
    <2>5. /\ killer' \in [Killers -> Killing]
          /\ \A l \in Killers \ {k} : killer'[l] = killer[l]
          /\ \/ killer'[k].pc = "idle"
             \/ /\ killer'[k].pc = "write" /\ killer'[k].command = killer[k].command
                /\ Command!reaches(killer[k].crate)
        <3> DEFINE new == [killer[k] EXCEPT !.pc = "write"]
        <3>1. new \in Killing /\ new.pc = "write" /\ new.command = killer[k].command
            BY <1>3 DEF Killing
        <3> HIDE DEF new
        <3>2. \/ Command!reaches(killer[k].crate) /\ killer' = [killer EXCEPT ![k] = new]
           \/ killer' = [killer EXCEPT ![k] = Command!NoKiller]
            BY <1>17 DEF Command!cancelCommand, new
        <3> QED
            BY <1>2, <3>1, <3>2, Nobody DEF CommandTyped
    <2>6. CommandTyped'
        BY <1>2, <2>1, <2>3, <2>4, <2>5 DEF CommandTyped
    <2>7. TheContainer'
        BY <1>2, <2>1 DEF TheContainer
    <2>8. Inside'
        BY <1>2, <2>1, <2>4 DEF Inside
    <2>9. Kills'
        BY <1>2, <1>3, <2>1, <2>2, <2>3, <2>4, <2>5 DEF Kills, Killing
    <2>10. Orphans'
        BY <1>2, <2>1 DEF Orphans
    <2>11. Final'
        BY <1>2, <2>1 DEF Final
    <2> QED
        BY <2>4, <2>6, <2>7, <2>8, <2>9, <2>10, <2>11 DEF CommandInv
<1>18. ASSUME NEW k \in Killers, Command!WriteCanceled(k)
      PROVE  CommandInv'
    <2>1. /\ killer[k].pc = "write" /\ killer' = [killer EXCEPT ![k] = Command!NoKiller]
          /\ Command!Finish(killer[k].command, "canceled")
          /\ UNCHANGED <<seat, crates, process, order, reader, alive, blind>>
        BY <1>18 DEF Command!WriteCanceled
    <2>2. PICK c \in Orders :
              c = killer[k].command /\ order[c] = "over" /\ ~Command!lives(c)
        BY <1>2, <1>3, <2>1 DEF Killing, Kills
    <2>3. /\ record' \in [Orders -> Command!Record] /\ first' \in [Orders -> Command!Statuses]
          /\ Launches' /\ Orphans' /\ Final' /\ Ended' /\ Covered'
        BY <1>1, <2>1, <2>2, FinishKept DEF Ending, Command!Statuses
    <2>4. /\ killer' \in [Killers -> Killing] /\ killer'[k].pc = "idle"
          /\ \A l \in Killers \ {k} : killer'[l] = killer[l]
        BY <1>2, <2>1, Nobody DEF CommandTyped
    <2>5. CommandTyped'
        BY <1>2, <2>1, <2>3, <2>4 DEF CommandTyped
    <2>6. TheContainer'
        BY <1>2, <2>1 DEF TheContainer
    <2>7. Inside'
        BY <1>2, <2>1 DEF Inside, Command!lives
    <2>8. Reads'
        BY <1>2, <2>1 DEF Reads, Ending, Command!lives, Command!statusOf
    <2>9. Kills'
        BY <1>2, <1>3, <2>1, <2>2, <2>4 DEF Kills, Command!lives
    <2> QED
        BY <2>3, <2>5, <2>6, <2>7, <2>8, <2>9 DEF CommandInv
<1>19. ASSUME NEW c \in Orders, Command!PidWritten(c)
      PROVE  CommandInv'
    <2>1. /\ process[c].phase = "starting" /\ process' = [process EXCEPT ![c].phase = "running"]
          /\ UNCHANGED <<seat, crates, record, order, reader, killer, alive, first, blind>>
        BY <1>19 DEF Command!PidWritten
    <2>2. PICK new \in Command!Process :
              /\ process' = [process EXCEPT ![c] = new] /\ new.phase = "running"
              /\ new.crate = process[c].crate
        <3> DEFINE new == [process[c] EXCEPT !.phase = "running"]
        <3>1. new \in Command!Process /\ new.phase = "running" /\ new.crate = process[c].crate
            BY <1>3 DEF Command!Process
        <3>2. process' = [process EXCEPT ![c] = new]
            BY <2>1
        <3> QED
            BY <3>1, <3>2
    <2>3. /\ process' \in [Orders -> Command!Process]
          /\ \A d \in Orders : \/ process'[d] = process[d]
                               \/ /\ Command!lives(d) /\ process'[d].crate = process[d].crate
                                  /\ process'[d].phase \in {"running", "ended", "dead"}
        <3>1. process \in [Orders -> Command!Process] /\ Command!lives(c)
            BY <1>2, <2>1 DEF CommandTyped, Command!lives
        <3>2. process'[c] = new /\ \A d \in Orders \ {c} : process'[d] = process[d]
            BY <2>2, <3>1
        <3> QED
            BY <2>2, <3>1, <3>2
    <2>4. /\ Launches' /\ Reads' /\ Ended' /\ Covered'
          /\ \A d \in Orders :
                   Command!lives(d)' => Command!lives(d) /\ process'[d].crate = process[d].crate
        BY <1>1, <2>1, <2>3, ProcessKept
    <2>5. CommandTyped'
        BY <1>2, <2>1, <2>2, <2>3, <2>4 DEF CommandTyped
    <2>6. TheContainer'
        BY <1>2, <2>1 DEF TheContainer
    <2>7. Inside'
        BY <1>2, <2>1, <2>4 DEF Inside
    <2>8. Kills'
        BY <1>2, <1>3, <2>1, <2>4 DEF Kills, Killing
    <2>9. Orphans'
        BY <1>2, <2>1 DEF Orphans
    <2>10. Final'
        BY <1>2, <2>1 DEF Final
    <2> QED
        BY <2>4, <2>5, <2>6, <2>7, <2>8, <2>9, <2>10 DEF CommandInv
<1>20. ASSUME NEW c \in Orders, NEW code \in Command!Codes, Command!Exits(c, code)
      PROVE  CommandInv'
    <2>1. /\ process[c].phase = "running"
          /\ process' = [process EXCEPT ![c].phase = "ended", ![c].code = code]
          /\ UNCHANGED <<seat, crates, record, order, reader, killer, alive, first, blind>>
        BY <1>20 DEF Command!Exits
    <2>2. PICK new \in Command!Process :
              /\ process' = [process EXCEPT ![c] = new] /\ new.phase = "ended"
              /\ new.crate = process[c].crate
        <3> DEFINE new == [process[c] EXCEPT !.phase = "ended", !.code = code]
        <3>1. new \in Command!Process /\ new.phase = "ended" /\ new.crate = process[c].crate
            BY <1>3, EndedMeans
        <3>2. process' = [process EXCEPT ![c] = new]
            BY <2>1
        <3> QED
            BY <3>1, <3>2
    <2>3. /\ process' \in [Orders -> Command!Process]
          /\ \A d \in Orders : \/ process'[d] = process[d]
                               \/ /\ Command!lives(d) /\ process'[d].crate = process[d].crate
                                  /\ process'[d].phase \in {"running", "ended", "dead"}
        <3>1. process \in [Orders -> Command!Process] /\ Command!lives(c)
            BY <1>2, <2>1 DEF CommandTyped, Command!lives
        <3>2. process'[c] = new /\ \A d \in Orders \ {c} : process'[d] = process[d]
            BY <2>2, <3>1
        <3> QED
            BY <2>2, <3>1, <3>2
    <2>4. /\ Launches' /\ Reads' /\ Ended' /\ Covered'
          /\ \A d \in Orders :
                   Command!lives(d)' => Command!lives(d) /\ process'[d].crate = process[d].crate
        BY <1>1, <2>1, <2>3, ProcessKept
    <2>5. CommandTyped'
        BY <1>2, <2>1, <2>2, <2>3, <2>4 DEF CommandTyped
    <2>6. TheContainer'
        BY <1>2, <2>1 DEF TheContainer
    <2>7. Inside'
        BY <1>2, <2>1, <2>4 DEF Inside
    <2>8. Kills'
        BY <1>2, <1>3, <2>1, <2>4 DEF Kills, Killing
    <2>9. Orphans'
        BY <1>2, <2>1 DEF Orphans
    <2>10. Final'
        BY <1>2, <2>1 DEF Final
    <2> QED
        BY <2>4, <2>5, <2>6, <2>7, <2>8, <2>9, <2>10 DEF CommandInv
<1>21. ASSUME Command!ContainerFalls
      PROVE  CommandInv'
    <2>1. /\ Command!hasContainer /\ crates' = [crates EXCEPT ![seat.crate] = "down"]
          /\ process' = Command!Ends(seat.crate)
          /\ UNCHANGED <<record, order, reader, killer, alive, first, blind>>
          /\ seat' \in {seat, [seat EXCEPT !.state = "other"]}
        BY <1>21 DEF Command!ContainerFalls
    <2>2. /\ crates' \in [1..MaxCrates -> {"absent", "up", "down"}] /\ seat.crate # 0 /\ seat.there
          /\ crates'[seat.crate] = "down" /\ crates[seat.crate] # "absent"
          /\ \A n \in 1..MaxCrates : n # seat.crate => crates'[n] = crates[n]
        BY <1>2, <1>21, <2>1
           DEF CommandTyped, Command!ContainerFalls, Command!hasContainer,
               Command!reaches
    <2>3. /\ seat' \in [there : BOOLEAN, crate : 0..MaxCrates, state : {"ready", "other"}]
          /\ seat'.crate = seat.crate /\ seat'.there = seat.there
        BY <1>2, <2>1 DEF CommandTyped
    <2>4. /\ process' \in [Orders -> Command!Process]
          /\ \A d \in Orders :
                IF Command!lives(d) /\ process[d].crate = seat.crate
                THEN process'[d].crate = process[d].crate /\ process'[d].phase = "dead"
                ELSE process'[d] = process[d]
        <3>1. ASSUME NEW d \in Orders
              PROVE  [process[d] EXCEPT !.phase = "dead"] \in Command!Process
            BY <1>3 DEF Command!Process
        <3>2. \A d \in Orders : [process[d] EXCEPT !.phase = "dead"].phase = "dead" /\
                                  [process[d] EXCEPT !.phase = "dead"].crate = process[d].crate
            BY <1>3 DEF Command!Process
        <3> QED
            BY <1>3, <2>1, <3>1, <3>2 DEF Command!Ends
    <2>5. /\ Launches' /\ Reads' /\ Ended' /\ Covered'
          /\ \A d \in Orders :
                   Command!lives(d)' => Command!lives(d) /\ process'[d].crate = process[d].crate
        BY <1>1, <2>1, <2>4, ProcessKept
    <2>6. CommandTyped'
        BY <1>2, <2>1, <2>2, <2>3, <2>4, <2>5 DEF CommandTyped
    <2>7. TheContainer'
        BY <1>2, <2>1, <2>2, <2>3 DEF TheContainer
    <2>8. Inside'
        BY <1>5, <2>4, <2>5 DEF Inside, Command!lives
    <2>9. Kills'
        BY <1>2, <1>3, <2>1, <2>5 DEF Kills, Killing
    <2>10. Orphans'
        BY <1>2, <2>1 DEF Orphans
    <2>11. Final'
        BY <1>2, <2>1 DEF Final
    <2> QED
        BY <2>5, <2>6, <2>7, <2>8, <2>9, <2>10, <2>11 DEF CommandInv
<1>22. ASSUME Command!ContainerRemoved
      PROVE  CommandInv'
    <2>1. /\ Command!hasContainer /\ crates' = [crates EXCEPT ![seat.crate] = "absent"]
          /\ process' = Command!Ends(seat.crate)
          /\ UNCHANGED <<seat, record, order, reader, killer, alive, first, blind>>
        BY <1>22 DEF Command!ContainerRemoved
    <2>2. /\ crates' \in [1..MaxCrates -> {"absent", "up", "down"}] /\ seat.crate # 0 /\ seat.there
          /\ crates'[seat.crate] = "absent" /\ crates[seat.crate] # "absent"
          /\ \A n \in 1..MaxCrates : n # seat.crate => crates'[n] = crates[n]
        BY <1>2, <1>22, <2>1
           DEF CommandTyped, Command!ContainerRemoved, Command!hasContainer,
               Command!reaches
    <2>3. seat' = seat
        BY <2>1
    <2>4. /\ process' \in [Orders -> Command!Process]
          /\ \A d \in Orders :
                IF Command!lives(d) /\ process[d].crate = seat.crate
                THEN process'[d].crate = process[d].crate /\ process'[d].phase = "dead"
                ELSE process'[d] = process[d]
        <3>1. ASSUME NEW d \in Orders
              PROVE  [process[d] EXCEPT !.phase = "dead"] \in Command!Process
            BY <1>3 DEF Command!Process
        <3>2. \A d \in Orders : [process[d] EXCEPT !.phase = "dead"].phase = "dead" /\
                                  [process[d] EXCEPT !.phase = "dead"].crate = process[d].crate
            BY <1>3 DEF Command!Process
        <3> QED
            BY <1>3, <2>1, <3>1, <3>2 DEF Command!Ends
    <2>5. /\ Launches' /\ Reads' /\ Ended' /\ Covered'
          /\ \A d \in Orders :
                   Command!lives(d)' => Command!lives(d) /\ process'[d].crate = process[d].crate
        BY <1>1, <2>1, <2>4, ProcessKept
    <2>6. CommandTyped'
        BY <1>2, <2>1, <2>2, <2>4, <2>5 DEF CommandTyped
    <2>7. TheContainer'
        BY <1>2, <2>1, <2>2 DEF TheContainer
    <2>8. Inside'
        BY <1>5, <2>4, <2>5 DEF Inside, Command!lives
    <2>9. Kills'
        BY <1>2, <1>3, <2>1, <2>5 DEF Kills, Killing
    <2>10. Orphans'
        BY <1>2, <2>1 DEF Orphans
    <2>11. Final'
        BY <1>2, <2>1 DEF Final
    <2> QED
        BY <2>5, <2>6, <2>7, <2>8, <2>9, <2>10, <2>11 DEF CommandInv
<1>23. ASSUME Command!ContainerBack
      PROVE  CommandInv'
    <2>1. /\ Command!hasContainer /\ crates' = [crates EXCEPT ![seat.crate] = "up"]
          /\ seat' = [seat EXCEPT !.state = "ready"]
          /\ UNCHANGED <<process, record, order, reader, killer, alive, first, blind>>
        BY <1>23 DEF Command!ContainerBack
    <2>2. /\ crates' \in [1..MaxCrates -> {"absent", "up", "down"}]
          /\ seat' \in [there : BOOLEAN, crate : 0..MaxCrates, state : {"ready", "other"}]
          /\ seat'.crate = seat.crate /\ seat'.there = seat.there /\ seat.there
          /\ crates'[seat.crate] = "up"
          /\ \A n \in 1..MaxCrates : n # seat.crate => crates'[n] = crates[n]
        <3>1. seat.there /\ seat.crate # 0 /\ seat.crate \in 1..MaxCrates
            BY <1>4, <2>1 DEF Command!hasContainer
        <3>2. seat' \in [there : BOOLEAN, crate : 0..MaxCrates, state : {"ready", "other"}]
            BY <1>4, <2>1
        <3>3. seat'.crate = seat.crate /\ seat'.there = seat.there
            BY <1>4, <2>1
        <3> QED
            BY <1>4, <2>1, <3>1, <3>2, <3>3
    <2>3. CommandTyped'
        BY <1>2, <2>1, <2>2 DEF CommandTyped
    <2>4. TheContainer'
        BY <1>2, <2>1, <2>2 DEF TheContainer
    <2>5. Inside'
        BY <1>2, <2>1, <2>2 DEF Inside, Command!lives
    <2>6. Launches'
        BY <1>2, <2>1 DEF Launches
    <2>7. Reads'
        BY <1>2, <2>1 DEF Reads, Ending, Command!lives, Command!statusOf
    <2>8. Kills'
        BY <1>2, <2>1 DEF Kills, Command!lives
    <2>9. Orphans'
        BY <1>2, <2>1 DEF Orphans
    <2>10. Final'
        BY <1>2, <2>1 DEF Final
    <2>11. Ended'
        BY <1>2, <2>1 DEF Ended, Ending, Command!lives, Command!statusOf
    <2>12. Covered'
        BY <1>2, <2>1 DEF Covered, Command!lives
    <2> QED
        BY <2>3, <2>4, <2>5, <2>6, <2>7, <2>8, <2>9, <2>10, <2>11, <2>12 DEF CommandInv
<1>24. ASSUME Command!RowFollows
      PROVE  CommandInv'
    <2>1. /\ Command!hasContainer /\ crates[seat.crate] = "absent"
          /\ seat' \in {[seat EXCEPT !.crate = 0, !.state = "other"],
                       [there |-> FALSE, crate |-> 0, state |-> "other"]}
          /\ UNCHANGED <<crates, process, record, order, reader, killer, alive, first, blind>>
        BY <1>24 DEF Command!RowFollows
    <2>2. /\ seat' \in [there : BOOLEAN, crate : 0..MaxCrates, state : {"ready", "other"}]
          /\ seat'.crate = 0
        <3>1. 0 \in 0..MaxCrates
            BY <1>2
        <3>2. CASE seat' = [seat EXCEPT !.crate = 0, !.state = "other"]
            BY <1>4, <3>1, <3>2
        <3>3. CASE seat' = [there |-> FALSE, crate |-> 0, state |-> "other"]
            BY <3>1, <3>3
        <3> QED
            BY <2>1, <3>2, <3>3
    <2>3. CommandTyped'
        BY <1>2, <2>1, <2>2 DEF CommandTyped
    <2>4. TheContainer'
        BY <1>2, <2>1, <2>2 DEF TheContainer
    <2>5. Inside'
        BY <1>2, <2>1 DEF Inside, Command!lives
    <2>6. Launches'
        BY <1>2, <2>1 DEF Launches
    <2>7. Reads'
        BY <1>2, <2>1 DEF Reads, Ending, Command!lives, Command!statusOf
    <2>8. Kills'
        BY <1>2, <2>1 DEF Kills, Command!lives
    <2>9. Orphans'
        BY <1>2, <2>1 DEF Orphans
    <2>10. Final'
        BY <1>2, <2>1 DEF Final
    <2>11. Ended'
        BY <1>2, <2>1 DEF Ended, Ending, Command!lives, Command!statusOf
    <2>12. Covered'
        BY <1>2, <2>1 DEF Covered, Command!lives
    <2> QED
        BY <2>3, <2>4, <2>5, <2>6, <2>7, <2>8, <2>9, <2>10, <2>11, <2>12 DEF CommandInv
<1>25. ASSUME NEW n \in 1..MaxCrates, Command!Respawned(n)
      PROVE  CommandInv'
    <2>1. /\ seat.crate = 0 /\ crates[n] = "absent" /\ crates' = [crates EXCEPT ![n] = "up"]
          /\ seat' = [there |-> TRUE, crate |-> n, state |-> "ready"]
          /\ UNCHANGED <<process, record, order, reader, killer, alive, first, blind>>
        BY <1>25 DEF Command!Respawned
    <2>2. /\ crates' \in [1..MaxCrates -> {"absent", "up", "down"}]
          /\ seat' \in [there : BOOLEAN, crate : 0..MaxCrates, state : {"ready", "other"}]
          /\ seat'.crate = n /\ seat'.there /\ crates'[n] = "up"
          /\ \A m \in 1..MaxCrates : m # n => crates'[m] = crates[m]
        <3>1. n \in 0..MaxCrates
            BY <1>2
        <3>2. seat' \in [there : BOOLEAN, crate : 0..MaxCrates, state : {"ready", "other"}]
            BY <2>1, <3>1
        <3> QED
            BY <1>4, <2>1, <3>2
    <2>3. CommandTyped'
        BY <1>2, <2>1, <2>2 DEF CommandTyped
    <2>4. TheContainer'
        BY <1>2, <2>1, <2>2 DEF TheContainer
    <2>5. Inside'
        BY <1>2, <2>1, <2>2 DEF Inside, Command!lives
    <2>6. Launches'
        BY <1>2, <2>1 DEF Launches
    <2>7. Reads'
        BY <1>2, <2>1 DEF Reads, Ending, Command!lives, Command!statusOf
    <2>8. Kills'
        BY <1>2, <2>1 DEF Kills, Command!lives
    <2>9. Orphans'
        BY <1>2, <2>1 DEF Orphans
    <2>10. Final'
        BY <1>2, <2>1 DEF Final
    <2>11. Ended'
        BY <1>2, <2>1 DEF Ended, Ending, Command!lives, Command!statusOf
    <2>12. Covered'
        BY <1>2, <2>1 DEF Covered, Command!lives
    <2> QED
        BY <2>3, <2>4, <2>5, <2>6, <2>7, <2>8, <2>9, <2>10, <2>11, <2>12 DEF CommandInv
<1>26. ASSUME Command!deleteTask
      PROVE  CommandInv'
    <2>1. /\ alive' = FALSE /\ first' = [c \in Orders |-> "running"]
          /\ record' = [c \in Orders |-> Command!NoRecord]
          /\ UNCHANGED <<seat, crates, process, order, reader, killer, blind>>
        BY <1>26 DEF Command!deleteTask
    <2>2. Command!NoRecord \in Command!Record /\ Command!NoRecord.mode = "none"
        BY DEF Command!NoRecord, Command!Record, Command!Statuses
    <2>3. /\ record' \in [Orders -> Command!Record] /\ first' \in [Orders -> Command!Statuses]
          /\ \A c \in Orders : record'[c].mode = "none"
        BY <2>1, <2>2 DEF Command!Statuses
    <2>4. CommandTyped'
        BY <1>2, <2>1, <2>3 DEF CommandTyped
    <2>5. TheContainer'
        BY <1>2, <2>1 DEF TheContainer
    <2>6. Inside'
        BY <1>2, <2>1 DEF Inside, Command!lives
    <2>7. Launches'
        BY <1>2, <2>1, <2>2, <2>3 DEF Launches
    <2>8. Reads'
        BY <1>2, <2>1 DEF Reads, Ending, Command!lives, Command!statusOf
    <2>9. Kills'
        BY <1>2, <2>1 DEF Kills, Command!lives
    <2>10. Orphans'
        BY <1>2, <2>1, <2>2, <2>3 DEF Orphans
    <2>11. Final'
        BY <1>2, <1>3, <2>1, <2>2, <2>3 DEF Final
    <2>12. Ended'
        BY <1>2, <1>3, <2>1, <2>2, <2>3 DEF Ended, Ending, Command!lives, Command!statusOf
    <2>13. Covered'
        BY <1>2, <1>3, <2>1, <2>2, <2>3 DEF Covered, Command!lives
    <2> QED
        BY <2>4, <2>5, <2>6, <2>7, <2>8, <2>9, <2>10, <2>11, <2>12, <2>13 DEF CommandInv
<1>27. ASSUME Command!LiteRestarts
      PROVE  CommandInv'
    <2>1. /\ order' = [c \in Orders |-> IF order[c] = "idle" THEN "idle" ELSE "over"]
          /\ blind' = blind \cup {c \in Orders : order[c] \in {"started", "ran"}}
          /\ reader' = [r \in Readers |-> Command!NoReader]
          /\ killer' = [k \in Killers |-> Command!NoKiller]
          /\ UNCHANGED <<seat, crates, process, record, alive, first>>
        BY <1>27 DEF Command!LiteRestarts
    <2>2. /\ order' \in [Orders -> {"idle", "start", "run", "started", "ran", "over"}]
          /\ reader' \in [Readers -> Reading] /\ killer' \in [Killers -> Killing]
          /\ \A r \in Readers : reader'[r].pc = "idle"
          /\ \A k \in Killers : killer'[k].pc = "idle"
        BY <2>1, Nobody
    <2>3. /\ \A c \in Orders : order'[c] = IF order[c] = "idle" THEN "idle" ELSE "over"
          /\ \A c \in Orders :
                 c \notin blind' => c \notin blind /\ order[c] \notin {"started", "ran"}
          /\ \A c \in Orders : order[c] \in {"idle", "start", "run", "started", "ran", "over"}
          /\ blind' \subseteq Orders
        BY <1>2, <2>1 DEF CommandTyped
    <2>4. CommandTyped'
        BY <1>2, <2>1, <2>2, <2>3 DEF CommandTyped
    <2>5. TheContainer'
        BY <1>2, <2>1 DEF TheContainer
    <2>6. Inside'
        BY <1>2, <2>1 DEF Inside, Command!lives
    <2>7. Launches'
        BY <1>2, <2>1, <2>2, <2>3 DEF Launches
    <2>8. Reads'
        BY <1>2, <1>3, <2>1, <2>2, <2>3 DEF Reads, Ending, Command!lives, Command!statusOf
    <2>9. Kills'
        BY <1>2, <1>3, <2>1, <2>2, <2>3 DEF Kills, Command!lives
    <2>10. Orphans'
        BY <1>2, <2>1 DEF Orphans
    <2>11. Final'
        BY <1>2, <2>1 DEF Final
    <2>12. Ended'
        BY <1>2, <1>3, <2>1, <2>3 DEF Ended, Ending, Command!lives, Command!statusOf
    <2>13. Covered'
        BY <1>2, <1>3, <2>1, <2>3 DEF Launches, Covered, Command!lives
    <2> QED
        BY <2>4, <2>5, <2>6, <2>7, <2>8, <2>9, <2>10, <2>11, <2>12, <2>13 DEF CommandInv
<1> QED
    BY <1>6, <1>7, <1>8, <1>9, <1>10, <1>11, <1>12, <1>13, <1>14, <1>15, <1>16, <1>17, <1>18,
       <1>19, <1>20, <1>21, <1>22, <1>23, <1>24, <1>25, <1>26, <1>27
       DEF Command!Events, Command!Steps

(* So does a step that leaves the commands alone. *)
LEMMA CommandStep == CommandInv /\ [Command!Steps \/ Command!Events]_(Command!vars) => CommandInv'
<1> SUFFICES ASSUME CommandInv, UNCHANGED Command!vars PROVE CommandInv'
    BY CommandNext
<1> QED
    BY DEF CommandInv, CommandTyped, TheContainer, Inside, Launches, Reads, Kills, Orphans, Final,
           Ended, Covered, Ending, Command!lives, Command!vars

(* A step of the whole server is a step of the commands, or leaves them *)
(* alone.                                                               *)
LEMMA CommandScene ==
    ASSUME [Next]_vars
    PROVE  [Command!Steps \/ Command!Events]_(Command!vars)
<1>1. UNCHANGED vars => UNCHANGED Command!vars
    BY DEF vars, commands, Command!vars
<1>2. ASSUME Next, scene = "commands"
      PROVE  Command!Steps \/ Command!Events
    BY <1>2 DEF Next
<1>3. ASSUME Next
      PROVE  Others
    BY <1>3, Zenon DEF Next, Goes, Comes
<1>4. ASSUME Next, scene # "commands"
      PROVE  UNCHANGED Command!vars
    BY <1>3, <1>4 DEF Others, commands, Command!vars
<1> QED
    BY <1>1, <1>2, <1>4

(* The row of a finished command is final and says how its process ended, and *)
(* a process that runs has a row that says so (services/task-                 *)
(* commands.ts:114), whatever polls, cancellations, rebuilds, deletes and     *)
(* restarts race: of the component for every number of commands, reads,       *)
(* cancellations and containers, and of the server that runs it among the     *)
(* others.                                                                    *)
THEOREM RowKept ==
    /\ Command!Init /\ [][Command!Steps \/ Command!Events]_(Command!vars) => []Command!RowIsTrue
    /\ Spec => []RowIsTrue
<1>1. CommandInv => Command!RowIsTrue
    <2> SUFFICES ASSUME CommandInv, NEW c \in Orders
                 PROVE  LET status == record[c].status IN
                        /\ record[c].mode # "none" => status = first[c]
                        /\ record[c].mode # "none" /\ c \notin blind =>
                              CASE status = "running" -> TRUE
                                [] status \in {"lost", "canceled"} -> ~Command!lives(c)
                                [] OTHER -> \/ /\ process[c].phase = "ended"
                                               /\ status = Command!statusOf(process[c].code)
                                            \/ record[c].mode = "sync" /\ status = "failed"
                        /\ Command!lives(c) /\ alive /\ c \notin blind /\ order[c] = "over" =>
                              record[c].mode = "background" /\ status = "running"
        BY DEF Command!RowIsTrue
    <2>1. record[c].mode # "none" => record[c].status = first[c]
        BY DEF CommandInv, Final
    <2>2. record[c].mode # "none" /\ c \notin blind =>
              CASE record[c].status = "running" -> TRUE
                [] record[c].status \in {"lost", "canceled"} -> ~Command!lives(c)
                [] OTHER -> \/ /\ process[c].phase = "ended"
                               /\ record[c].status = Command!statusOf(process[c].code)
                            \/ record[c].mode = "sync" /\ record[c].status = "failed"
        BY DEF CommandInv, Ended, Ending, Command!lives
    <2>3. Command!lives(c) /\ alive /\ c \notin blind /\ order[c] = "over" =>
              record[c].mode = "background" /\ record[c].status = "running"
        BY DEF CommandInv, Covered
    <2> QED
        BY <2>1, <2>2, <2>3
<1>2. Init => Command!Init
    BY DEF Init
<1>3. Command!Init /\ [][Command!Steps \/ Command!Events]_(Command!vars) => []Command!RowIsTrue
    BY CommandInit, CommandStep, <1>1, PTL
<1>4. Spec => []CommandInv
    BY <1>2, CommandInit, CommandStep, CommandScene, PTL DEF Spec
<1>5. CommandInv => RowIsTrue
    BY <1>1 DEF RowIsTrue
<1> QED
    BY <1>3, <1>4, <1>5, PTL

-----------------------------------------------------------------------------
(* What the machine spends: what an overview says of what is on the disk. *)

(* An overview that is being put together, or was. *)
ViewOf ==
    [pc : {"idle", "asking", "answered"}, entry : [Overview!Parts -> Overview!Entry],
     owned : SUBSET Owning, declared : SUBSET Owning, left : SUBSET Overview!Parts,
     df : {"todo", "done", "failed"}, disk : SUBSET Overview!Things,
     shown : [Overview!Parts -> Overview!Shown], kept : SUBSET Overview!Things]
OverviewTyped ==
    /\ entry \in [Overview!Parts -> Overview!Entry] /\ live \subseteq Overview!Parts
    /\ owned \subseteq Owning /\ declared \subseteq Owning /\ things \subseteq Overview!Things
    /\ view \in [Views -> ViewOf]
(* Until the daemon has said what it has, what was there at the beginning and was *)
(* not removed since is there.                                                     *)
StillThere ==
    \A q \in Views : view[q].pc = "asking" /\ view[q].df = "todo" => view[q].kept \subseteq things
(* What it said has, from then on, what is there throughout. *)
AllSaid ==
    \A q \in Views : view[q].pc # "idle" /\ view[q].df = "done" =>
        {t \in view[q].kept : Overview!ours(t)} \subseteq view[q].disk
(* The inductive invariant of the overviews. *)
OverviewInv == OverviewTyped /\ StillThere /\ AllSaid

(* An overview not begun is one of the records an overview may be. *)
LEMMA NoViewOf == Overview!NoView \in ViewOf
<1> DEFINE Unsaid == [state |-> "none", running |-> FALSE, stats |-> FALSE]
           Was == [state |-> "none", container |-> FALSE]
<1>1. Unsaid \in Overview!Shown /\ Was \in Overview!Entry
    BY DEF Overview!Shown, Overview!Entry, Overview!States
<1> HIDE DEF Unsaid, Was
<1>2. [o \in Overview!Parts |-> Was] \in [Overview!Parts -> Overview!Entry]
      /\ [o \in Overview!Parts |-> Unsaid] \in [Overview!Parts -> Overview!Shown]
    BY <1>1
<1>3. Overview!NoEntry = Was /\ Overview!NotShown = Unsaid
    BY DEF Was, Unsaid, Overview!NoEntry, Overview!NotShown
<1> QED
    BY <1>2, <1>3 DEF Overview!NoView, ViewOf

(* Initially no overview is being put together. *)
LEMMA OverviewInit == Overview!Init => OverviewInv
<1> SUFFICES ASSUME Overview!Init PROVE OverviewInv
    OBVIOUS
<1>1. entry \in [Overview!Parts -> Overview!Entry]
    <2>1. [state |-> "ready", container |-> TRUE] \in Overview!Entry
        BY DEF Overview!Entry, Overview!States
    <2> QED
        BY <2>1 DEF Overview!Init
<1>2. live \subseteq Overview!Parts /\ owned \subseteq Owning /\ declared \subseteq Owning
    BY DEF Overview!Init
<1>3. things \subseteq Overview!Things
    BY DEF Overview!Init, Overview!Things, Overview!own
<1>4. view \in [Views -> ViewOf] /\ \A q \in Views : view[q].pc = "idle"
    BY NoViewOf DEF Overview!Init, Overview!NoView
<1> QED
    BY <1>1, <1>2, <1>3, <1>4 DEF OverviewInv, OverviewTyped, StillThere, AllSaid

(* An overview moves on. *)
LEMMA ViewMoves ==
    ASSUME OverviewInv, NEW q \in Views,
           \/ Overview!getResourcesOverview(q)
           \/ \E o \in Overview!Parts : Overview!Inspect(q, o)
           \/ \E says \in {"done", "failed"} : Overview!getSystemDf(q, says)
           \/ Overview!Answer(q)
           \/ Overview!Read(q)
    PROVE  OverviewInv'
<1> USE DEF OverviewInv, OverviewTyped
<1> DEFINE was == view[q]
<1>0. was \in ViewOf
    OBVIOUS
<1>1. UNCHANGED <<entry, live, owned, declared, things>>
    BY DEF Overview!getResourcesOverview, Overview!Inspect, Overview!getSystemDf, Overview!Answer,
           Overview!Read
<1>2. ASSUME NEW now \in ViewOf, view' = [view EXCEPT ![q] = now],
             now.pc = "asking" /\ now.df = "todo" => now.kept \subseteq things,
             now.pc # "idle" /\ now.df = "done" =>
                 {t \in now.kept : Overview!ours(t)} \subseteq now.disk
      PROVE  OverviewInv'
    <2>1. view' \in [Views -> ViewOf]
        BY <1>2
    <2>2. \A p \in Views : view'[p] = IF p = q THEN now ELSE view[p]
        BY <1>2
    <2>3. StillThere'
        BY <1>1, <1>2, <2>2 DEF StillThere
    <2>4. AllSaid'
        BY <1>2, <2>2 DEF AllSaid
    <2> QED
        BY <1>1, <2>1, <2>3, <2>4
<1>3. CASE Overview!getResourcesOverview(q)
    <2> DEFINE now == [Overview!NoView EXCEPT
                           !.pc = "asking", !.entry = entry, !.owned = owned, !.declared = declared,
                           !.left = {o \in Overview!Parts : entry[o].container}, !.kept = things,
                           !.shown = [o \in Overview!Parts |->
                                          [Overview!NotShown EXCEPT !.state = entry[o].state]]]
    <2>1. [o \in Overview!Parts |-> [Overview!NotShown EXCEPT !.state = entry[o].state]]
          \in [Overview!Parts -> Overview!Shown]
        BY DEF Overview!NotShown, Overview!Shown, Overview!Entry
    <2>2. now \in ViewOf
        BY <2>1, NoViewOf DEF ViewOf
    <2>3. now.df = "todo" /\ now.kept = things
        BY NoViewOf DEF ViewOf, Overview!NoView
    <2>4. view' = [view EXCEPT ![q] = now]
        BY <1>3 DEF Overview!getResourcesOverview
    <2> HIDE DEF now
    <2> QED
        BY <1>2, <2>2, <2>3, <2>4
<1>4. CASE \E o \in Overview!Parts : Overview!Inspect(q, o)
    <2>1. PICK o \in Overview!Parts : Overview!Inspect(q, o)
        BY <1>4
    <2>2. PICK said : view' = [view EXCEPT ![q].left = @ \ {o}, ![q].shown[o] = said]
                      /\ said \in Overview!Shown
        <3> DEFINE state == view[q].entry[o].state
                   runs == o \in live
                   corrected == IF o \in Machines THEN Overview!correctedWorker(state, runs)
                                ELSE Overview!correctedService(state, runs)
        <3>1. state \in Overview!States
            BY DEF ViewOf, Overview!Entry
        <3>2. corrected \in Overview!States
            BY <3>1 DEF Overview!correctedWorker, Overview!correctedService, Overview!States
        <3>3. PICK said \in {[state |-> state, running |-> FALSE, stats |-> FALSE]}
                            \cup [state : {corrected}, running : {runs}, stats : {FALSE, runs}] :
                  view' = [view EXCEPT ![q].left = @ \ {o}, ![q].shown[o] = said]
            BY <2>1 DEF Overview!Inspect
        <3>4. runs \in BOOLEAN
            OBVIOUS
        <3> HIDE DEF state, runs, corrected
        <3>5. said \in Overview!Shown
            <4>1. CASE said = [state |-> state, running |-> FALSE, stats |-> FALSE]
                BY <3>1, <4>1 DEF Overview!Shown
            <4>2. CASE said \in [state : {corrected}, running : {runs}, stats : {FALSE, runs}]
                <5>1. [state : {corrected}, running : {runs}, stats : {FALSE, runs}]
                      \subseteq Overview!Shown
                    BY <3>2, <3>4, Zenon DEF Overview!Shown
                <5> QED
                    BY <4>2, <5>1
            <4> QED
                BY <3>3, <4>1, <4>2
        <3> QED
            BY <3>3, <3>5
    <2> DEFINE now == [was EXCEPT !.left = @ \ {o}, !.shown = [@ EXCEPT ![o] = said]]
    <2>3. now \in ViewOf
        BY <1>0, <2>2 DEF ViewOf
    <2>4. now.pc = was.pc /\ now.df = was.df /\ now.kept = was.kept /\ now.disk = was.disk
        BY <1>0 DEF ViewOf
    <2>5. view' = [view EXCEPT ![q] = now]
        BY <2>2
    <2> HIDE DEF now
    <2> QED
        BY <1>2, <2>3, <2>4, <2>5 DEF StillThere, AllSaid
<1>5. ASSUME NEW says \in {"done", "failed"}, Overview!getSystemDf(q, says)
      PROVE  OverviewInv'
    <2> DEFINE now == [was EXCEPT !.df = says, !.disk = IF says = "done" THEN things ELSE {}]
    <2>1. now \in ViewOf
        BY <1>0 DEF ViewOf
    <2>2. now.df = says /\ now.kept = was.kept /\ (says = "done" => now.disk = things)
        BY <1>0 DEF ViewOf
    <2>3. view' = [view EXCEPT ![q] = now]
        BY <1>5 DEF Overview!getSystemDf
    <2>4. was.kept \subseteq things
        BY <1>5 DEF Overview!getSystemDf, StillThere
    <2> HIDE DEF now
    <2> QED
        BY <1>2, <2>1, <2>2, <2>3, <2>4
<1>6. CASE Overview!Answer(q)
    <2> DEFINE now == [was EXCEPT !.pc = "answered",
                                  !.disk = {t \in @ : Overview!listed(q, t)}]
    <2>1. now \in ViewOf
        BY <1>0 DEF ViewOf
    <2>2. now.pc = "answered" /\ now.kept = was.kept /\ now.df = was.df
          /\ now.disk = {t \in was.disk : Overview!listed(q, t)}
        BY <1>0 DEF ViewOf
    <2>3. view' = [view EXCEPT ![q] = now]
        BY <1>6 DEF Overview!Answer
    <2>4. was.df = "done" => {t \in was.kept : Overview!ours(t)} \subseteq was.disk
        BY <1>6 DEF Overview!Answer, AllSaid
    <2> HIDE DEF now
    <2> QED
        BY <1>2, <2>1, <2>2, <2>3, <2>4 DEF Overview!listed
<1>7. CASE Overview!Read(q)
    <2>1. Overview!NoView.pc = "idle"
        BY DEF Overview!NoView
    <2> QED
        BY <1>2, <1>7, <2>1, NoViewOf DEF Overview!Read
<1> QED
    BY <1>3, <1>4, <1>5, <1>6, <1>7

(* What a worker, a service or a project does while overviews are put together: the disk *)
(* grows, or what leaves it is not kept.                                                  *)
LEMMA DiskMoves ==
    ASSUME OverviewInv,
           (\E o \in Overview!Parts :
               \/ Overview!Created(o) \/ Overview!RowDeleted(o) \/ Overview!RowInserted(o)
               \/ Overview!StopWritten(o) \/ Overview!GoesDown(o) \/ Overview!Started(o)
               \/ Overview!Removed(o)
               \/ \E state \in {"ready", "error"} : Overview!Reconciled(o, state))
           \/ \E p \in Owning : Overview!Declared(p) \/ Overview!Undeclared(p)
    PROVE  OverviewInv'
<1> USE DEF OverviewInv, OverviewTyped
<1>1. ASSUME UNCHANGED view, things \subseteq things', things' \subseteq Overview!Things,
             entry' \in [Overview!Parts -> Overview!Entry], live' \subseteq Overview!Parts,
             owned' \subseteq Owning, declared' \subseteq Owning
      PROVE  OverviewInv'
    BY <1>1 DEF StillThere, AllSaid
<1>2. \A o : Overview!own(o) \subseteq Overview!Things
    BY DEF Overview!own
<1>3. Overview!NoEntry \in Overview!Entry
    BY DEF Overview!NoEntry, Overview!Entry, Overview!States
<1>4. \A o \in Overview!Parts, s \in Overview!States :
          [entry EXCEPT ![o].state = s] \in [Overview!Parts -> Overview!Entry]
    BY DEF Overview!Entry
<1>5. {"provisioning", "ready", "error", "stopped", "starting"} \subseteq Overview!States
    BY DEF Overview!States
<1> USE DEF Overview!Settled
<1>6. ASSUME NEW o \in Overview!Parts, Overview!Created(o) PROVE OverviewInv'
    <2>1. [state |-> "starting", container |-> TRUE] \in Overview!Entry
        BY DEF Overview!Entry, Overview!States
    <2> QED
        BY <1>1, <1>2, <1>6, <2>1 DEF Overview!Created
<1>7. ASSUME NEW o \in Overview!Parts, Overview!RowDeleted(o) PROVE OverviewInv'
    BY <1>1, <1>3, <1>7 DEF Overview!RowDeleted
<1>8. ASSUME NEW o \in Overview!Parts, Overview!RowInserted(o) PROVE OverviewInv'
    BY <1>1, <1>4, <1>5, <1>8 DEF Overview!RowInserted
<1>9. ASSUME NEW o \in Overview!Parts, Overview!StopWritten(o) PROVE OverviewInv'
    BY <1>1, <1>4, <1>5, <1>9 DEF Overview!StopWritten
<1>10. ASSUME NEW o \in Overview!Parts, Overview!GoesDown(o) PROVE OverviewInv'
    BY <1>1, <1>10 DEF Overview!GoesDown
<1>11. ASSUME NEW o \in Overview!Parts, Overview!Started(o) PROVE OverviewInv'
    BY <1>1, <1>4, <1>5, <1>11 DEF Overview!Started
<1>12. ASSUME NEW o \in Overview!Parts, Overview!Removed(o) PROVE OverviewInv'
    <2>1. things' = things \ Overview!own(o) /\ live' \subseteq live
          /\ UNCHANGED <<entry, owned, declared>>
        BY <1>12 DEF Overview!Removed
    <2>2. view' = [q \in Views |-> [view[q] EXCEPT !.kept = @ \ Overview!own(o)]]
        BY <1>12 DEF Overview!Removed, Overview!stillKept
    <2>3. ASSUME NEW q \in Views
          PROVE  /\ view'[q] \in ViewOf /\ view'[q].kept = view[q].kept \ Overview!own(o)
                 /\ view'[q].pc = view[q].pc /\ view'[q].df = view[q].df
                 /\ view'[q].disk = view[q].disk
        BY <2>2 DEF ViewOf
    <2>4. view' \in [Views -> ViewOf]
        BY <2>2, <2>3
    <2>5. StillThere'
        BY <2>1, <2>3 DEF StillThere
    <2>6. AllSaid'
        BY <2>3 DEF AllSaid
    <2> QED
        BY <2>1, <2>4, <2>5, <2>6
<1>13. ASSUME NEW o \in Overview!Parts, NEW state \in {"ready", "error"},
              Overview!Reconciled(o, state)
       PROVE  OverviewInv'
    BY <1>1, <1>4, <1>5, <1>13 DEF Overview!Reconciled
<1>14. ASSUME NEW p \in Owning, Overview!Declared(p) PROVE OverviewInv'
    BY <1>1, <1>14 DEF Overview!Declared
<1>15. ASSUME NEW p \in Owning, Overview!Undeclared(p) PROVE OverviewInv'
    BY <1>1, <1>15 DEF Overview!Undeclared
<1> QED
    BY <1>6, <1>7, <1>8, <1>9, <1>10, <1>11, <1>12, <1>13, <1>14, <1>15

(* Every step of the overviews and of what they look at keeps their *)
(* invariant.                                                       *)
LEMMA OverviewStep == OverviewInv /\ [Overview!Next]_(Overview!vars) => OverviewInv'
<1>1. ASSUME OverviewInv, UNCHANGED Overview!vars PROVE OverviewInv'
    BY <1>1 DEF Overview!vars, OverviewInv, OverviewTyped, StillThere, AllSaid
<1>2. ASSUME OverviewInv, Overview!Next PROVE OverviewInv'
    BY <1>2, ViewMoves, DiskMoves, Zenon DEF Overview!Next, Overview!Events, Overview!Steps
<1> QED
    BY <1>1, <1>2

(* A step of the whole server is a step of the overviews, or leaves them alone. *)
LEMMA OverviewScene ==
    ASSUME [Next]_vars
    PROVE  [Overview!Next]_(Overview!vars)
<1>1. UNCHANGED vars => UNCHANGED Overview!vars
    BY DEF vars, resources, Overview!vars
<1>2. ASSUME Next, scene = "resources"
      PROVE  Overview!Next
    BY <1>2 DEF Next, Overview!Next
<1>3. ASSUME Next
      PROVE  Others
    BY <1>3, Zenon DEF Next, Goes, Comes
<1>4. ASSUME Next, scene # "resources"
      PROVE  UNCHANGED Overview!vars
    BY <1>3, <1>4 DEF Others, resources, Overview!vars
<1> QED
    BY <1>1, <1>2, <1>4

-----------------------------------------------------------------------------
(* The worker's history: what the charts have. *)

(* Samples are of the past, and the one that ticks began in the past. *)
SamplesTyped ==
    /\ clock \in Nat /\ samples \subseteq [worker : Sampled, ts : Nat]
    /\ taken \subseteq [worker : Sampled, ts : Nat]
    /\ ready \subseteq Sampled
    /\ sampler \in [busy : BOOLEAN, at : Nat, asked : SUBSET Sampled, answered : SUBSET Sampled,
                    pruned : Nat]
(* What is young enough for some chart is in the table. *)
Retained == \A s \in taken : s.ts + Retention >= clock => s \in samples
(* The inductive invariant of the samples. *)
MetricInv == SamplesTyped /\ Retained

(* Initially there is no sample. *)
LEMMA MetricInit == Metrics!Init => MetricInv
<1> SUFFICES ASSUME Metrics!Init PROVE MetricInv
    OBVIOUS
<1>1. sampler \in [busy : BOOLEAN, at : Nat, asked : SUBSET Sampled, answered : SUBSET Sampled,
                    pruned : Nat]
    BY DEF Metrics!Init, Metrics!Idle
<1> QED
    BY <1>1 DEF Metrics!Init, MetricInv, SamplesTyped, Retained

(* Every step of the sampler keeps its invariant. *)
LEMMA MetricStep == MetricInv /\ [Metrics!Next]_(Metrics!vars) => MetricInv'
<1> SUFFICES ASSUME MetricInv, [Metrics!Next]_(Metrics!vars) PROVE MetricInv'
    OBVIOUS
<1> USE DEF MetricInv, SamplesTyped
<1>1. CASE UNCHANGED Metrics!vars
    BY <1>1 DEF Metrics!vars, Retained
<1>2. CASE Metrics!tick
    BY <1>2 DEF Metrics!tick, Retained
<1>3. ASSUME NEW w \in Sampled, NEW answers \in BOOLEAN, Metrics!getContainerStats(w, answers)
      PROVE  MetricInv'
    BY <1>3 DEF Metrics!getContainerStats, Retained
<1>4. CASE Metrics!sampleWorkers
    <2> DEFINE new == [worker : sampler.answered, ts : {sampler.at}]
               prunes == clock > sampler.pruned + PruneEvery
               all == samples \cup new
    <2>1. new \subseteq [worker : Sampled, ts : Nat]
        OBVIOUS
    <2>2. /\ samples' = IF prunes THEN Metrics!pruneWorkerSamples(all) ELSE all
          /\ taken' = taken \cup new /\ UNCHANGED <<clock, ready>>
          /\ sampler' = [Metrics!Idle EXCEPT !.pruned = IF prunes THEN clock ELSE sampler.pruned]
        BY <1>4 DEF Metrics!sampleWorkers
    <2> HIDE DEF new, prunes
    <2>3. samples' \subseteq all
          /\ \A s \in all : s.ts + Retention >= clock => s \in samples'
        <3>1. \A s \in all : s.ts \in Nat
            BY <2>1
        <3> QED
            BY <2>2, <3>1, MetricAssumption DEF Metrics!pruneWorkerSamples, Metrics!forgotten
    <2>4. sampler' \in [busy : BOOLEAN, at : Nat, asked : SUBSET Sampled,
                        answered : SUBSET Sampled, pruned : Nat]
        BY <2>2 DEF Metrics!Idle
    <2>5. Retained'
        BY <2>2, <2>3 DEF Retained
    <2> QED
        BY <2>1, <2>2, <2>3, <2>4, <2>5
<1>5. CASE Metrics!TimePasses
    <2>1. clock' = clock + 1 /\ UNCHANGED <<samples, taken, ready, sampler>>
        BY <1>5 DEF Metrics!TimePasses
    <2>2. \A s \in taken : s.ts + Retention >= clock + 1 => s.ts + Retention >= clock
        BY MetricAssumption
    <2> QED
        BY <2>1, <2>2 DEF Retained
<1>6. ASSUME NEW w \in Sampled, Metrics!WorkerMoves(w) PROVE MetricInv'
    BY <1>6 DEF Metrics!WorkerMoves, Retained
<1> QED
    BY <1>1, <1>2, <1>3, <1>4, <1>5, <1>6, Zenon
       DEF Metrics!Next, Metrics!Events, Metrics!Steps

(* A step of the whole server is a step of the sampler, or leaves it alone. *)
LEMMA MetricScene ==
    ASSUME [Next]_vars
    PROVE  [Metrics!Next]_(Metrics!vars)
<1>1. UNCHANGED vars => UNCHANGED Metrics!vars
    BY DEF vars, metrics, Metrics!vars
<1>2. ASSUME Next, scene = "metrics"
      PROVE  Metrics!Next
    BY <1>2 DEF Next, Metrics!Next
<1>3. ASSUME Next
      PROVE  Others
    BY <1>3, Zenon DEF Next, Goes, Comes
<1>4. ASSUME Next, scene # "metrics"
      PROVE  UNCHANGED Metrics!vars
    BY <1>3, <1>4 DEF Others, metrics, Metrics!vars
<1> QED
    BY <1>1, <1>2, <1>4

(* What takes disk never becomes invisible in the overview of resources, though workers, *)
(* services and projects come and go while it is put together (getResourcesOverview of    *)
(* services/resources.ts); and no sample is pruned that a chart can still show, however   *)
(* long a tick takes (sampleWorkers of services/worker-metrics.ts).                        *)
THEOREM NothingLost ==
    /\ Overview!Spec => []Overview!NothingHidden
    /\ Metrics!Spec => []Metrics!HistoryKept
    /\ Spec => []NothingHidden
<1>1. OverviewInv => Overview!NothingHidden
    BY DEF OverviewInv, AllSaid, Overview!NothingHidden
<1>2. MetricInv => Metrics!HistoryKept
    <2> SUFFICES ASSUME MetricInv, NEW w \in Sampled, NEW range \in Ranges,
                        NEW s \in taken, s.worker = w, s.ts + range >= clock
                 PROVE  s \in Metrics!workerMetrics(w, range)
        BY DEF Metrics!HistoryKept
    <2>1. s.ts \in Nat /\ clock \in Nat /\ range \in 0..Retention /\ Retention \in Nat
        BY MetricAssumption DEF MetricInv, SamplesTyped
    <2>2. s.ts + Retention >= clock
        BY <2>1
    <2> QED
        BY <2>2 DEF MetricInv, Retained, Metrics!workerMetrics
<1>3. Init => Overview!Init /\ Metrics!Init
    BY DEF Init
<1>4. Overview!Spec => []OverviewInv
    BY OverviewInit, OverviewStep, PTL DEF Overview!Spec
<1>5. Metrics!Spec => []MetricInv
    BY MetricInit, MetricStep, PTL DEF Metrics!Spec
<1>6. Spec => []OverviewInv
    BY <1>3, OverviewInit, OverviewStep, OverviewScene, PTL DEF Spec
<1>7. Spec => []MetricInv
    BY <1>3, MetricInit, MetricStep, MetricScene, PTL DEF Spec
<1>8. OverviewInv /\ MetricInv => NothingHidden
    BY <1>1, <1>2 DEF NothingHidden
<1> QED
    BY <1>1, <1>2, <1>4, <1>5, <1>6, <1>7, <1>8, PTL

-----------------------------------------------------------------------------
(* A conversation on a screen: the stream that is drawn, and the task beside it. *)

(* What a mount of the component has. *)
Mounted ==
    [opened : BOOLEAN, held : Seq(Nat), cursor : Nat, oldest : Nat, hasMore : BOOLEAN,
     older : {"idle", "asked", "answered"}, page : Seq(Nat), more : BOOLEAN]
Polling ==
    [pc : {"idle", "asked", "answered"}, of : 1..MaxMounts, tail : BOOLEAN, page : Seq(Nat),
     lastSeq : Nat, more : BOOLEAN]
StreamTyped ==
    /\ total \in Nat /\ shown \in Seq(Nat) /\ current \in 1..MaxMounts /\ late \in BOOLEAN
    /\ mount \in [1..MaxMounts -> Mounted] /\ poll \in Polling

(* Of a mount x: what it holds has no hole and ends at its cursor; history is *)
(* offered from what it holds first, until that is the beginning; and a page  *)
(* of history that is on its way ends right before it.                         *)
Whole(x) ==
    /\ Screen!Run(x.held)
    /\ x.cursor = IF Len(x.held) = 0 THEN 0 ELSE x.held[Len(x.held)]
    /\ x.oldest # 0 => Len(x.held) # 0 /\ x.held[1] = x.oldest
    /\ x.hasMore => x.oldest > 1
    /\ ~x.hasMore /\ Len(x.held) # 0 => x.held[1] = 1
Before(x) ==
    /\ x.older # "idle" => x.hasMore
    /\ x.older = "answered" => /\ x.page = Screen!listTaskEventsBefore(x.oldest)
                               /\ x.more = Screen!moreBefore(x.oldest)
Untouched(x) == Len(x.held) = 0 /\ x.older = "idle" /\ ~x.hasMore
Mounts ==
    \A m \in 1..MaxMounts : /\ Whole(mount[m]) /\ Before(mount[m])
                            /\ ~mount[m].opened => Untouched(mount[m])
(* Only what was on screen was opened. *)
Later == \A m \in 1..MaxMounts : m > current => ~mount[m].opened
(* The poll under way knows whether it is the first of its mount; its answer *)
(* is the end of the log, or what follows the cursor.                          *)
Polled ==
    LET x == mount[poll.of] IN
    /\ poll.pc # "idle" => poll.of <= current /\ (poll.tail <=> ~x.opened)
    /\ poll.pc = "answered" =>
          IF poll.tail THEN \E n \in Nat \ {0} : /\ poll.page = Screen!listTaskEventsBefore(n)
                                                 /\ poll.more = Screen!moreBefore(n)
                                                 /\ poll.lastSeq = Screen!lastSeq(poll.page, 0)
          ELSE \E a, n \in Nat : /\ a = x.cursor + 1 /\ poll.page = Screen!Between(a, n)
                                 /\ poll.lastSeq = Screen!lastSeq(poll.page, x.cursor)
Drawn ==
    /\ Screen!Run(shown)
    /\ mount[current].opened /\ ~late => shown = mount[current].held
(* The inductive invariant of the stream. *)
StreamInv == StreamTyped /\ Mounts /\ Later /\ Polled /\ Drawn

(* A page from a to b. *)
LEMMA BetweenIs ==
    ASSUME NEW a \in Nat, NEW b \in Nat
    PROVE  LET s == Screen!Between(a, b) IN
           /\ s \in Seq(Nat) /\ Len(s) = (IF b < a THEN 0 ELSE b - a + 1)
           /\ \A i \in 1..Len(s) : s[i] = a + i - 1
           /\ s = <<>> <=> b < a
<1> DEFINE n == IF b < a THEN 0 ELSE b - a + 1
           s == Screen!Between(a, b)
<1>1. n \in Nat
    OBVIOUS
<1>2. s = [i \in 1..n |-> a + i - 1]
    BY DEF Screen!Between
<1> HIDE DEF n, s
<1>3. \A i \in 1..n : a + i - 1 \in Nat
    BY <1>1
<1>4. s \in [1..n -> Nat]
    BY <1>2, <1>3
<1>5. s \in Seq(Nat) /\ Len(s) = n
    BY <1>1, <1>4
<1>6. \A i \in 1..Len(s) : s[i] = a + i - 1
    BY <1>2, <1>5
<1>7. s = <<>> <=> n = 0
    BY <1>5, EmptySeq
<1> QED
    BY <1>5, <1>6, <1>7 DEF n, s

(* Two pieces of the log, of which the second follows the first. *)
LEMMA Follows ==
    ASSUME NEW s \in Seq(Nat), NEW t \in Seq(Nat), Screen!Run(s), Screen!Run(t),
           Len(s) # 0 /\ Len(t) # 0 => t[1] = s[Len(s)] + 1
    PROVE  /\ s \o t \in Seq(Nat) /\ Len(s \o t) = Len(s) + Len(t) /\ Screen!Run(s \o t)
           /\ Len(s) # 0 => (s \o t)[1] = s[1]
           /\ Len(s) = 0 => s \o t = t
           /\ Len(t) # 0 => (s \o t)[Len(s \o t)] = t[Len(t)]
           /\ Len(t) = 0 => s \o t = s
<1>1. /\ s \o t \in Seq(Nat) /\ Len(s \o t) = Len(s) + Len(t)
      /\ \A i \in 1..Len(s) + Len(t) : (s \o t)[i] = IF i <= Len(s) THEN s[i] ELSE t[i - Len(s)]
    BY ConcatProperties
<1>2. Len(s) \in Nat /\ Len(t) \in Nat
    OBVIOUS
<1>3. /\ Len(s) = 0 => s \o t = t
      /\ Len(t) = 0 => s \o t = s
    BY EmptySeq, ConcatEmptySeq
<1>4. /\ Len(s) # 0 => (s \o t)[1] = s[1]
      /\ Len(t) # 0 => (s \o t)[Len(s \o t)] = t[Len(t)]
    BY <1>1, <1>2
<1>5. Screen!Run(s \o t)
    <2>1. CASE Len(s) = 0 \/ Len(t) = 0
        BY <1>3, <2>1
    <2>2. CASE Len(s) # 0 /\ Len(t) # 0
        <3> SUFFICES ASSUME NEW i \in 1..Len(s \o t) PROVE (s \o t)[i] = (s \o t)[1] + i - 1
            BY DEF Screen!Run
        <3> DEFINE h == s[1]
                   g == t[1]
        <3>1. \A j \in 1..Len(s) : s[j] = h + j - 1
            BY DEF Screen!Run
        <3>2. \A j \in 1..Len(t) : t[j] = g + j - 1
            BY DEF Screen!Run
        <3>3. h \in Nat /\ g \in Nat
            BY <1>2, <2>2, ElementOfSeq
        <3>4. g = h + Len(s)
            <4>1. s[Len(s)] = h + Len(s) - 1
                BY <1>2, <2>2, <3>1
            <4> QED
                BY <1>2, <2>2, <3>3, <4>1
        <3> HIDE DEF h, g
        <3>5. (s \o t)[1] = h
            BY <1>4, <2>2 DEF h
        <3>6. CASE i <= Len(s)
            BY <1>1, <1>2, <3>1, <3>5, <3>6
        <3>7. CASE i > Len(s)
            <4>1. i - Len(s) \in 1..Len(t)
                BY <1>1, <1>2, <3>7
            <4>2. (s \o t)[i] = g + (i - Len(s)) - 1
                BY <1>1, <1>2, <3>2, <3>7, <4>1
            <4> QED
                BY <1>1, <1>2, <3>3, <3>4, <3>5, <4>2
        <3> QED
            BY <1>1, <1>2, <3>6, <3>7
    <2> QED
        BY <2>1, <2>2
<1> QED
    BY <1>1, <1>3, <1>4, <1>5

(* The page of history before an event. *)
LEMMA BeforeIs ==
    ASSUME NEW n \in Nat \ {0}
    PROVE  LET s == Screen!listTaskEventsBefore(n) IN
           /\ s \in Seq(Nat) /\ Screen!Run(s) /\ (Len(s) = 0 <=> n = 1)
           /\ s = <<>> <=> Len(s) = 0
           /\ Len(s) # 0 => s[1] = (IF Screen!moreBefore(n) THEN n - TailPage ELSE 1)
           /\ Len(s) # 0 => s[Len(s)] = n - 1
           /\ Screen!moreBefore(n) \in BOOLEAN
           /\ Screen!moreBefore(n) => n - TailPage \in Nat /\ n - TailPage > 1 /\ Len(s) # 0
<1> DEFINE a == IF n > TailPage THEN n - TailPage ELSE 1
           b == n - 1
           s == Screen!listTaskEventsBefore(n)
<1>1. TailPage \in Nat \ {0}
    BY CockpitAssumption
<1>2. a \in Nat /\ b \in Nat /\ a >= 1 /\ a <= n
    BY <1>1
<1>3. s = Screen!Between(a, b)
    BY DEF Screen!listTaskEventsBefore
<1>4. Screen!moreBefore(n) <=> n > TailPage + 1
    BY DEF Screen!moreBefore
<1>4a. Screen!moreBefore(n) \in BOOLEAN
    BY DEF Screen!moreBefore
<1>5. a = IF Screen!moreBefore(n) THEN n - TailPage ELSE 1
    BY <1>1, <1>4
<1>6. n = 1 <=> b < a
    BY <1>1
<1> HIDE DEF a, s
<1>7. /\ s \in Seq(Nat) /\ Len(s) = (IF b < a THEN 0 ELSE b - a + 1)
      /\ \A i \in 1..Len(s) : s[i] = a + i - 1
      /\ s = <<>> <=> b < a
    BY <1>2, <1>3, BetweenIs
<1>8. Len(s) # 0 => s[1] = a /\ s[Len(s)] = b
    BY <1>2, <1>7
<1>9. Screen!Run(s)
    <2>1. \A i \in 1..Len(s) : s[1] = a
        BY <1>8
    <2> QED
        BY <1>7, <2>1 DEF Screen!Run
<1>10. Screen!moreBefore(n) => n - TailPage \in Nat /\ n - TailPage > 1 /\ n # 1
    BY <1>1, <1>4
<1> QED
    BY <1>2, <1>4a, <1>5, <1>6, <1>7, <1>8, <1>9, <1>10 DEF s

(* A mount that shows nothing has nothing to be wrong about. *)
LEMMA NothingHeld ==
    /\ Screen!Closed \in Mounted /\ Whole(Screen!Closed) /\ Before(Screen!Closed)
    /\ Untouched(Screen!Closed) /\ ~Screen!Closed.opened
    /\ Screen!NoPoll \in Polling /\ Screen!NoPoll.pc = "idle"
<1>1. <<>> \in Seq(Nat) /\ Len(<<>>) = 0
    BY EmptySeq
<1>2. Screen!Run(<<>>)
    BY <1>1 DEF Screen!Run
<1>3. Screen!Closed \in Mounted /\ Screen!NoPoll \in Polling
    BY <1>1, CockpitAssumption DEF Screen!Closed, Screen!NoPoll, Mounted, Polling
<1>4. /\ Screen!Closed.held = <<>> /\ Screen!Closed.cursor = 0 /\ Screen!Closed.oldest = 0
      /\ Screen!Closed.hasMore = FALSE /\ Screen!Closed.older = "idle"
      /\ Screen!Closed.opened = FALSE /\ Screen!NoPoll.pc = "idle"
    BY DEF Screen!Closed, Screen!NoPoll
<1> QED
    BY <1>1, <1>2, <1>3, <1>4 DEF Whole, Before, Untouched

(* Initially every mount shows nothing and nothing is polled. *)
LEMMA StreamInit == Screen!Init => StreamInv
<1> SUFFICES ASSUME Screen!Init PROVE StreamInv
    OBVIOUS
<1>1. \A m \in 1..MaxMounts : mount[m] = Screen!Closed
    BY DEF Screen!Init
<1>2. shown = <<>> /\ poll = Screen!NoPoll /\ current = 1 /\ late = FALSE
      /\ mount = [m \in 1..MaxMounts |-> Screen!Closed]
    BY DEF Screen!Init
<1>3. total \in Nat
    BY CockpitAssumption DEF Screen!Init
<1>4. shown \in Seq(Nat) /\ Len(shown) = 0
    BY <1>2, EmptySeq
<1>5. Screen!Run(shown)
    BY <1>4 DEF Screen!Run
<1>6. StreamTyped
    <2>1. mount \in [1..MaxMounts -> Mounted]
        BY <1>2, NothingHeld
    <2>2. current \in 1..MaxMounts /\ late \in BOOLEAN
        <3>1. current = 1
            BY <1>2
        <3>2. 1 \in 1..MaxMounts
            BY CockpitAssumption
        <3>3. late \in BOOLEAN
            BY <1>2, Zenon
        <3> QED
            BY <3>1, <3>2, <3>3
    <2> QED
        BY <1>2, <1>3, <1>4, <2>1, <2>2, NothingHeld DEF StreamTyped
<1>7. Mounts /\ Later
    BY <1>1, NothingHeld DEF Mounts, Later
<1>8. Polled
    BY <1>2, NothingHeld DEF Polled
<1>9. Drawn
    <2>1. ~mount[current].opened
        BY <1>1, <1>2, CockpitAssumption, NothingHeld
    <2> QED
        BY <1>5, <2>1 DEF Drawn
<1> QED
    BY <1>6, <1>7, <1>8, <1>9 DEF StreamInv

(* A mount takes a new state, and the screen draws what it holds, or neither. *)
LEMMA MountMoves ==
    ASSUME StreamInv, NEW m \in 1..MaxMounts, NEW x \in Mounted,
           mount' = [mount EXCEPT ![m] = x], Whole(x), Before(x), x.opened, m <= current,
           UNCHANGED <<total, current>>,
           \/ UNCHANGED <<shown, late>> /\ x.held = mount[m].held /\ mount[m].opened
           \/ shown' = x.held /\ late' = (m # current)
    PROVE  /\ total' \in Nat /\ shown' \in Seq(Nat) /\ current' \in 1..MaxMounts
           /\ late' \in BOOLEAN /\ mount' \in [1..MaxMounts -> Mounted]
           /\ Mounts' /\ Later' /\ Drawn'
<1> USE DEF StreamInv, StreamTyped
<1>1. \A k \in 1..MaxMounts : mount'[k] = IF k = m THEN x ELSE mount[k]
    OBVIOUS
<1>2. mount' \in [1..MaxMounts -> Mounted]
    OBVIOUS
<1>3. shown' \in Seq(Nat) /\ late' \in BOOLEAN
    BY DEF Mounted
<1>4. Mounts'
    BY <1>1 DEF Mounts, Whole, Before, Untouched
<1>5. Later'
    BY <1>1 DEF Later
<1>6. Drawn'
    BY <1>1 DEF Drawn, Whole
<1> QED
    BY <1>2, <1>3, <1>4, <1>5, <1>6

(* The poll that arrives is put at the end of what its mount holds. *)
LEMMA Arrives == ASSUME StreamInv, Screen!EventsArrive PROVE StreamInv'
<1> USE DEF StreamInv, StreamTyped
<1> DEFINE m == poll.of
           was == mount[m]
           page == poll.page
           held == IF ~was.opened THEN page ELSE was.held \o page
           now == [was EXCEPT
                       !.opened = TRUE, !.held = held,
                       !.cursor = IF was.cursor < poll.lastSeq THEN poll.lastSeq ELSE was.cursor,
                       !.oldest = IF ~was.opened THEN IF page = <<>> THEN 0 ELSE Head(page)
                                  ELSE was.oldest,
                       !.hasMore = IF ~was.opened THEN poll.more ELSE was.hasMore]
<1>1. /\ m \in 1..MaxMounts /\ was \in Mounted /\ page \in Seq(Nat) /\ poll.lastSeq \in Nat
      /\ poll.more \in BOOLEAN
    BY DEF Polling
<1>2. /\ was.held \in Seq(Nat) /\ was.cursor \in Nat /\ was.oldest \in Nat
      /\ was.hasMore \in BOOLEAN
    BY <1>1 DEF Mounted
<1>3. Whole(was) /\ Before(was) /\ (~was.opened => Untouched(was))
    BY <1>1 DEF Mounts
<1>4. m <= current /\ (poll.tail <=> ~was.opened)
    BY DEF Screen!EventsArrive, Polled
<1>5. /\ poll' = Screen!NoPoll /\ mount' = [mount EXCEPT ![m] = now] /\ shown' = held
      /\ late' = (m # current) /\ UNCHANGED <<total, current>>
    BY DEF Screen!EventsArrive
<1>6. poll.pc = "answered"
    BY DEF Screen!EventsArrive
<1>7. now \in Mounted /\ Whole(now) /\ Before(now) /\ now.opened = TRUE /\ now.held = held
    <2>1. held \in Seq(Nat)
        BY <1>1, <1>2, ConcatProperties
    <2>2. page # <<>> => Head(page) = page[1] /\ page[1] \in Nat /\ Len(page) # 0
        BY <1>1, EmptySeq, ElementOfSeq
    <2>3. page = <<>> => Len(page) = 0
        BY EmptySeq
    <2>4. now \in Mounted
        BY <1>1, <1>2, <2>1, <2>2 DEF Mounted
    <2>5. /\ now.opened = TRUE /\ now.held = held
          /\ now.cursor = IF was.cursor < poll.lastSeq THEN poll.lastSeq ELSE was.cursor
          /\ now.oldest = IF ~was.opened THEN IF page = <<>> THEN 0 ELSE Head(page)
                          ELSE was.oldest
          /\ now.hasMore = IF ~was.opened THEN poll.more ELSE was.hasMore
          /\ now.older = was.older /\ now.page = was.page /\ now.more = was.more
        BY <1>1 DEF Mounted
    <2> HIDE DEF now
    <2>6. CASE ~was.opened
        <3>1. PICK n \in Nat \ {0} : /\ page = Screen!listTaskEventsBefore(n)
                                     /\ poll.more = Screen!moreBefore(n)
                                     /\ poll.lastSeq = Screen!lastSeq(page, 0)
            BY <1>4, <1>6, <2>6 DEF Polled
        <3>3. /\ Screen!Run(page) /\ (Len(page) = 0 <=> n = 1) /\ (page = <<>> <=> Len(page) = 0)
              /\ Len(page) # 0 => page[1] = (IF poll.more THEN n - TailPage ELSE 1)
              /\ Len(page) # 0 => page[Len(page)] = n - 1
              /\ poll.more => n - TailPage \in Nat /\ n - TailPage > 1 /\ Len(page) # 0
            BY <3>1, BeforeIs
        <3>4. held = page /\ was.cursor = 0
            <4>1. Len(was.held) = 0
                BY <1>3, <2>6 DEF Untouched
            <4> QED
                BY <1>3, <2>6, <4>1 DEF Whole
        <3>5. poll.lastSeq = IF Len(page) = 0 THEN 0 ELSE page[Len(page)]
            BY <3>1, <3>3 DEF Screen!lastSeq, Screen!Last
        <3>6. now.cursor = IF Len(page) = 0 THEN 0 ELSE page[Len(page)]
            BY <1>1, <2>5, <3>4, <3>5
        <3>7. now.oldest = IF Len(page) = 0 THEN 0 ELSE page[1]
            BY <2>2, <2>5, <2>6, <3>3
        <3>8. now.hasMore = poll.more /\ now.older = "idle"
            BY <1>3, <2>5, <2>6 DEF Untouched
        <3>9. Whole(now)
            BY <2>5, <3>3, <3>4, <3>6, <3>7, <3>8 DEF Whole
        <3>10. Before(now)
            BY <3>8 DEF Before
        <3> QED
            BY <2>4, <2>5, <3>9, <3>10
    <2>7. CASE was.opened
        <3>1. PICK a \in Nat, n \in Nat : /\ a = was.cursor + 1 /\ page = Screen!Between(a, n)
                                          /\ poll.lastSeq = Screen!lastSeq(page, was.cursor)
            BY <1>4, <1>6, <2>7 DEF Polled
        <3>2. /\ Len(page) = (IF n < a THEN 0 ELSE n - a + 1)
              /\ \A i \in 1..Len(page) : page[i] = a + i - 1
              /\ page = <<>> <=> n < a
            <4>1. page = Screen!Between(a, n)
                BY <3>1
            <4> HIDE DEF page
            <4>2. Len(page) = (IF n < a THEN 0 ELSE n - a + 1)
                BY <4>1, BetweenIs
            <4>3. \A i \in 1..Len(page) : page[i] = a + i - 1
                BY <4>1, BetweenIs
            <4>4. page = <<>> <=> n < a
                BY <4>1, BetweenIs
            <4> QED
                BY <4>2, <4>3, <4>4
        <3>3. held = was.held \o page
            BY <2>7
        <3>4. Len(page) # 0 => page[1] = a /\ page[Len(page)] > was.cursor
            <4> DEFINE k == Len(page)
                       c == was.cursor
            <4>1. k = (IF n < a THEN 0 ELSE n - a + 1) /\ a = c + 1 /\ c \in Nat
                BY <1>2, <3>1, <3>2
            <4>2. \A i \in 1..k : page[i] = a + i - 1
                BY <3>2
            <4> HIDE DEF k, c
            <4>3. k # 0 => page[1] = a /\ page[k] > c
                BY <4>1, <4>2
            <4> QED
                BY <4>3 DEF k, c
        <3>5. Screen!Run(page)
            <4>1. \A i \in 1..Len(page) : page[1] = a
                BY <3>2, <3>4
            <4> QED
                BY <3>2, <4>1 DEF Screen!Run
        <3> DEFINE h == was.held
        <3>6. /\ h \in Seq(Nat) /\ Screen!Run(h)
              /\ was.cursor = IF Len(h) = 0 THEN 0 ELSE h[Len(h)]
            BY <1>2, <1>3 DEF Whole
        <3> HIDE DEF h
        <3>7. /\ Len(h \o page) = Len(h) + Len(page) /\ Screen!Run(h \o page)
              /\ Len(h) # 0 => (h \o page)[1] = h[1]
              /\ Len(h) = 0 => h \o page = page
              /\ Len(page) # 0 => (h \o page)[Len(h \o page)] = page[Len(page)]
              /\ Len(page) = 0 => h \o page = h
            <4>1. Len(h) # 0 /\ Len(page) # 0 => page[1] = h[Len(h)] + 1
                BY <3>1, <3>4, <3>6
            <4> QED
                BY <1>1, <3>5, <3>6, <4>1, Follows
        <3>7a. h = was.held /\ held = h \o page
            BY <3>3 DEF h
        <3>7b. /\ Len(held) = Len(h) + Len(page)
               /\ Len(page) # 0 => held[Len(held)] = page[Len(page)]
            <4> DEFINE g == h \o page
            <4>1. /\ Len(g) = Len(h) + Len(page) /\ held = g
                  /\ Len(page) # 0 => g[Len(g)] = page[Len(page)]
                BY <3>7, <3>7a
            <4> HIDE DEF g
            <4> QED
                BY <4>1
        <3> HIDE DEF held
        <3>8. poll.lastSeq = IF Len(page) = 0 THEN was.cursor ELSE page[Len(page)]
            BY <1>1, <2>2, <2>3, <3>1 DEF Screen!lastSeq, Screen!Last
        <3>9. now.cursor = IF Len(page) = 0 THEN was.cursor ELSE page[Len(page)]
            BY <1>1, <1>2, <2>5, <3>4, <3>8
        <3>10. now.oldest = was.oldest /\ now.hasMore = was.hasMore
            BY <2>5, <2>7
        <3>11. Len(h) \in Nat /\ Len(page) \in Nat
            BY <1>1, <3>6
        <3>12. Whole(now)
            <4>1. now.cursor = IF Len(held) = 0 THEN 0 ELSE held[Len(held)]
                <5>1. CASE Len(page) = 0
                    BY <3>6, <3>7, <3>7a, <3>9, <5>1
                <5>2. CASE Len(page) # 0
                    <6>1. Len(held) # 0 /\ held[Len(held)] = page[Len(page)]
                        BY <3>7b, <3>11, <5>2
                    <6> QED
                        BY <3>9, <5>2, <6>1
                <5> QED
                    BY <5>1, <5>2
            <4>2. now.oldest # 0 => Len(held) # 0 /\ held[1] = now.oldest
                <5>1. now.oldest # 0 => Len(h) # 0 /\ h[1] = now.oldest
                    BY <1>3, <3>7a, <3>10 DEF Whole
                <5> QED
                    <6>1. Len(h) # 0 => Len(held) # 0
                        BY <3>7b, <3>11
                    <6>2. Len(h) # 0 => held[1] = h[1]
                        BY <3>7, <3>7a
                    <6> QED
                        BY <5>1, <6>1, <6>2
            <4>3. now.hasMore => now.oldest > 1
                BY <1>3, <3>10 DEF Whole
            <4>4. ~now.hasMore /\ Len(held) # 0 => held[1] = 1
                <5>1. ~now.hasMore /\ Len(h) # 0 => h[1] = 1
                    BY <1>3, <3>7a, <3>10 DEF Whole
                <5>2. Len(h) = 0 /\ Len(page) # 0 => page[1] = 1
                    BY <3>1, <3>4, <3>6
                <5> QED
                    BY <3>7, <3>7a, <3>11, <5>1, <5>2
            <4> QED
                BY <2>5, <3>7, <3>7a, <4>1, <4>2, <4>3, <4>4 DEF Whole
        <3>13. Before(now)
            BY <1>3, <2>5, <3>10 DEF Before
        <3> QED
            BY <2>4, <2>5, <3>12, <3>13
    <2> QED
        BY <1>2, <2>6, <2>7
<1> HIDE DEF now, held
<1>8. /\ total' \in Nat /\ shown' \in Seq(Nat) /\ current' \in 1..MaxMounts
      /\ late' \in BOOLEAN /\ mount' \in [1..MaxMounts -> Mounted]
      /\ Mounts' /\ Later' /\ Drawn'
    <2>1. shown' = now.held
        BY <1>5, <1>7
    <2> QED
        BY <1>1, <1>4, <1>5, <1>7, <2>1, MountMoves
<1>9. poll' \in Polling /\ poll'.pc = "idle"
    BY <1>5, NothingHeld
<1>10. Polled'
    BY <1>9 DEF Polled
<1> QED
    BY <1>8, <1>9, <1>10

(* A page of history is put before what its mount holds. *)
LEMMA OlderDrawn ==
    ASSUME StreamInv, NEW m \in 1..MaxMounts, Screen!OlderArrives(m) PROVE StreamInv'
<1> USE DEF StreamInv, StreamTyped
<1> DEFINE was == mount[m]
           page == was.page
           h == was.held
           held == page \o h
           now == [was EXCEPT !.older = "idle", !.held = held, !.page = <<>>,
                              !.oldest = IF page = <<>> THEN was.oldest ELSE Head(page),
                              !.hasMore = was.more /\ page # <<>>]
<1>1. was \in Mounted
    OBVIOUS
<1>2. /\ h \in Seq(Nat) /\ page \in Seq(Nat) /\ was.cursor \in Nat /\ was.oldest \in Nat
      /\ was.hasMore \in BOOLEAN /\ was.more \in BOOLEAN
    BY <1>1 DEF Mounted
<1>3. Whole(was) /\ Before(was) /\ (~was.opened => Untouched(was))
    BY DEF Mounts
<1>4. was.older = "answered" /\ was.opened
    BY <1>3 DEF Screen!OlderArrives, Untouched
<1>5. m <= current
    BY <1>4 DEF Later
<1>6. /\ mount' = [mount EXCEPT ![m] = now] /\ shown' = held /\ late' = (m # current)
      /\ UNCHANGED <<total, current, poll>>
    BY DEF Screen!OlderArrives
<1>7. /\ was.hasMore /\ page = Screen!listTaskEventsBefore(was.oldest)
      /\ was.more = Screen!moreBefore(was.oldest) /\ was.oldest > 1
    BY <1>3, <1>4 DEF Before, Whole
<1>8. was.oldest \in Nat \ {0}
    BY <1>2, <1>7
<1>9. /\ Screen!Run(page) /\ Len(page) # 0 /\ page # <<>>
      /\ page[1] = (IF was.more THEN was.oldest - TailPage ELSE 1)
      /\ page[Len(page)] = was.oldest - 1
      /\ was.more => was.oldest - TailPage \in Nat /\ was.oldest - TailPage > 1
    <2> DEFINE o == was.oldest
               p == page
               more == was.more
    <2>1. o \in Nat \ {0} /\ p = Screen!listTaskEventsBefore(o) /\ more = Screen!moreBefore(o)
          /\ o > 1
        BY <1>7, <1>8
    <2> HIDE DEF o, p, more
    <2>2. /\ Screen!Run(p) /\ Len(p) # 0 /\ p # <<>>
          /\ p[1] = (IF more THEN o - TailPage ELSE 1) /\ p[Len(p)] = o - 1
          /\ more => o - TailPage \in Nat /\ o - TailPage > 1
        BY <2>1, BeforeIs
    <2> QED
        BY <2>2 DEF o, p, more
<1>10. /\ Screen!Run(h) /\ Len(h) # 0 /\ h[1] = was.oldest
       /\ was.cursor = h[Len(h)]
    BY <1>3, <1>7 DEF Whole
<1>11. Head(page) = page[1] /\ page[1] \in Nat
    BY <1>2, <1>9, ElementOfSeq
<1>12. held \in Seq(Nat)
    BY <1>2, ConcatProperties
<1>13. now \in Mounted
    BY <1>1, <1>2, <1>11, <1>12, EmptySeq DEF Mounted
<1>14. /\ now.opened = was.opened /\ now.held = held /\ now.cursor = was.cursor
       /\ now.oldest = page[1] /\ now.hasMore = was.more /\ now.older = "idle"
    BY <1>1, <1>2, <1>9, <1>11 DEF Mounted
<1> HIDE DEF now, h, page
<1>15. /\ Len(held) = Len(page) + Len(h) /\ Screen!Run(held) /\ held[1] = page[1]
       /\ held[Len(held)] = h[Len(h)]
    <2>1. h[1] = page[Len(page)] + 1
        BY <1>2, <1>9, <1>10
    <2> QED
        BY <1>2, <1>9, <1>10, <2>1, Follows
<1> HIDE DEF held
<1>16. Len(held) # 0
    BY <1>2, <1>9, <1>10, <1>15
<1>17. Whole(now)
    <2>1. now.hasMore => now.oldest > 1
        BY <1>9, <1>14
    <2>2. ~now.hasMore => held[1] = 1
        BY <1>9, <1>14, <1>15
    <2> QED
        BY <1>10, <1>14, <1>15, <1>16, <2>1, <2>2 DEF Whole
<1>18. Before(now)
    BY <1>14 DEF Before
<1>19. /\ total' \in Nat /\ shown' \in Seq(Nat) /\ current' \in 1..MaxMounts
       /\ late' \in BOOLEAN /\ mount' \in [1..MaxMounts -> Mounted]
       /\ Mounts' /\ Later' /\ Drawn'
    <2>1. shown' = now.held /\ now.opened
        BY <1>4, <1>6, <1>14
    <2> QED
        BY <1>5, <1>6, <1>13, <1>17, <1>18, <2>1, MountMoves
<1>20. /\ poll.of \in 1..MaxMounts /\ mount'[poll.of].opened = mount[poll.of].opened
       /\ mount'[poll.of].cursor = mount[poll.of].cursor
    BY <1>6, <1>14 DEF Polling
<1>21. Polled'
    BY <1>6, <1>20 DEF Polled
<1> QED
    BY <1>6, <1>19, <1>21

(* History that is asked for, answered, or fails to come. *)
LEMMA OlderAsked ==
    ASSUME StreamInv, NEW m \in 1..MaxMounts,
           \/ m = current /\ Screen!loadOlder
           \/ Screen!OlderAnswered(m)
           \/ Screen!OlderFails(m)
    PROVE  StreamInv'
<1> USE DEF StreamInv, StreamTyped
<1> DEFINE was == mount[m]
<1>1. was \in Mounted /\ Whole(was) /\ Before(was) /\ (~was.opened => Untouched(was))
    BY DEF Mounts
<1>2. UNCHANGED <<total, shown, current, poll, late>>
    BY DEF Screen!loadOlder, Screen!OlderAnswered, Screen!OlderFails
<1>3. was.opened /\ m <= current
    <2>1. was.opened
        BY <1>1 DEF Screen!loadOlder, Screen!Here, Screen!OlderAnswered, Screen!OlderFails, Untouched
    <2> QED
        BY <2>1 DEF Later
<1>4. ASSUME NEW now \in Mounted, mount' = [mount EXCEPT ![m] = now],
             now.opened = was.opened, now.held = was.held, now.cursor = was.cursor,
             now.oldest = was.oldest, now.hasMore = was.hasMore, Before(now)
      PROVE  StreamInv'
    <2>1. Whole(now)
        BY <1>1, <1>4 DEF Whole
    <2>2. /\ mount' \in [1..MaxMounts -> Mounted] /\ Mounts' /\ Later' /\ Drawn'
        BY <1>2, <1>3, <1>4, <2>1, MountMoves
    <2>3. /\ poll.of \in 1..MaxMounts /\ mount'[poll.of].opened = mount[poll.of].opened
          /\ mount'[poll.of].cursor = mount[poll.of].cursor
        BY <1>4 DEF Polling
    <2>4. Polled'
        BY <1>2, <2>3 DEF Polled
    <2> QED
        BY <1>2, <2>2, <2>4
<1>5. CASE m = current /\ Screen!loadOlder
    <2> DEFINE now == [was EXCEPT !.older = "asked"]
    <2>1. mount' = [mount EXCEPT ![m] = now] /\ was.hasMore
        BY <1>5 DEF Screen!loadOlder, Screen!Here
    <2>2. /\ now \in Mounted /\ now.opened = was.opened /\ now.held = was.held
          /\ now.cursor = was.cursor /\ now.oldest = was.oldest /\ now.hasMore = was.hasMore
          /\ now.older = "asked"
        BY <1>1 DEF Mounted
    <2> HIDE DEF now
    <2>3. Before(now)
        BY <2>1, <2>2 DEF Before
    <2> QED
        BY <1>4, <2>1, <2>2, <2>3
<1>6. CASE Screen!OlderAnswered(m)
    <2> DEFINE now == [was EXCEPT !.older = "answered",
                                  !.page = Screen!listTaskEventsBefore(was.oldest),
                                  !.more = Screen!moreBefore(was.oldest)]
    <2>1. mount' = [mount EXCEPT ![m] = now] /\ was.older = "asked"
        BY <1>6 DEF Screen!OlderAnswered
    <2>2. was.hasMore /\ was.oldest \in Nat \ {0}
        BY <1>1, <2>1 DEF Before, Whole, Mounted
    <2>3. /\ Screen!listTaskEventsBefore(was.oldest) \in Seq(Nat)
          /\ Screen!moreBefore(was.oldest) \in BOOLEAN
        BY <2>2, BeforeIs
    <2>4. /\ now \in Mounted /\ now.opened = was.opened /\ now.held = was.held
          /\ now.cursor = was.cursor /\ now.oldest = was.oldest /\ now.hasMore = was.hasMore
          /\ now.page = Screen!listTaskEventsBefore(was.oldest)
          /\ now.more = Screen!moreBefore(was.oldest)
        BY <1>1, <2>3 DEF Mounted
    <2> HIDE DEF now
    <2>5. Before(now)
        BY <2>2, <2>4 DEF Before
    <2> QED
        BY <1>4, <2>1, <2>4, <2>5
<1>7. CASE Screen!OlderFails(m)
    <2> DEFINE now == [was EXCEPT !.older = "idle", !.page = <<>>]
    <2>1. mount' = [mount EXCEPT ![m] = now]
        BY <1>7 DEF Screen!OlderFails
    <2>2. /\ now \in Mounted /\ now.opened = was.opened /\ now.held = was.held
          /\ now.cursor = was.cursor /\ now.oldest = was.oldest /\ now.hasMore = was.hasMore
          /\ now.older = "idle"
        BY <1>1, EmptySeq DEF Mounted
    <2> HIDE DEF now
    <2>3. Before(now)
        BY <2>2 DEF Before
    <2> QED
        BY <1>4, <2>1, <2>2, <2>3
<1> QED
    BY <1>5, <1>6, <1>7

(* A poll begins, is answered, fails; the screen is opened again; the agent writes. *)
LEMMA PollMoves ==
    ASSUME StreamInv,
           \/ Screen!queryFn \/ Screen!EventsAnswered \/ Screen!EventsFail
           \/ Screen!Reopened \/ Screen!AgentWrites
    PROVE  StreamInv'
<1> USE DEF StreamInv, StreamTyped
<1>1. UNCHANGED <<shown, mount, late>>
    BY DEF Screen!queryFn, Screen!EventsAnswered, Screen!EventsFail, Screen!Reopened,
           Screen!AgentWrites
<1>2. Mounts'
    BY <1>1 DEF Mounts
<1>3. ASSUME UNCHANGED <<total, current>>, poll' \in Polling, Polled' PROVE StreamInv'
    BY <1>1, <1>2, <1>3 DEF Later, Drawn
<1>4. CASE Screen!queryFn
    <2> DEFINE now == [Screen!NoPoll EXCEPT !.pc = "asked", !.of = current,
                                            !.tail = ~mount[current].opened]
    <2>1. poll' = now /\ UNCHANGED <<total, current>>
        BY <1>4 DEF Screen!queryFn, Screen!Here
    <2>2. mount[current].opened \in BOOLEAN
        BY DEF Mounted
    <2>3. /\ now \in Polling /\ now.pc = "asked" /\ now.of = current
          /\ now.tail = ~mount[current].opened
        BY <2>2, NothingHeld DEF Polling
    <2> HIDE DEF now
    <2>4. Polled'
        <3>1. poll'.pc # "answered" /\ poll'.of = current' /\ current' <= current'
            BY <2>1, <2>3
        <3>2. poll'.tail <=> ~mount'[poll'.of].opened
            BY <1>1, <2>1, <2>3
        <3> QED
            BY <3>1, <3>2 DEF Polled
    <2> QED
        BY <1>3, <2>1, <2>3, <2>4
<1>5. CASE Screen!EventsAnswered
    <2> DEFINE since == mount[poll.of].cursor
               top == IF since + PollPage < total THEN since + PollPage ELSE total
               page == IF poll.tail THEN Screen!listTaskEventsTail
                       ELSE Screen!listTaskEvents(since)
               is == Screen!lastSeq(page, IF poll.tail THEN 0 ELSE since)
               now == [poll EXCEPT !.pc = "answered", !.page = page,
                                   !.more = Screen!moreBefore(total + 1), !.lastSeq = is]
    <2>1. poll' = now /\ UNCHANGED <<total, current>> /\ poll.pc = "asked"
        BY <1>5 DEF Screen!EventsAnswered
    <2>2. since \in Nat /\ poll.of \in 1..MaxMounts /\ total + 1 \in Nat \ {0}
        BY DEF Polling, Mounted
    <2>3. top \in Nat /\ since + 1 \in Nat
        BY <2>2, CockpitAssumption
    <2>4. Screen!listTaskEventsTail = Screen!listTaskEventsBefore(total + 1)
          /\ Screen!listTaskEvents(since) = Screen!Between(since + 1, top)
        BY DEF Screen!listTaskEventsTail, Screen!listTaskEvents
    <2> HIDE DEF top, since
    <2>5. page \in Seq(Nat) /\ Screen!moreBefore(total + 1) \in BOOLEAN
        <3>1. Screen!listTaskEventsTail \in Seq(Nat) /\ Screen!moreBefore(total + 1) \in BOOLEAN
            BY <2>2, <2>4, BeforeIs
        <3>2. Screen!listTaskEvents(since) \in Seq(Nat)
            BY <2>3, <2>4, BetweenIs
        <3> QED
            BY <3>1, <3>2
    <2>6. is \in Nat
        <3> HIDE DEF page
        <3>1. page # <<>> => page[Len(page)] \in Nat
            <4>1. page # <<>> => Len(page) \in 1..Len(page)
                BY <2>5, EmptySeq
            <4> QED
                BY <2>5, <4>1, ElementOfSeq
        <3> QED
            BY <2>2, <3>1 DEF Screen!lastSeq, Screen!Last
    <2>7. /\ now \in Polling /\ now.pc = "answered" /\ now.of = poll.of /\ now.tail = poll.tail
          /\ now.page = page /\ now.more = Screen!moreBefore(total + 1)
          /\ now.lastSeq = is
        <3> HIDE DEF page, is
        <3> QED
            BY <2>5, <2>6 DEF Polling
    <2> HIDE DEF now
    <2>8. poll.of <= current /\ (poll.tail <=> ~mount[poll.of].opened)
        BY <2>1 DEF Polled
    <2>9. CASE poll.tail
        <3>1. now.page = Screen!listTaskEventsBefore(total + 1)
              /\ now.lastSeq = Screen!lastSeq(now.page, 0)
            BY <2>4, <2>7, <2>9
        <3>2. Polled'
            BY <1>1, <2>1, <2>2, <2>7, <2>8, <2>9, <3>1 DEF Polled
        <3> QED
            BY <1>3, <2>1, <2>7, <3>2
    <2>10. CASE ~poll.tail
        <3>1. now.page = Screen!Between(since + 1, top)
              /\ now.lastSeq = Screen!lastSeq(now.page, since)
            BY <2>4, <2>7, <2>10
        <3>2. \E a, n \in Nat : /\ a = since + 1 /\ now.page = Screen!Between(a, n)
                                /\ now.lastSeq = Screen!lastSeq(now.page, since)
            BY <2>3, <3>1
        <3>3. Polled'
            BY <1>1, <2>1, <2>7, <2>8, <2>10, <3>2 DEF Polled, since
        <3> QED
            BY <1>3, <2>1, <2>7, <3>3
    <2> QED
        BY <2>9, <2>10
<1>6. CASE Screen!EventsFail
    <2>1. poll' = Screen!NoPoll /\ UNCHANGED <<total, current>>
        BY <1>6 DEF Screen!EventsFail
    <2> QED
        BY <1>3, <2>1, NothingHeld DEF Polled
<1>7. CASE Screen!Reopened
    <2>1. /\ current < MaxMounts /\ current' = current + 1 /\ UNCHANGED <<total, poll>>
        BY <1>7 DEF Screen!Reopened
    <2>2. current' \in 1..MaxMounts /\ current \in Nat
        BY <2>1, CockpitAssumption
    <2>3. ~mount[current'].opened
        BY <2>1, <2>2 DEF Later
    <2>4. Later'
        BY <1>1, <2>1, <2>2 DEF Later
    <2>5. Drawn'
        BY <1>1, <2>3 DEF Drawn
    <2>6. Polled'
        <3>1. poll.of \in 1..MaxMounts /\ (poll.of <= current => poll.of <= current')
            BY <2>1, <2>2 DEF Polling
        <3> QED
            BY <1>1, <2>1, <3>1 DEF Polled
    <2> QED
        BY <1>1, <1>2, <2>1, <2>2, <2>4, <2>5, <2>6
<1>8. CASE Screen!AgentWrites
    <2>1. total' \in Nat /\ UNCHANGED <<current, poll>>
        BY <1>8, CockpitAssumption DEF Screen!AgentWrites
    <2> QED
        BY <1>1, <1>2, <2>1 DEF Later, Drawn, Polled
<1> QED
    BY <1>4, <1>5, <1>6, <1>7, <1>8

(* Every step of the stream keeps its invariant. *)
LEMMA StreamStep == StreamInv /\ [Screen!Next]_(Screen!vars) => StreamInv'
<1>1. ASSUME StreamInv, UNCHANGED <<total, shown, mount, current, poll, late>> PROVE StreamInv'
    BY <1>1 DEF StreamInv, StreamTyped, Mounts, Later, Polled, Drawn
<1>2. ASSUME StreamInv, UNCHANGED Screen!vars PROVE StreamInv'
    BY <1>1, <1>2 DEF Screen!vars
<1>3. ASSUME StreamInv, Screen!Steps PROVE StreamInv'
    <2>1. CASE Screen!queryFn \/ Screen!EventsAnswered
        BY <1>3, <2>1, PollMoves
    <2>2. CASE Screen!EventsArrive
        BY <1>3, <2>2, Arrives
    <2>3. ASSUME NEW m \in 1..MaxMounts, Screen!OlderAnswered(m) \/ Screen!OlderArrives(m)
          PROVE  StreamInv'
        BY <1>3, <2>3, OlderAsked, OlderDrawn
    <2>4. CASE \/ Screen!taskPollInterval \/ Screen!TaskAnswered \/ Screen!TaskArrives
               \/ Screen!Posted \/ Screen!onSuccess \/ Screen!onError \/ Screen!JobEnds
        <3>1. UNCHANGED Screen!StreamSide
            BY <2>4, Zenon
               DEF Screen!taskPollInterval, Screen!TaskAnswered, Screen!TaskArrives, Screen!Posted,
                   Screen!onSuccess, Screen!onError, Screen!JobEnds, Screen!Moves
        <3> QED
            BY <1>1, <1>3, <3>1 DEF Screen!StreamSide
    <2> QED
        BY <1>3, <2>1, <2>2, <2>3, <2>4, Zenon DEF Screen!Steps
<1>4. ASSUME StreamInv, Screen!Events PROVE StreamInv'
    <2>1. CASE Screen!AgentWrites \/ Screen!EventsFail \/ Screen!Reopened
        BY <1>4, <2>1, PollMoves
    <2>2. CASE Screen!loadOlder
        <3>1. current \in 1..MaxMounts
            BY <1>4 DEF StreamInv, StreamTyped
        <3> QED
            BY <1>4, <2>2, <3>1, OlderAsked
    <2>3. ASSUME NEW m \in 1..MaxMounts, Screen!OlderFails(m) PROVE StreamInv'
        BY <1>4, <2>3, OlderAsked
    <2>4. ASSUME NEW action, \/ Screen!SessionEnds \/ Screen!Elsewhere \/ Screen!AnswerLost
                             \/ Screen!TaskFails \/ Screen!onMutate(action)
          PROVE  StreamInv'
        <3>1. UNCHANGED Screen!StreamSide
            BY <2>4, Zenon
               DEF Screen!SessionEnds, Screen!Elsewhere, Screen!AnswerLost, Screen!TaskFails,
                   Screen!onMutate, Screen!Moves
        <3> QED
            BY <1>1, <1>4, <3>1 DEF Screen!StreamSide
    <2> QED
        BY <1>4, <2>1, <2>2, <2>3, <2>4, Zenon DEF Screen!Events
<1> QED
    BY <1>2, <1>3, <1>4 DEF Screen!Next

(* The task as somebody read it: if it was over then, it is so now, unless a reply *)
(* sent it back to work.                                                            *)
Current(x) == x # Screen!Unread /\ ~Screen!polls(x) /\ ~revived => x = task
(* The inductive invariant of the task's side of a screen: what is on the screen *)
(* and what is on its way to it were so at some time.                             *)
TaskInv ==
    /\ task \in Screen!Row
    /\ peek \in [pc : {"idle", "asked", "answered"}, row : Screen!Row \cup {Screen!Unread}]
    /\ click \in [pc : {"idle", "posted", "answered", "refused"},
                  action : Screen!Actions \cup {"none"}, row : Screen!Row \cup {Screen!Unread}]
    /\ Current(seen) /\ (peek.pc = "answered" => Current(peek.row))
    /\ (click.pc = "answered" => Current(click.row))

(* A look not taken and a click not made are such records, and are idle. *)
LEMMA Nothing ==
    /\ Screen!NoLook \in [pc : {"idle", "asked", "answered"}, row : Screen!Row \cup {Screen!Unread}]
    /\ Screen!NoClick \in [pc : {"idle", "posted", "answered", "refused"},
                           action : Screen!Actions \cup {"none"},
                           row : Screen!Row \cup {Screen!Unread}]
    /\ Screen!NoLook.pc = "idle" /\ Screen!NoClick.pc = "idle"
    BY DEF Screen!NoLook, Screen!NoClick

(* Initially the component shows the task it was rendered with. *)
LEMMA TaskInit == Screen!Init => TaskInv
<1> SUFFICES ASSUME Screen!Init PROVE TaskInv
    OBVIOUS
<1>1. task \in Screen!Row
    BY DEF Screen!Init, Screen!Row
<1>2. peek = Screen!NoLook /\ click = Screen!NoClick /\ seen = Screen!Unread
    BY DEF Screen!Init
<1> QED
    BY <1>1, <1>2, Nothing DEF TaskInv, Current

(* A task that is over stays as it is, but for a reply that reaches its session. *)
LEMMA OverIsOver ==
    ASSUME TaskInv,
           \/ Screen!SessionEnds \/ Screen!JobEnds \/ Screen!Elsewhere \/ Screen!Posted
    PROVE  /\ task' \in Screen!Row
           /\ \A x : Current(x) => (x # Screen!Unread /\ ~Screen!polls(x) /\ ~revived' => x = task')
<1> USE DEF TaskInv
<1>1. ASSUME task' \in Screen!Row, Screen!polls(task) \/ revived', revived => revived'
      PROVE  \A x : Current(x) => (x # Screen!Unread /\ ~Screen!polls(x) /\ ~revived' => x = task')
    BY <1>1 DEF Current
<1>2. CASE Screen!SessionEnds
    <2>1. Screen!polls(task) /\ UNCHANGED revived
        BY <1>2 DEF Screen!SessionEnds, Screen!polls, Screen!isLiveTask
    <2>2. task' \in Screen!Row
        BY <1>2 DEF Screen!SessionEnds, Screen!Row
    <2> QED
        BY <1>1, <2>1, <2>2
<1>3. CASE Screen!JobEnds
    <2>1. Screen!polls(task) /\ UNCHANGED revived
        BY <1>3 DEF Screen!JobEnds, Screen!polls
    <2>2. PICK state \in {"done", "in-review", "failed", "running"} :
              task' = [state |-> IF Screen!isLiveTask(task) THEN state ELSE task.state,
                       pending |-> "none"]
        BY <1>3 DEF Screen!JobEnds
    <2>3. task' \in Screen!Row
        BY <2>2 DEF Screen!Row
    <2> QED
        BY <1>1, <2>1, <2>3
<1>4. ASSUME NEW action \in Screen!Actions, Screen!claimPending(action)
      PROVE  task' \in Screen!Row /\ Screen!polls(task) /\ UNCHANGED revived
    <2>1. task' = [task EXCEPT !.pending = action] /\ UNCHANGED revived
        BY <1>4 DEF Screen!claimPending
    <2>2. task' \in Screen!Row
        BY <2>1 DEF Screen!Row
    <2>3. task.state \in {"running", "in-review"}
        BY <1>4 DEF Screen!claimPending, Screen!allowed
    <2> QED
        BY <2>1, <2>2, <2>3 DEF Screen!polls, Screen!isLiveTask
<1>5. ASSUME Screen!TakenLive
      PROVE  task' \in Screen!Row /\ (Screen!polls(task) \/ revived') /\ (revived => revived')
    <2>1. task' = [task EXCEPT !.state = "running"]
          /\ revived' = (revived \/ ~Screen!isLiveTask(task))
        BY <1>5 DEF Screen!TakenLive
    <2>2. task' \in Screen!Row
        BY <2>1 DEF Screen!Row
    <2> QED
        BY <2>1, <2>2 DEF Screen!polls
<1>6. CASE Screen!Elsewhere
    BY <1>1, <1>4, <1>5, <1>6 DEF Screen!Elsewhere
<1>7. CASE Screen!Posted
    <2>1. \/ Screen!claimPending(click.action)
          \/ Screen!TakenLive
          \/ UNCHANGED <<task, revived>>
        BY <1>7 DEF Screen!Posted
    <2>2. CASE UNCHANGED <<task, revived>>
        BY <2>2 DEF Current
    <2>3. CASE Screen!claimPending(click.action)
        <3>1. click.action \in Screen!Actions \cup {"none"}
            OBVIOUS
        <3>2. task' = [task EXCEPT !.pending = click.action] /\ UNCHANGED revived
            BY <2>3 DEF Screen!claimPending
        <3>3. task' \in Screen!Row
            BY <3>1, <3>2 DEF Screen!Row
        <3>4. task.state \in {"running", "in-review"}
            BY <2>3 DEF Screen!claimPending, Screen!allowed
        <3> QED
            BY <1>1, <3>2, <3>3, <3>4 DEF Screen!polls, Screen!isLiveTask
    <2> QED
        BY <1>1, <1>5, <2>1, <2>2, <2>3
<1> QED
    BY <1>2, <1>3, <1>6, <1>7

(* Every step of the task on a screen keeps its invariant. *)
LEMMA TaskStep == TaskInv /\ [Screen!Next]_(Screen!vars) => TaskInv'
<1> USE DEF TaskInv
<1>1. ASSUME TaskInv, UNCHANGED <<task, seen, peek, click, revived>> PROVE TaskInv'
    BY <1>1 DEF Current
<1>2. ASSUME TaskInv, UNCHANGED <<task, revived>>,
             seen' = seen \/ Current(seen'),
             peek' \in [pc : {"idle", "asked", "answered"}, row : Screen!Row \cup {Screen!Unread}],
             peek'.pc = "answered" => Current(peek'.row),
             click' \in [pc : {"idle", "posted", "answered", "refused"},
                         action : Screen!Actions \cup {"none"},
                         row : Screen!Row \cup {Screen!Unread}],
             click'.pc = "answered" => Current(click'.row)
      PROVE  TaskInv'
    BY <1>2 DEF Current
<1>3. ASSUME TaskInv, Screen!SessionEnds \/ Screen!JobEnds \/ Screen!Elsewhere PROVE TaskInv'
    <2>1. UNCHANGED <<seen, peek, click>>
        BY <1>3 DEF Screen!SessionEnds, Screen!JobEnds, Screen!Elsewhere, Screen!Moves
    <2>2. /\ task' \in Screen!Row
          /\ \A x : Current(x) => (x # Screen!Unread /\ ~Screen!polls(x) /\ ~revived' => x = task')
        BY <1>3, OverIsOver
    <2> QED
        BY <1>3, <2>1, <2>2 DEF Current
<1>4. ASSUME TaskInv, Screen!Posted PROVE TaskInv'
    <2>1. UNCHANGED <<seen, peek>>
        BY <1>4 DEF Screen!Posted
    <2>2. /\ task' \in Screen!Row
          /\ \A x : Current(x) => (x # Screen!Unread /\ ~Screen!polls(x) /\ ~revived' => x = task')
        BY <1>4, OverIsOver
    <2>3. \/ click' = [click EXCEPT !.pc = "answered", !.row = task']
          \/ click' = [click EXCEPT !.pc = "refused"]
        BY <1>4 DEF Screen!Posted
    <2>4. /\ click' \in [pc : {"idle", "posted", "answered", "refused"},
                         action : Screen!Actions \cup {"none"},
                         row : Screen!Row \cup {Screen!Unread}]
          /\ click'.pc = "answered" => click'.row = task'
        BY <1>4, <2>2, <2>3
    <2> QED
        BY <1>4, <2>1, <2>2, <2>4 DEF Current
<1>5. ASSUME TaskInv, Screen!taskPollInterval \/ Screen!TaskFails PROVE TaskInv'
    <2>1. peek' \in {[Screen!NoLook EXCEPT !.pc = "asked"], Screen!NoLook}
          /\ UNCHANGED <<task, seen, click, revived>>
        BY <1>5 DEF Screen!taskPollInterval, Screen!TaskFails
    <2>2. /\ peek' \in [pc : {"idle", "asked", "answered"}, row : Screen!Row \cup {Screen!Unread}]
          /\ peek'.pc # "answered"
        BY <2>1, Nothing
    <2> QED
        BY <1>2, <1>5, <2>1, <2>2 DEF Current
<1>6. ASSUME TaskInv, Screen!TaskAnswered PROVE TaskInv'
    <2>1. peek' = [pc |-> "answered", row |-> task] /\ UNCHANGED <<task, seen, click, revived>>
        BY <1>6 DEF Screen!TaskAnswered
    <2>2. /\ peek' \in [pc : {"idle", "asked", "answered"}, row : Screen!Row \cup {Screen!Unread}]
          /\ peek'.row = task
        BY <1>6, <2>1
    <2> QED
        BY <1>2, <1>6, <2>1, <2>2 DEF Current
<1>7. ASSUME TaskInv, Screen!TaskArrives PROVE TaskInv'
    <2>1. /\ peek.pc = "answered" /\ seen' = peek.row /\ peek' = Screen!NoLook
          /\ UNCHANGED <<task, click, revived>>
        BY <1>7 DEF Screen!TaskArrives
    <2> QED
        BY <1>2, <1>7, <2>1, Nothing DEF Current
<1>8. ASSUME TaskInv, NEW action \in Screen!Actions, Screen!onMutate(action) PROVE TaskInv'
    <2>1. /\ seen' = [seen EXCEPT !.pending = action] /\ Screen!isLiveTask(seen)
          /\ peek' \in {peek, Screen!NoLook}
          /\ click' = [Screen!NoClick EXCEPT !.pc = "posted", !.action = action]
          /\ UNCHANGED <<task, revived>>
        BY <1>8 DEF Screen!onMutate
    <2>2. Screen!isLiveTask(seen')
        BY <2>1 DEF Screen!isLiveTask
    <2>3. /\ click' \in [pc : {"idle", "posted", "answered", "refused"},
                         action : Screen!Actions \cup {"none"},
                         row : Screen!Row \cup {Screen!Unread}]
          /\ click'.pc = "posted"
        BY <2>1, Nothing
    <2>4. Current(seen')
        BY <2>2 DEF Current, Screen!polls
    <2> QED
        BY <1>2, <1>8, <2>1, <2>3, <2>4, Nothing
<1>9. ASSUME TaskInv, Screen!AnswerLost \/ Screen!onSuccess \/ Screen!onError PROVE TaskInv'
    <2>1. CASE Screen!AnswerLost
        <3>1. click' = [click EXCEPT !.pc = "refused"] /\ UNCHANGED <<task, seen, peek, revived>>
            BY <2>1 DEF Screen!AnswerLost
        <3>2. /\ click' \in [pc : {"idle", "posted", "answered", "refused"},
                             action : Screen!Actions \cup {"none"},
                             row : Screen!Row \cup {Screen!Unread}]
              /\ click'.pc = "refused"
            BY <1>9, <3>1
        <3> QED
            BY <1>2, <1>9, <3>1, <3>2 DEF Current
    <2>2. CASE Screen!onSuccess
        <3>1. /\ click.pc = "answered" /\ seen' = click.row /\ click' = Screen!NoClick
              /\ UNCHANGED <<task, peek, revived>>
            BY <2>2 DEF Screen!onSuccess
        <3> QED
            BY <1>2, <1>9, <3>1, Nothing DEF Current
    <2>3. CASE Screen!onError
        <3>1. /\ peek' = [Screen!NoLook EXCEPT !.pc = "asked"] /\ click' = Screen!NoClick
              /\ UNCHANGED <<task, seen, revived>>
            BY <2>3 DEF Screen!onError
        <3>2. /\ peek' \in [pc : {"idle", "asked", "answered"},
                            row : Screen!Row \cup {Screen!Unread}]
              /\ peek'.pc = "asked"
            BY <3>1, Nothing
        <3> QED
            BY <1>2, <1>9, <3>1, <3>2, Nothing
    <2> QED
        BY <1>9, <2>1, <2>2, <2>3
<1>10. ASSUME TaskInv, NEW m,
              \/ Screen!queryFn \/ Screen!EventsAnswered \/ Screen!EventsArrive
              \/ Screen!EventsFail \/ Screen!loadOlder \/ Screen!Reopened \/ Screen!AgentWrites
              \/ Screen!OlderAnswered(m) \/ Screen!OlderArrives(m) \/ Screen!OlderFails(m)
       PROVE  TaskInv'
    <2>1. UNCHANGED Screen!TaskSide
        BY <1>10, Zenon
           DEF Screen!queryFn, Screen!EventsAnswered, Screen!EventsArrive, Screen!EventsFail,
               Screen!loadOlder, Screen!Reopened, Screen!AgentWrites, Screen!OlderAnswered,
               Screen!OlderArrives, Screen!OlderFails
    <2> QED
        BY <1>1, <1>10, <2>1 DEF Screen!TaskSide
<1>11. ASSUME TaskInv, UNCHANGED Screen!vars PROVE TaskInv'
    BY <1>1, <1>11 DEF Screen!vars
<1>12. ASSUME TaskInv, Screen!Steps PROVE TaskInv'
    BY <1>3, <1>4, <1>5, <1>6, <1>7, <1>9, <1>10, <1>12, Zenon DEF Screen!Steps
<1>13. ASSUME TaskInv, Screen!Events PROVE TaskInv'
    BY <1>3, <1>5, <1>8, <1>9, <1>10, <1>13, Zenon DEF Screen!Events
<1> QED
    BY <1>11, <1>12, <1>13, Zenon DEF Screen!Next

(* A step of the whole server is a step of the conversation, or leaves it alone. *)
LEMMA ScreenScene ==
    ASSUME [Next]_vars
    PROVE  [Screen!Next]_(Screen!vars)
<1>1. UNCHANGED vars => UNCHANGED Screen!vars
    BY DEF vars, cockpit, Screen!vars
<1>2. ASSUME Next, scene = "cockpit"
      PROVE  Screen!Next
    BY <1>2 DEF Next, Screen!Next
<1>3. ASSUME Next
      PROVE  Others
    BY <1>3, Zenon DEF Next, Goes, Comes
<1>4. ASSUME Next, scene # "cockpit"
      PROVE  UNCHANGED Screen!vars
    BY <1>3, <1>4 DEF Others, cockpit, Screen!vars
<1> QED
    BY <1>1, <1>2, <1>4

(* What a screen draws of a conversation has no hole and no repeat, and offers history *)
(* until the beginning is there, whatever polls, pages, failures and mounts interleave    *)
(* (components/task-cockpit.tsx); and a screen that stopped asking shows the task as it   *)
(* is, whatever answers overtake one another (lib/task-cache.ts).                          *)
THEOREM ScreensAreTrue ==
    /\ Screen!Spec => [](Screen!ShowsTheLog /\ Screen!SettledIsTrue)
    /\ Spec => []ScreenIsTrue
<1>1. StreamInv => Screen!ShowsTheLog
    <2> SUFFICES ASSUME StreamInv PROVE Screen!ShowsTheLog
        OBVIOUS
    <2>1. ASSUME NEW m \in 1..MaxMounts
          PROVE  /\ Screen!Run(mount[m].held)
                 /\ ~mount[m].hasMore /\ mount[m].held # <<>> => Head(mount[m].held) = 1
        <3>1. Whole(mount[m]) /\ mount[m].held \in Seq(Nat)
            BY DEF StreamInv, Mounts, StreamTyped, Mounted
        <3>2. mount[m].held # <<>> => Len(mount[m].held) # 0 /\ Head(mount[m].held) = mount[m].held[1]
            BY <3>1, EmptySeq
        <3> QED
            BY <3>1, <3>2 DEF Whole
    <2>2. Drawn
        BY DEF StreamInv
    <2> QED
        BY <2>1, <2>2 DEF Drawn, Screen!ShowsTheLog, Screen!Here
<1>2. TaskInv => Screen!SettledIsTrue
    BY DEF TaskInv, Current, Screen!SettledIsTrue, Screen!mayPoll
<1>3. Init => Screen!Init
    BY DEF Init
<1>4. Screen!Spec => []StreamInv /\ []TaskInv
    BY StreamInit, StreamStep, TaskInit, TaskStep, PTL DEF Screen!Spec
<1>5. Spec => []StreamInv /\ []TaskInv
    BY <1>3, StreamInit, StreamStep, TaskInit, TaskStep, ScreenScene, PTL DEF Spec
<1>6. StreamInv /\ TaskInv => ScreenIsTrue
    BY <1>1, <1>2 DEF ScreenIsTrue
<1> QED
    BY <1>1, <1>2, <1>4, <1>5, <1>6, PTL

-----------------------------------------------------------------------------
(* The reverse proxy: what a link reaches. *)

(* A slug has a part at least.  Of the slugs nothing else is used. *)
LEMMA Parts == \A slug \in PortLike : slug \in Seq({"pg", "15"}) /\ slug # <<>>
<1>2. <<"pg">> \in Seq({"pg", "15"}) /\ <<"pg", "15">> \in Seq({"pg", "15"})
    OBVIOUS
<1>3. <<"pg">> # <<>> /\ <<"pg", "15">> # <<>>
    OBVIOUS
<1> QED
    BY <1>2, <1>3, Zenon DEF PortLike

(* What the link of a worker, of a service, and of a port of a service is routed to. *)
ToWorker(link, route) ==
    link.kind = "worker" =>
        /\ route.name = link.name
        /\ route.port = IF link.port = Proxy!NoPort THEN Proxy!codeServer ELSE link.port
ToService(link, route) ==
    link.kind = "service" /\ link.port = Proxy!NoPort =>
        \/ route = Proxy!noRoute
        \/ route.name = link.name /\ route.port = Proxy!servicePrimaryPort(catalog[link.name])
ToPort(link, route) ==
    link.kind = "service" /\ link.port # Proxy!NoPort =>
        \/ route = [kind |-> "service", name |-> link.name, port |-> link.port]
        \/ Proxy!getServiceBySlug(link.name \o <<link.port>>)
Reaches(link, route) == ToWorker(link, route) /\ ToService(link, route) /\ ToPort(link, route)

(* What a page shows is a link of a worker, or of a service by its slug. *)
Proper(link) == link \in Proxy!Link /\ (link.kind = "service" <=> link.name \in PortLike)

(* The label of a service reads as that service, whatever its slug ends in. *)
LEMMA ServiceLabel ==
    ASSUME NEW slug \in PortLike
    PROVE  /\ Proxy!parseProxyHost(<<"svc">> \o slug) = [kind |-> "service", name |-> slug, port |-> Proxy!NoPort]
           /\ \A port : Proxy!parseProxyHost(<<"svc">> \o slug \o <<port>>) =
                  [kind |-> "service", name |-> slug \o <<port>>, port |-> Proxy!NoPort]
<1>1. slug \in Seq({"pg", "15"}) /\ slug # <<>>
    BY Parts
<1>2. \A rest : rest # <<>> /\ (\E S : rest \in Seq(S)) =>
          /\ Tail(<<"svc">> \o rest) = rest
          /\ (<<"svc">> \o rest)[1] = "svc"
    <2> SUFFICES ASSUME NEW S, NEW rest \in Seq(S), rest # <<>>
                 PROVE  Tail(<<"svc">> \o rest) = rest /\ (<<"svc">> \o rest)[1] = "svc"
        OBVIOUS
    <2>1. Len(<<"svc">> \o rest) = Len(rest) + 1
        OBVIOUS
    <2>2. Len(Tail(<<"svc">> \o rest)) = Len(rest)
        BY <2>1
    <2> QED
        BY <2>1, <2>2
<1>3. \A rest : rest # <<>> /\ (\E S : rest \in Seq(S)) =>
          Proxy!parseProxyHost(<<"svc">> \o rest) = [kind |-> "service", name |-> rest, port |-> Proxy!NoPort]
    BY <1>2 DEF Proxy!parseProxyHost
<1>4. \A port : /\ slug \o <<port>> \in Seq({"pg", "15"} \cup {port})
                /\ slug \o <<port>> # <<>>
                /\ <<"svc">> \o slug \o <<port>> = <<"svc">> \o (slug \o <<port>>)
    BY <1>1
<1> QED
    BY <1>1, <1>3, <1>4

(* The label of a worker reads as that worker, at its port or the editor's. *)
LEMMA WorkerLabel ==
    ASSUME NEW id
    PROVE  /\ Proxy!parseProxyHost(<<"worker", id>>) =
                  [kind |-> "worker", name |-> <<id>>, port |-> Proxy!codeServer]
           /\ \A port \in Digits : Proxy!parseProxyHost(<<"worker", id, port>>) =
                  [kind |-> "worker", name |-> <<id>>, port |-> port]
<1>1. /\ Tail(<<"worker", id>>) = <<id>> /\ Len(<<id>>) = 1 /\ <<"worker", id>>[1] = "worker"
    OBVIOUS
<1>2. \A port : /\ Tail(<<"worker", id, port>>) = <<id, port>> /\ Len(<<id, port>>) = 2
                /\ <<"worker", id, port>>[1] = "worker" /\ <<id, port>>[1] = id
                /\ <<id, port>>[2] = port
    OBVIOUS
<1> QED
    BY <1>1, <1>2 DEF Proxy!parseProxyHost

(* The last part of a label, and what is before it. *)
LEMMA LastPart ==
    ASSUME NEW slug \in PortLike, NEW port
    PROVE  /\ Len(slug \o <<port>>) > 1
           /\ Proxy!Last(slug \o <<port>>) = port
           /\ Proxy!Front(slug \o <<port>>) = slug
<1>1. slug \in Seq({"pg", "15"}) /\ slug # <<>>
    BY Parts
<1>2. Len(slug) > 0 /\ Len(slug \o <<port>>) = Len(slug) + 1
    BY <1>1
<1>3. Proxy!Last(slug \o <<port>>) = port
    BY <1>1, <1>2 DEF Proxy!Last
<1>4. Proxy!Front(slug \o <<port>>) = slug
    BY <1>1, <1>2 DEF Proxy!Front
<1> QED
    BY <1>2, <1>3, <1>4

(* Any link a page shows is routed to what it is the link of. *)
LEMMA Resolved ==
    ASSUME NEW link, Proper(link), link.kind = "service" => Proxy!getServiceBySlug(link.name)
    PROVE  Reaches(link, Proxy!resolve(Proxy!host(link)))
<1>1. /\ link.kind \in {"worker", "service"}
      /\ link.port \in Digits \cup {Proxy!NoPort}
      /\ link.name \in PortLike \cup {<<w>> : w \in WorkerIds}
    BY DEF Proper, Proxy!Link, Proxy!LinkPorts
<1>2. CASE link.kind = "worker"
    <2>1. PICK w \in WorkerIds : link.name = <<w>>
        BY <1>1, <1>2 DEF Proper
    <2>2. link.name[1] = w
        BY <2>1
    <2>3. ASSUME link.port = Proxy!NoPort
          PROVE  Proxy!resolve(Proxy!host(link)) =
                     [kind |-> "worker", name |-> <<w>>, port |-> Proxy!codeServer]
        BY <1>2, <2>2, <2>3, WorkerLabel
           DEF Proxy!resolve, Proxy!host, Proxy!workerBaseUrl
    <2>4. ASSUME link.port # Proxy!NoPort
          PROVE  Proxy!resolve(Proxy!host(link)) = [kind |-> "worker", name |-> <<w>>, port |-> link.port]
        <3>1. Proxy!host(link) = <<"worker", w, link.port>> /\ link.port \in Digits
            BY <1>1, <1>2, <2>2, <2>4 DEF Proxy!host, Proxy!workerBaseUrl
        <3>2. Proxy!parseProxyHost(Proxy!host(link)) =
                  [kind |-> "worker", name |-> <<w>>, port |-> link.port]
            BY <3>1, WorkerLabel, Zenon
        <3> QED
            BY <3>2 DEF Proxy!resolve
    <2> QED
        BY <1>2, <2>1, <2>3, <2>4 DEF Reaches, ToWorker, ToService, ToPort
<1>3. CASE link.kind = "service"
    <2>1. link.name \in PortLike /\ Proxy!getServiceBySlug(link.name)
        BY <1>3 DEF Proper
    <2>2. ASSUME link.port = Proxy!NoPort
          PROVE  Proxy!resolve(Proxy!host(link)) = Proxy!Exact(link.name)
        <3>1. Proxy!host(link) = <<"svc">> \o link.name
            BY <1>3, <2>2 DEF Proxy!host, Proxy!serviceBaseUrl
        <3>2. Proxy!parseProxyHost(Proxy!host(link)) =
                  [kind |-> "service", name |-> link.name, port |-> Proxy!NoPort]
            BY <2>1, <3>1, ServiceLabel, Zenon
        <3> QED
            BY <2>1, <3>2 DEF Proxy!resolve, Proxy!resolveServiceRoute
    <2>3. \/ Proxy!Exact(link.name) = Proxy!noRoute
          \/ /\ Proxy!Exact(link.name).name = link.name
             /\ Proxy!Exact(link.name).port = Proxy!servicePrimaryPort(catalog[link.name])
        BY DEF Proxy!Exact
    <2>4. ASSUME link.port # Proxy!NoPort, ~Proxy!getServiceBySlug(link.name \o <<link.port>>)
          PROVE  Proxy!resolve(Proxy!host(link)) =
                     [kind |-> "service", name |-> link.name, port |-> link.port]
        <3>1. Proxy!resolve(Proxy!host(link)) = Proxy!WithPort(link.name \o <<link.port>>)
            <4>1. Proxy!host(link) = <<"svc">> \o link.name \o <<link.port>>
                BY <1>3, <2>4 DEF Proxy!host, Proxy!serviceBaseUrl
            <4>2. Proxy!parseProxyHost(Proxy!host(link)) =
                      [kind |-> "service", name |-> link.name \o <<link.port>>, port |-> Proxy!NoPort]
                BY <2>1, <4>1, ServiceLabel, Zenon
            <4> QED
                BY <2>4, <4>2 DEF Proxy!resolve, Proxy!resolveServiceRoute
        <3> QED
            BY <1>1, <2>1, <2>4, <3>1, LastPart DEF Proxy!WithPort
    <2> QED
        BY <1>3, <2>2, <2>3, <2>4 DEF Reaches, ToWorker, ToService, ToPort
<1> QED
    BY <1>1, <1>2, <1>3

(* A request under way that nothing has crossed goes where its link says; it is sent over   *)
(* a network joined before, and what it found is what is there.                              *)
Requested(q) ==
    /\ q = [pc |-> q.pc, link |-> q.link, route |-> q.route, found |-> q.found, moved |-> q.moved]
    /\ q.pc \in {"idle", "joining", "asking", "answered"}
    /\ q.moved \in BOOLEAN
Carried(q) == q.pc \in {"asking", "answered"} /\ q.route # Proxy!noRoute => Proxy!network(q.route) \in joined
Routed(q) == q.pc # "idle" => Proper(q.link) /\ (~q.moved => Reaches(q.link, q.route))
Found(q) ==
    q.pc = "answered" /\ q.route # Proxy!noRoute /\ ~q.moved =>
        /\ q.found => q.route.name \in running
        /\ q.route.name \in running => q.found
VisitInv(q) == Requested(q) /\ Carried(q) /\ Routed(q) /\ Found(q)
(* The inductive invariant of the reverse proxy. *)
ProxyInv == visit = [v \in Visits |-> visit[v]] /\ \A v \in Visits : VisitInv(visit[v]) /\ visit[v].found \in BOOLEAN

LEMMA Idle == /\ VisitInv(Proxy!NoVisit) /\ Proxy!NoVisit.found \in BOOLEAN
              /\ VisitInv(Proxy!NoVisit)' /\ Proxy!NoVisit.pc = "idle" /\ ~Proxy!NoVisit.moved
BY DEF VisitInv, Requested, Carried, Routed, Found, Proxy!NoVisit

LEMMA ProxyInit == Proxy!Init => ProxyInv
BY Idle DEF Proxy!Init, ProxyInv
(* Every step of a request, and everything that comes or goes meanwhile, keeps it. *)
LEMMA ProxyStep == ProxyInv /\ [Proxy!Next]_(Proxy!vars) => ProxyInv'
<1>1. ASSUME ProxyInv, NEW v \in Visits, NEW to,
             visit' = [visit EXCEPT ![v] = to],
             VisitInv(to)', to.found \in BOOLEAN,
             UNCHANGED <<catalog, running>>, joined \subseteq joined'
      PROVE  ProxyInv'
    <2>1. visit'[v] = to /\ \A u \in Visits \ {v} : visit'[u] = visit[u]
        BY <1>1 DEF ProxyInv
    <2>2. ASSUME NEW u \in Visits \ {v} PROVE VisitInv(visit[u])'
        <3>1. VisitInv(visit[u]) /\ visit'[u] = visit[u]
            BY <1>1, <2>1 DEF ProxyInv
        <3> QED
            BY <1>1, <3>1
               DEF VisitInv, Requested, Carried, Routed, Found, Reaches, ToWorker, ToService,
                   ToPort, Proxy!getServiceBySlug
    <2>3. visit' = [u \in Visits |-> visit'[u]]
        BY <1>1 DEF ProxyInv
    <2> QED
        BY <1>1, <2>1, <2>2, <2>3 DEF ProxyInv
<1>2. ASSUME ProxyInv, NEW v \in Visits, NEW link \in Proxy!Link,
             link.kind = "service" <=> link.name \in PortLike,
             Proxy!handleProxyRequest(v, link)
      PROVE  ProxyInv'
    <2>0. PICK route : route = Proxy!resolve(Proxy!host(link))
        OBVIOUS
    <2>8. PICK to : to = [Proxy!NoVisit EXCEPT !.link = link, !.route = route,
                          !.pc = IF route = Proxy!noRoute THEN "answered" ELSE "joining"]
        OBVIOUS
    <2>1. /\ visit' = [visit EXCEPT ![v] = to] /\ UNCHANGED <<catalog, running, joined>>
          /\ link.kind = "service" => Proxy!getServiceBySlug(link.name)
        BY <1>2, <2>0, <2>8, Zenon DEF Proxy!handleProxyRequest
    <2>2. Proper(link)
        BY <1>2 DEF Proper
    <2>3. Reaches(link, route)
        BY <2>0, <2>1, <2>2, Resolved
    <2>4. Reaches(link, route)'
        BY <2>1, <2>3
           DEF Reaches, ToWorker, ToService, ToPort, Proxy!getServiceBySlug
    <2>5. /\ to.link = link /\ to.route = route /\ ~to.moved /\ to.moved \in BOOLEAN
          /\ to.found \in BOOLEAN
          /\ to.pc = IF route = Proxy!noRoute THEN "answered" ELSE "joining"
          /\ to = [pc |-> to.pc, link |-> to.link, route |-> to.route, found |-> to.found,
                   moved |-> to.moved]
        BY <2>8 DEF Proxy!NoVisit
    <2>6. Proper(link)'
        BY <2>2 DEF Proper
    <2>7. VisitInv(to)'
        BY <2>4, <2>5, <2>6 DEF VisitInv, Requested, Carried, Routed, Found
    <2> QED
        BY <1>1, <1>2, <2>1, <2>5, <2>7
<1>3. ASSUME ProxyInv, NEW v \in Visits, Proxy!connectSelfToNetwork(v) PROVE ProxyInv'
    <2>0. PICK to : to = [visit[v] EXCEPT !.pc = "asking"]
        OBVIOUS
    <2>1. /\ visit[v].pc = "joining" /\ visit' = [visit EXCEPT ![v] = to]
          /\ joined' = joined \cup {Proxy!network(visit[v].route)}
          /\ UNCHANGED <<catalog, running>>
        BY <1>3, <2>0 DEF Proxy!connectSelfToNetwork
    <2>2. VisitInv(visit[v]) /\ visit[v].found \in BOOLEAN
        BY <1>3 DEF ProxyInv
    <2>3. /\ to.pc = "asking" /\ to.link = visit[v].link /\ to.route = visit[v].route
          /\ to.moved = visit[v].moved /\ to.found = visit[v].found
          /\ to = [pc |-> to.pc, link |-> to.link, route |-> to.route, found |-> to.found,
                   moved |-> to.moved]
        BY <2>0, <2>2 DEF VisitInv, Requested
    <2>4. VisitInv(to)'
        BY <2>1, <2>2, <2>3
           DEF VisitInv, Requested, Carried, Routed, Found, Proper, Reaches, ToWorker, ToService,
               ToPort, Proxy!getServiceBySlug, Proxy!network
    <2> QED
        BY <1>1, <1>3, <2>1, <2>2, <2>3, <2>4
<1>4. ASSUME ProxyInv, NEW v \in Visits, Proxy!resolveIp(v) PROVE ProxyInv'
    <2>0. PICK to : to = [visit[v] EXCEPT !.pc = "answered", !.found = visit[v].route.name \in running]
        OBVIOUS
    <2>1. /\ visit[v].pc = "asking" /\ visit' = [visit EXCEPT ![v] = to]
          /\ UNCHANGED <<catalog, running, joined>>
        BY <1>4, <2>0 DEF Proxy!resolveIp
    <2>2. VisitInv(visit[v]) /\ visit[v].found \in BOOLEAN
        BY <1>4 DEF ProxyInv
    <2>5. to.found = (visit[v].route.name \in running)
        BY <2>0, <2>2 DEF VisitInv, Requested
    <2>6. to.found \in BOOLEAN
        BY <2>5
    <2>3. /\ to.pc = "answered" /\ to.link = visit[v].link /\ to.route = visit[v].route
          /\ to.moved = visit[v].moved
          /\ to = [pc |-> to.pc, link |-> to.link, route |-> to.route, found |-> to.found,
                   moved |-> to.moved]
        BY <2>0, <2>2 DEF VisitInv, Requested
    <2>7. /\ to.found => to.route.name \in running
          /\ to.route.name \in running => to.found
        BY <2>3, <2>5
    <2>4. VisitInv(to)'
        BY <2>1, <2>2, <2>3, <2>7
           DEF VisitInv, Requested, Carried, Routed, Found, Proper, Reaches, ToWorker, ToService,
               ToPort, Proxy!getServiceBySlug, Proxy!network
    <2> QED
        BY <1>1, <1>4, <2>1, <2>4, <2>6
<1>5. ASSUME ProxyInv, NEW v \in Visits, Proxy!Answered(v) PROVE ProxyInv'
    BY <1>1, <1>5, Idle DEF Proxy!Answered
<1>6. ASSUME ProxyInv, Proxy!Moved, UNCHANGED joined PROVE ProxyInv'
    <2>1. \A v \in Visits :
              visit'[v] = IF visit[v].pc = "idle" THEN Proxy!NoVisit
                          ELSE [visit[v] EXCEPT !.moved = TRUE]
        BY <1>6, Zenon DEF Proxy!Moved
    <2>2. ASSUME NEW v \in Visits, visit[v].pc = "idle"
          PROVE  VisitInv(visit[v])' /\ visit'[v].found \in BOOLEAN
        BY <2>1, <2>2, Idle
    <2>3. ASSUME NEW v \in Visits, visit[v].pc # "idle"
          PROVE  VisitInv(visit[v])' /\ visit'[v].found \in BOOLEAN
        <3>1. VisitInv(visit[v]) /\ visit[v].found \in BOOLEAN
            BY <1>6 DEF ProxyInv
        <3>2. visit'[v] = [visit[v] EXCEPT !.moved = TRUE]
            BY <2>1, <2>3
        <3>3. /\ visit'[v].pc = visit[v].pc /\ visit'[v].link = visit[v].link
              /\ visit'[v].route = visit[v].route /\ visit'[v].moved
              /\ visit'[v].moved \in BOOLEAN /\ visit'[v].found = visit[v].found
              /\ visit'[v] = [pc |-> visit'[v].pc, link |-> visit'[v].link, route |-> visit'[v].route,
                              found |-> visit'[v].found, moved |-> visit'[v].moved]
            BY <3>1, <3>2 DEF VisitInv, Requested
        <3> QED
            BY <1>6, <3>1, <3>3
               DEF VisitInv, Requested, Carried, Routed, Found, Proper, Proxy!network
    <2>4. visit' = [v \in Visits |-> visit'[v]]
        BY <1>6, Zenon DEF Proxy!Moved
    <2> QED
        BY <2>2, <2>3, <2>4 DEF ProxyInv
<1>7. ASSUME ProxyInv, NEW slug \in PortLike, Proxy!Drops(slug) PROVE ProxyInv'
    BY <1>6, <1>7 DEF Proxy!Drops
<1>8. ASSUME ProxyInv, NEW slug \in PortLike, NEW http, NEW first_, Proxy!Declares(slug, http, first_)
      PROVE  ProxyInv'
    BY <1>6, <1>8 DEF Proxy!Declares
<1>9. ASSUME ProxyInv, NEW name, Proxy!Runs(name) PROVE ProxyInv'
    BY <1>6, <1>9 DEF Proxy!Runs
<1>10. ASSUME ProxyInv, UNCHANGED Proxy!vars PROVE ProxyInv'
    BY <1>10
       DEF ProxyInv, VisitInv, Requested, Carried, Routed, Found, Proper, Reaches, ToWorker,
           ToService, ToPort, Proxy!getServiceBySlug, Proxy!network, Proxy!vars
<1>11. ASSUME ProxyInv, Proxy!Steps PROVE ProxyInv'
    BY <1>3, <1>4, <1>5, <1>11, Zenon DEF Proxy!Steps
<1>12. ASSUME ProxyInv, Proxy!Events PROVE ProxyInv'
    BY <1>2, <1>7, <1>8, <1>9, <1>12, Zenon DEF Proxy!Events
<1> QED
    BY <1>10, <1>11, <1>12, Zenon DEF Proxy!Next

(* The invariant is what the model checker is asked of a request. *)
LEMMA ProxySays == ProxyInv => Proxy!RouteIsOwn
<1> SUFFICES ASSUME ProxyInv, NEW v \in Visits
             PROVE  LET q == visit[v] link == q.link IN
        /\ q.pc \in {"asking", "answered"} /\ q.route # Proxy!noRoute => Proxy!network(q.route) \in joined
        /\ q.pc # "idle" /\ ~q.moved =>
             CASE link.kind = "worker" ->
                      /\ q.route.name = link.name
                      /\ q.route.port = IF link.port = Proxy!NoPort THEN Proxy!codeServer ELSE link.port
               [] link.kind = "service" /\ link.port = Proxy!NoPort ->
                      q.route = Proxy!noRoute
                      \/ (/\ q.route.name = link.name
                          /\ q.route.port = Proxy!servicePrimaryPort(catalog[link.name]))
               [] link.kind = "service" /\ link.port # Proxy!NoPort ->
                      \/ q.route = [kind |-> "service", name |-> link.name, port |-> link.port]
                      \/ Proxy!getServiceBySlug(link.name \o <<link.port>>)
        /\ q.pc = "answered" /\ q.route # Proxy!noRoute /\ ~q.moved =>
             q.found = (q.route.name \in running)
    BY DEF Proxy!RouteIsOwn
<1>1. VisitInv(visit[v]) /\ visit[v].found \in BOOLEAN
    BY DEF ProxyInv
<1>2. visit[v].pc # "idle" => visit[v].link.kind \in {"worker", "service"}
    BY <1>1 DEF VisitInv, Routed, Proper, Proxy!Link
<1>3. ASSUME visit[v].pc = "answered", visit[v].route # Proxy!noRoute, ~visit[v].moved
      PROVE  visit[v].found = (visit[v].route.name \in running)
    <2>1. visit[v].found <=> visit[v].route.name \in running
        BY <1>1, <1>3 DEF VisitInv, Found
    <2> QED
        BY <1>1, <2>1
<1>4. visit[v].pc # "idle" /\ ~visit[v].moved => Reaches(visit[v].link, visit[v].route)
    BY <1>1 DEF VisitInv, Routed
<1>5. visit[v].pc \in {"asking", "answered"} /\ visit[v].route # Proxy!noRoute =>
          Proxy!network(visit[v].route) \in joined
    BY <1>1 DEF VisitInv, Carried
<1> QED
    BY <1>2, <1>3, <1>4, <1>5 DEF Reaches, ToWorker, ToService, ToPort

-----------------------------------------------------------------------------
(* The declared services: the address a worker is told of. *)

Closed == ""
(* A row as the API stores it. *)
IsRow(r) ==
    r = [slug |-> r.slug, description |-> r.description, image |-> r.image, command |-> r.command,
         env |-> r.env, ports |-> r.ports, volumes |-> r.volumes, httpPort |-> r.httpPort]
Row(r) == IsRow(r) /\ r.slug \in Labels
Rowed == /\ specs = [s \in DeclaredIds |-> specs[s]]
         /\ \A s \in DeclaredIds : ServiceForm!exists(s) => Row(specs[s])
(* No two services have a slug; what is up is there. *)
Distinct ==
    \A s, t \in DeclaredIds :
        ServiceForm!exists(s) /\ ServiceForm!exists(t) /\ specs[s].slug = specs[t].slug => s = t
UpIsThere == \A s \in up : s \in DeclaredIds /\ ServiceForm!exists(s)
(* A form is of no service, of one to be, or of one; a request is of its form. *)
Edited == /\ editing \in DeclaredIds \cup {Closed, "new"}
          /\ \/ save = ServiceForm!NoSave
             \/ save = [pc |-> save.pc, to |-> save.to, form |-> save.form]
          /\ save.pc = "sent" => save.to \in DeclaredIds \cup {"new"}
(* The inductive invariant of the declared services. *)
FormInv == Rowed /\ Distinct /\ UpIsThere /\ Edited

LEMMA RowIsThere == \A r : Row(r) => r # ServiceForm!None
<1> SUFFICES ASSUME NEW r, Row(r), r = ServiceForm!None PROVE FALSE
    OBVIOUS
<1>1. "slug" \in DOMAIN r
    BY DEF Row, IsRow
<1>2. DOMAIN ServiceForm!None = {"none"}
    BY DEF ServiceForm!None
<1> QED
    BY <1>1, <1>2

(* What the page sends has the fields of a row, whatever is in the form. *)
LEMMA PayloadIsRow == \A v : IsRow(ServiceForm!toServicePayload(v)) /\ ServiceForm!toServicePayload(v).slug = v.slug
<1> SUFFICES ASSUME NEW v
             PROVE  IsRow(ServiceForm!toServicePayload(v)) /\ ServiceForm!toServicePayload(v).slug = v.slug
    OBVIOUS
<1>1. PICK d, i, c, e, p, m, h :
          ServiceForm!toServicePayload(v) =
              [slug |-> v.slug, description |-> d, image |-> i, command |-> c, env |-> e,
               ports |-> p, volumes |-> m, httpPort |-> h]
    BY Zenon DEF ServiceForm!toServicePayload
<1> QED
    BY <1>1 DEF IsRow

(* The service a preset makes has the preset's slug. *)
LEMMA PresetSlug == \A p \in Prefills : ServiceForm!fromPreset(p).slug \in Labels
<1> SUFFICES ASSUME NEW p \in Prefills PROVE ServiceForm!fromPreset(p).slug \in Labels
    OBVIOUS
<1>1. p.slug = <<"db">>
    BY DEF Prefills
<1>2. PICK d0, i0, h0 : ServiceForm!EMPTY_SERVICE_FORM =
          [slug |-> <<>>, description |-> d0, image |-> i0, command |-> <<>>, env |-> <<>>,
           ports |-> <<>>, volumes |-> <<>>, httpPort |-> h0]
    BY Zenon DEF ServiceForm!EMPTY_SERVICE_FORM
<1>3. PICK i, d, c, h, e, q, m : ServiceForm!fromPreset(p) =
          [ServiceForm!EMPTY_SERVICE_FORM EXCEPT !.slug = p.slug, !.image = i, !.description = d,
              !.command = c, !.httpPort = h, !.env = e, !.ports = q, !.volumes = m]
    BY Zenon DEF ServiceForm!fromPreset
<1>4. ServiceForm!fromPreset(p).slug = p.slug
    BY <1>2, <1>3
<1> QED
    BY <1>1, <1>4, Zenon DEF Labels

LEMMA FormInit == ServiceForm!Init => FormInv
<1> SUFFICES ASSUME ServiceForm!Init PROVE FormInv
    OBVIOUS
<1>1. PICK s0 : s0 = CHOOSE s \in DeclaredIds : TRUE
    OBVIOUS
<1>2. s0 \in DeclaredIds
    BY <1>1, FormAssumption
<1> DEFINE r0 == ServiceForm!toServicePayload(ServiceForm!fromPreset(CHOOSE p \in Prefills : TRUE))
<1>4. Row(r0)
    <2>1. (CHOOSE p \in Prefills : TRUE) \in Prefills
        BY Zenon DEF Prefills
    <2> QED
        BY <2>1, PayloadIsRow, PresetSlug DEF Row
<1>5. /\ up = {s0}
      /\ specs = [s \in DeclaredIds |-> IF s \in up THEN r0 ELSE ServiceForm!None]
      /\ editing = Closed /\ save = ServiceForm!NoSave
    <2>1. up = {s0}
        BY <1>1, Zenon DEF ServiceForm!Init
    <2>2. specs = [s \in DeclaredIds |-> IF s \in up THEN r0 ELSE ServiceForm!None]
        BY Zenon DEF ServiceForm!Init
    <2>3. editing = Closed /\ save = ServiceForm!NoSave
        BY Zenon DEF ServiceForm!Init, Closed
    <2> QED
        BY <2>1, <2>2, <2>3
<1> HIDE DEF r0
<1>6. Rowed /\ Distinct /\ UpIsThere
    BY <1>2, <1>4, <1>5, RowIsThere DEF Rowed, Distinct, UpIsThere, ServiceForm!exists
<1>7. Edited
    BY <1>5 DEF Edited, ServiceForm!NoSave
<1> QED
    BY <1>6, <1>7 DEF FormInv

(* Workers are told of a service that is up under the name and the address of its card. *)
LEMMA FormSays == FormInv => ServiceForm!AddressIsShown
<1> SUFFICES ASSUME FormInv, NEW s \in up,
                    ~\E t \in up \ {s} : specs[s].slug \in {Append(specs[t].slug, "host"),
                                                            Append(specs[t].slug, "port")}
             PROVE  {told \in ServiceForm!serviceEnvForWorkers :
                         told[1] = ServiceForm!envVarName(specs[s])}
                        = {<<ServiceForm!envVarName(specs[s]), ServiceForm!address(specs[s])>>}
    BY Zenon DEF ServiceForm!AddressIsShown
<1>1. \A t \in up : t \in DeclaredIds /\ ServiceForm!exists(t) /\ Row(specs[t])
    BY DEF FormInv, UpIsThere, Rowed
<1>2. \A t \in up : /\ Append(specs[t].slug, "host") # specs[t].slug
                    /\ Append(specs[t].slug, "port") # specs[t].slug
    <2>1. \A l \in Labels : l \in Seq({"db", "port"})
        <3>1. <<"db">> \in Seq({"db", "port"}) /\ <<"db", "port">> \in Seq({"db", "port"})
            OBVIOUS
        <3> QED
            BY <3>1, Zenon DEF Labels
    <2>2. \A l \in Seq({"db", "port"}) : \A x : Len(Append(l, x)) = Len(l) + 1
        OBVIOUS
    <2>3. \A l \in Seq({"db", "port"}) : \A x : Append(l, x) # l
        BY <2>2
    <2> QED
        BY <1>1, <2>1, <2>3 DEF Row
<1>3. ServiceForm!address(specs[s]) = ServiceForm!serviceAddress(specs[s])
    BY DEF ServiceForm!address, ServiceForm!serviceAddress, ServiceForm!servicePrimaryPort
<1>4. ASSUME NEW told \in ServiceForm!serviceEnvForWorkers, told[1] = specs[s].slug
      PROVE  told = <<specs[s].slug, ServiceForm!serviceAddress(specs[s])>>
    <2>1. PICK t \in up : told \in ServiceForm!ofService(specs[t])
        BY <1>4, Zenon DEF ServiceForm!serviceEnvForWorkers
    <2>2. \/ told = <<specs[t].slug, ServiceForm!serviceAddress(specs[t])>>
          \/ \E a : \/ told = <<Append(specs[t].slug, "host"), a>>
                    \/ told = <<Append(specs[t].slug, "port"), a>>
        BY <2>1, Zenon DEF ServiceForm!ofService
    <2>3. \/ specs[t].slug = specs[s].slug
          \/ specs[s].slug = Append(specs[t].slug, "host")
          \/ specs[s].slug = Append(specs[t].slug, "port")
        BY <1>4, <2>2
    <2>4. t = s
        BY <1>1, <2>3 DEF FormInv, Distinct
    <2> QED
        BY <1>2, <1>4, <2>2, <2>4
<1>5. <<specs[s].slug, ServiceForm!serviceAddress(specs[s])>> \in ServiceForm!serviceEnvForWorkers
    <2>1. s \in {t \in up : ServiceForm!exists(t)}
        BY <1>1
    <2>2. <<specs[s].slug, ServiceForm!serviceAddress(specs[s])>> \in ServiceForm!ofService(specs[s])
        BY DEF ServiceForm!ofService
    <2> QED
        BY <2>1, <2>2, Zenon DEF ServiceForm!serviceEnvForWorkers
<1> QED
    BY <1>3, <1>4, <1>5 DEF ServiceForm!envVarName
(* A step that leaves the slugs of the services there are, or drops one, keeps it. *)
LEMMA SlugsKept ==
    ASSUME FormInv, Edited',
           specs' = [s \in DeclaredIds |-> specs'[s]],
           \A s \in DeclaredIds :
               specs'[s] # ServiceForm!None =>
                   ServiceForm!exists(s) /\ Row(specs'[s]) /\ specs'[s].slug = specs[s].slug,
           \A s \in up' : s \in DeclaredIds /\ specs'[s] # ServiceForm!None
    PROVE  FormInv'
BY DEF FormInv, Rowed, Distinct, UpIsThere, ServiceForm!exists, Row, IsRow

(* A service stored under a slug no other has keeps it. *)
LEMMA StoredKept ==
    ASSUME FormInv, Edited', NEW s \in DeclaredIds, NEW r, Row(r),
           specs' = [specs EXCEPT ![s] = r],
           ~\E t \in DeclaredIds \ {s} : ServiceForm!exists(t) /\ specs[t].slug = r.slug,
           up' \subseteq up \cup {s}
    PROVE  FormInv'
<1>1. /\ specs'[s] = r /\ \A t \in DeclaredIds \ {s} : specs'[t] = specs[t]
      /\ specs' = [t \in DeclaredIds |-> specs'[t]]
    BY DEF FormInv, Rowed
<1>2. r # ServiceForm!None
    BY RowIsThere
<1>3. Rowed'
    BY <1>1 DEF FormInv, Rowed, ServiceForm!exists, Row, IsRow
<1>4. Distinct'
    BY <1>1, <1>2 DEF FormInv, Distinct, ServiceForm!exists
<1>5. UpIsThere'
    BY <1>1, <1>2 DEF FormInv, UpIsThere, ServiceForm!exists
<1> QED
    BY <1>3, <1>4, <1>5 DEF FormInv

(* Every step of the page, the API, the containers and the others keeps it. *)
LEMMA FormStep == FormInv /\ [ServiceForm!Next]_(ServiceForm!vars) => FormInv'
<1>1. ASSUME FormInv, UNCHANGED <<specs, up>>, Edited' PROVE FormInv'
    BY <1>1 DEF FormInv, Rowed, Distinct, UpIsThere, ServiceForm!exists, Row, IsRow
<1>2. ASSUME FormInv, UNCHANGED <<editing, save>> PROVE Edited'
    BY <1>2 DEF FormInv, Edited
<1>3. ASSUME FormInv, NEW what \in DeclaredIds \cup {Closed, "new"}, NEW v,
             ServiceForm!Opened(what, v)
      PROVE  FormInv'
    <2>1. editing' = what /\ UNCHANGED <<specs, up, save>>
        BY <1>3 DEF ServiceForm!Opened
    <2> QED
        BY <1>1, <1>3, <2>1 DEF FormInv, Edited
<1>4. ASSUME FormInv, \/ ServiceForm!New \/ ServiceForm!Cancel
                      \/ \E s \in DeclaredIds : ServiceForm!Edit(s)
                      \/ \E p \in Prefills : ServiceForm!Preset(p)
      PROVE  FormInv'
    <2>1. \E what \in DeclaredIds \cup {Closed, "new"} : \E v : ServiceForm!Opened(what, v)
        BY <1>4, Zenon
           DEF ServiceForm!New, ServiceForm!Cancel, ServiceForm!Edit, ServiceForm!Preset, Closed
    <2> QED
        BY <1>3, <1>4, <2>1
<1>5. ASSUME FormInv, ServiceForm!Type PROVE FormInv'
    <2>1. UNCHANGED <<specs, up, editing, save>>
        BY <1>5, Zenon DEF ServiceForm!Type
    <2> QED
        BY <1>1, <1>2, <1>5, <2>1
<1>6. ASSUME FormInv, ServiceForm!submit PROVE FormInv'
    <2>1. /\ editing # Closed /\ save' = [pc |-> "sent", to |-> editing, form |-> fields]
          /\ UNCHANGED <<specs, up, editing>>
        BY <1>6, Zenon DEF ServiceForm!submit, Closed
    <2>2. Edited'
        BY <1>6, <2>1 DEF FormInv, Edited
    <2> QED
        BY <1>1, <1>6, <2>1, <2>2
<1>7. ASSUME FormInv, ServiceForm!Poll \/ ServiceForm!SecretMoves
                      \/ \E s \in DeclaredIds : ServiceForm!spawnServiceContainer(s)
      PROVE  FormInv'
    <2>1. UNCHANGED <<specs, up, editing, save>>
        BY <1>7, Zenon
           DEF ServiceForm!Poll, ServiceForm!SecretMoves, ServiceForm!spawnServiceContainer
    <2> QED
        BY <1>1, <1>2, <1>7, <2>1
<1>8. ASSUME FormInv, ServiceForm!Answered PROVE FormInv'
    <2>1. /\ save' = ServiceForm!NoSave /\ editing' \in {editing, Closed}
          /\ UNCHANGED <<specs, up>>
        BY <1>8, Zenon DEF ServiceForm!Answered, Closed
    <2>2. Edited'
        BY <1>8, <2>1 DEF FormInv, Edited, ServiceForm!NoSave
    <2> QED
        BY <1>1, <1>8, <2>1, <2>2
<1>9. ASSUME FormInv, ServiceForm!Lifecycle PROVE FormInv'
    <2>1. PICK s \in DeclaredIds :
              /\ ServiceForm!exists(s)
              /\ up' = IF s \in up THEN up \ {s} ELSE up \cup {s}
              /\ UNCHANGED <<specs, editing, save>>
        BY <1>9, Zenon DEF ServiceForm!Lifecycle
    <2>2. \A t \in up' : t \in DeclaredIds /\ specs'[t] # ServiceForm!None
        BY <1>9, <2>1 DEF FormInv, UpIsThere, ServiceForm!exists
    <2>3. Edited'
        BY <1>2, <1>9, <2>1
    <2> QED
        BY <1>9, <2>1, <2>2, <2>3, SlugsKept DEF FormInv, Rowed, ServiceForm!exists
<1>10. ASSUME FormInv, ServiceForm!Elsewhere PROVE FormInv'
    <2>1. PICK s \in DeclaredIds :
              /\ ServiceForm!exists(s)
              /\ specs' \in {[specs EXCEPT ![s] = ServiceForm!None], [specs EXCEPT ![s].httpPort = 0]}
              /\ up' = IF specs'[s] = ServiceForm!None THEN up \ {s} ELSE up
              /\ UNCHANGED <<editing, save>>
        BY <1>10, Zenon DEF ServiceForm!Elsewhere
    <2>2. Edited'
        BY <1>2, <1>10, <2>1
    <2>3. Row(specs[s])
        BY <1>10, <2>1 DEF FormInv, Rowed
    <2>4. CASE specs' = [specs EXCEPT ![s] = ServiceForm!None]
        <3>1. /\ specs'[s] = ServiceForm!None /\ up' = up \ {s}
              /\ \A t \in DeclaredIds \ {s} : specs'[t] = specs[t]
              /\ specs' = [t \in DeclaredIds |-> specs'[t]]
            BY <1>10, <2>1, <2>4 DEF FormInv, Rowed
        <3> QED
            BY <1>10, <2>2, <3>1, SlugsKept
               DEF FormInv, Rowed, UpIsThere, ServiceForm!exists
    <2>5. CASE specs' = [specs EXCEPT ![s].httpPort = 0]
        <3>1. PICK r : r = [specs[s] EXCEPT !.httpPort = 0]
            OBVIOUS
        <3>2. Row(r) /\ r.slug = specs[s].slug
            BY <2>3, <3>1 DEF Row, IsRow
        <3>3. specs' = [specs EXCEPT ![s] = r]
            BY <1>10, <2>5, <3>1 DEF FormInv, Rowed
        <3>4. ~\E t \in DeclaredIds \ {s} : ServiceForm!exists(t) /\ specs[t].slug = r.slug
            BY <1>10, <2>1, <3>2 DEF FormInv, Distinct
        <3> QED
            BY <1>10, <2>1, <2>2, <3>2, <3>3, <3>4, StoredKept
    <2> QED
        BY <2>1, <2>4, <2>5
<1>11. ASSUME FormInv, ServiceForm!Serve PROVE FormInv'
    <2>1. PICK body : body = ServiceForm!toServicePayload(save.form)
        OBVIOUS
    <2>2. /\ save.pc = "sent" /\ save.to \in DeclaredIds \cup {"new"}
          /\ UNCHANGED editing /\ IsRow(body)
        BY <1>11, <2>1, PayloadIsRow, Zenon DEF ServiceForm!Serve, FormInv, Edited
    <2>3. \/ ServiceForm!Refused
          \/ /\ ServiceForm!ServiceSchema(body) /\ save.to = "new"
             /\ ~ServiceForm!clash("new", body.slug)
             /\ \E new \in DeclaredIds : ServiceForm!createService(new, body)
          \/ /\ ServiceForm!ServiceSchema(body) /\ save.to # "new"
             /\ ~ServiceForm!clash(save.to, body.slug)
             /\ ServiceForm!updateService(save.to, body)
        BY <1>11, <2>1, Zenon DEF ServiceForm!Serve
    <2>4. CASE ServiceForm!Refused
        <3>1. save' = [save EXCEPT !.pc = "refused"] /\ UNCHANGED <<specs, up>>
            BY <2>4, Zenon DEF ServiceForm!Refused
        <3>2. save'.pc = "refused"
            BY <1>11, <2>2, <3>1 DEF FormInv, Edited, ServiceForm!NoSave
        <3>3. Edited'
            BY <1>11, <2>2, <3>1, <3>2 DEF FormInv, Edited, ServiceForm!NoSave
        <3> QED
            BY <1>1, <1>11, <3>1, <3>3
    <2>5. ASSUME ServiceForm!ServiceSchema(body) PROVE Row(body)
        <3>1. body.slug \in Labels
            BY <2>5, PTL DEF ServiceForm!ServiceSchema
        <3> QED
            BY <2>2, <3>1 DEF Row
    <2>6. ASSUME NEW s \in DeclaredIds, NEW r, ServiceForm!Stored(s, r)
          PROVE  specs' = [specs EXCEPT ![s] = r] /\ Edited'
        <3>1. specs' = [specs EXCEPT ![s] = r] /\ save' = [save EXCEPT !.pc = "saved"]
            BY <2>6, Zenon DEF ServiceForm!Stored
        <3>2. save'.pc = "saved"
            BY <1>11, <2>2, <3>1 DEF FormInv, Edited, ServiceForm!NoSave
        <3> QED
            BY <1>11, <2>2, <3>1, <3>2 DEF FormInv, Edited, ServiceForm!NoSave
    <2>7. ASSUME ServiceForm!ServiceSchema(body), ~ServiceForm!clash("new", body.slug),
                 NEW new \in DeclaredIds, ServiceForm!createService(new, body)
          PROVE  FormInv'
        <3>1. ServiceForm!Stored(new, body) /\ up' = up \cup {new}
            BY <2>7, Zenon DEF ServiceForm!createService
        <3>2. ~\E t \in DeclaredIds : ServiceForm!exists(t) /\ specs[t].slug = body.slug
            BY <2>7, FormAssumption DEF ServiceForm!clash
        <3> QED
            BY <1>11, <2>5, <2>6, <2>7, <3>1, <3>2, StoredKept
    <2>8. ASSUME ServiceForm!ServiceSchema(body), save.to # "new",
                 ~ServiceForm!clash(save.to, body.slug), ServiceForm!updateService(save.to, body)
          PROVE  FormInv'
        <3>1. PICK s \in DeclaredIds : s = save.to
            BY <2>2, <2>8
        <3>2. PICK d : ServiceForm!Stored(s, [body EXCEPT !.description = d]) /\ up' = up
            BY <2>8, <3>1, Zenon DEF ServiceForm!updateService
        <3>3. PICK r : r = [body EXCEPT !.description = d]
            OBVIOUS
        <3>4. Row(r) /\ r.slug = body.slug
            BY <2>5, <2>8, <3>3 DEF Row, IsRow
        <3>5. ~\E t \in DeclaredIds \ {s} : ServiceForm!exists(t) /\ specs[t].slug = r.slug
            BY <2>8, <3>1, <3>4 DEF ServiceForm!clash
        <3>6. specs' = [specs EXCEPT ![s] = r] /\ Edited'
            BY <2>6, <3>2, <3>3
        <3> QED
            BY <1>11, <3>2, <3>4, <3>5, <3>6, StoredKept
    <2> QED
        BY <2>3, <2>4, <2>7, <2>8
<1>12. ASSUME FormInv, UNCHANGED ServiceForm!vars PROVE FormInv'
    <2>1. UNCHANGED <<specs, up, editing, save>>
        BY <1>12 DEF ServiceForm!vars
    <2> QED
        BY <1>1, <1>2, <1>12, <2>1
<1>13. ASSUME FormInv, ServiceForm!Steps PROVE FormInv'
    BY <1>7, <1>8, <1>11, <1>13, Zenon DEF ServiceForm!Steps
<1>14. ASSUME FormInv, ServiceForm!Events PROVE FormInv'
    BY <1>4, <1>5, <1>6, <1>7, <1>9, <1>10, <1>14, Zenon DEF ServiceForm!Events
<1> QED
    BY <1>12, <1>13, <1>14, Zenon DEF ServiceForm!Next

(* A step of the whole server is a step of the proxy, and one of the declared services, *)
(* or leaves them alone.                                                                  *)
LEMMA RouteScenes ==
    ASSUME [Next]_vars
    PROVE  [Proxy!Next]_(Proxy!vars) /\ [ServiceForm!Next]_(ServiceForm!vars)
<1>1. UNCHANGED vars => UNCHANGED Proxy!vars /\ UNCHANGED ServiceForm!vars
    BY DEF vars, proxy, forms, Proxy!vars, ServiceForm!vars
<1>2. ASSUME Next, scene = "proxy"
      PROVE  Proxy!Next
    BY <1>2 DEF Next, Proxy!Next
<1>3. ASSUME Next, scene = "forms"
      PROVE  ServiceForm!Next
    BY <1>3 DEF Next, ServiceForm!Next
<1>4. ASSUME Next
      PROVE  Others
    BY <1>4, Zenon DEF Next, Goes, Comes
<1>5. ASSUME Next, scene # "proxy"
      PROVE  UNCHANGED Proxy!vars
    BY <1>4, <1>5 DEF Others, proxy, Proxy!vars
<1>6. ASSUME Next, scene # "forms"
      PROVE  UNCHANGED ServiceForm!vars
    BY <1>4, <1>6 DEF Others, forms, ServiceForm!vars
<1> QED
    BY <1>1, <1>2, <1>3, <1>5, <1>6

(* A link leads to what it is the link of, or nowhere, over a network joined before, though  *)
(* a slug may read like another's with a port (server/worker-proxy.ts); and a worker is told *)
(* of a service under the name and the address its card shows (components/service-card.tsx), *)
(* for any number of requests and of services, whatever is declared, dropped or run meanwhile. *)
THEOREM RoutesAreOwn ==
    /\ Proxy!Spec => []Proxy!RouteIsOwn
    /\ ServiceForm!Spec => []ServiceForm!AddressIsShown
    /\ Spec => []RouteIsOwn
<1>1. Init => Proxy!Init /\ ServiceForm!Init
    BY DEF Init
<1>2. Proxy!Spec => []ProxyInv
    BY ProxyInit, ProxyStep, PTL DEF Proxy!Spec
<1>3. ServiceForm!Spec => []FormInv
    BY FormInit, FormStep, PTL DEF ServiceForm!Spec
<1>4. Spec => []ProxyInv /\ []FormInv
    BY <1>1, ProxyInit, ProxyStep, FormInit, FormStep, RouteScenes, PTL DEF Spec
<1>5. ProxyInv /\ FormInv => RouteIsOwn
    BY ProxySays, FormSays DEF RouteIsOwn
<1> QED
    BY <1>2, <1>3, <1>4, <1>5, ProxySays, FormSays, PTL
=============================================================================
