------------------------------ MODULE SshAgent -------------------------------
(***************************************************************************)
(* The SSH agent of the workers (lib/ssh-agent.ts, lib/ssh-keys.ts): a     *)
(* proxy socket, forwarded per connection to the ssh-agent that holds the  *)
(* key unlocked in Settings, to the host's own agent, or to nobody.        *)
(*                                                                         *)
(* The ssh-agents Lite spawns are numbered; the socket is one path, which  *)
(* belongs to the last of them that could bind it.                         *)
(***************************************************************************)
EXTENDS Naturals, FiniteSets

CONSTANTS
    Keys,      \* private keys in HOST_SSH_DIR
    Encrypted, \* those with a passphrase
    Legible,   \* those whose public half is read without it
    Unlocks,   \* unlocks in flight at once
    Locks,     \* locks in flight at once
    MaxAgents  \* bound: ssh-agents spawned

VARIABLES
    selected, \* settings.sshKeyPath
    host,     \* keys of the host's agent, when it is mounted
    proc,     \* per ssh-agent spawned: is it up
    holds,    \* per ssh-agent, the keys it holds
    sock,     \* the ssh-agent that bound INTERNAL_SOCK, 0 when no file is there
    agent,    \* state.agent
    unlocked, \* state.unlocked
    bind,     \* state.workerBind
    unlock,   \* unlocks in flight
    lock,     \* locks in flight: `ssh-add -D` has not run yet
    locked,   \* history: no unlock has been in flight since the last lock
    mixed     \* history: two unlocks, or a lock and an unlock, have overlapped, or an
              \* ssh-agent started or ended out of their sight

vars == <<selected, host, proc, holds, sock, agent, unlocked, bind, unlock, lock, locked, mixed>>

NoKey == "null"
Agents == 1..MaxAgents
Job == [pc : {"idle", "agent", "empty", "add", "list"}, key : Keys \cup {NoKey}, agent : 0..MaxAgents]
NoJob == [pc |-> "idle", key |-> NoKey, agent |-> 0]

SshTypes ==
    /\ selected \in Keys \cup {NoKey} /\ unlocked \in Keys \cup {NoKey}
    /\ host = {NoKey} \/ host \subseteq Keys
    /\ proc \in [Agents -> {"none", "starting", "up", "dead"}]
    /\ holds \in [Agents -> SUBSET Keys]
    /\ sock \in 0..MaxAgents /\ agent \in 0..MaxAgents
    /\ bind \in {"unknown", "none", "mount"}
    /\ unlock \in [Unlocks -> Job] /\ lock \in [Locks -> BOOLEAN]
    /\ locked \in BOOLEAN /\ mixed \in BOOLEAN

ours == <<proc, holds, sock, agent>>
reachable(path) == path # 0 /\ proc[path] = "up"
unlocking == \E u \in Unlocks : unlock[u].pc # "idle"
hostAgent == host # {NoKey}

-----------------------------------------------------------------------------
(* The proxy. *)

anyUnlocked == unlocked # NoKey /\ sock # 0  \* mutant: whichever was unlocked
(* Our agent holds the key Settings has selected, not one selected before. *)
servesSelectedKey == unlocked # NoKey /\ unlocked = selected /\ sock # 0

(* The keys offered to a connection that begins now; an upstream that does not *)
(* answer is as an agent with none.                                             *)
ourKeys == IF servesSelectedKey /\ reachable(sock) THEN holds[sock] ELSE {}
handleClient ==
    CASE servesSelectedKey -> ourKeys
      [] ~servesSelectedKey /\ hostAgent -> host
      [] OTHER -> {}

(* Where workers mount the socket from; an inspect that fails is not remembered. *)
workerAgentBind ==
    /\ bind = "unknown"
    /\ bind' \in {"none", "mount"}
    /\ UNCHANGED <<selected, host, ours, unlocked, unlock, lock, locked, mixed>>

(* What Settings shows.  A key with no readable public half is taken for the one *)
(* an agent holds.                                                                *)
holdsKey(blobs) == IF selected \in Legible THEN selected \in blobs ELSE blobs # {}
isUnlocked ==
    unlocked = selected /\ selected # NoKey /\ reachable(sock) /\ holdsKey(holds[sock])
hostHasKey == selected # NoKey /\ hostAgent /\ holdsKey(host)
getSshAgentStatus ==
    [unlocked |-> isUnlocked, hasKey |-> hostHasKey,
     usable |-> /\ selected # NoKey
                /\ selected \in Encrypted => bind = "mount" /\ (isUnlocked \/ hostHasKey)]

updateSettings(key) ==
    /\ key # selected
    /\ selected' = key
    /\ UNCHANGED <<host, ours, unlocked, bind, unlock, lock, locked, mixed>>

(* `ssh-add' on the host, or the agent goes away. *)
HostAgent(keys) ==
    /\ host' = keys /\ keys # host
    /\ UNCHANGED <<selected, ours, unlocked, bind, unlock, lock, locked, mixed>>

-----------------------------------------------------------------------------
(* Unlocking. *)

nextAgent == Cardinality({n \in Agents : proc[n] # "none"}) + 1
Failed(u) == unlock' = [unlock EXCEPT ![u] = NoJob]

(* One agent is kept; with none that runs, the path is freed for a new one. *)
ensureAgent(u, key) ==
    IF agent # 0 /\ proc[agent] # "dead" /\ sock # 0
      THEN /\ unlock' = [unlock EXCEPT ![u] = [pc |-> "empty", key |-> key, agent |-> 0]]
           /\ UNCHANGED <<proc, sock>>
      ELSE /\ nextAgent <= MaxAgents
           /\ proc' = [proc EXCEPT ![nextAgent] = "starting"] /\ sock' = 0
           /\ unlock' = [unlock EXCEPT ![u] = [pc |-> "agent", key |-> key, agent |-> nextAgent]]

(* Refused at once for a key with no passphrase. *)
unlockSelectedKey(u) ==
    /\ unlock[u].pc = "idle" /\ selected \in Encrypted
    /\ ensureAgent(u, selected)
    /\ locked' = FALSE
    /\ mixed' = (mixed \/ unlocking \/ \E l \in Locks : lock[l])
    /\ UNCHANGED <<selected, host, holds, agent, unlocked, bind, lock>>

keepsUnlocked(n) == unlocked  \* mutant: nobody listens to its end
exited(n) == IF agent = n THEN NoKey ELSE unlocked

(* The path taken, ssh-agent gives up. *)
Bound(n) ==
    /\ proc[n] = "starting"
    /\ \/ sock = 0 /\ sock' = n /\ proc' = [proc EXCEPT ![n] = "up"] /\ UNCHANGED <<agent, unlocked>>
       \/ /\ proc' = [proc EXCEPT ![n] = "dead"] /\ UNCHANGED sock
          /\ agent' = (IF agent = n THEN 0 ELSE agent) /\ unlocked' = exited(n)
    /\ UNCHANGED <<selected, host, holds, bind, unlock, lock, locked, mixed>>

(* Killed, it may leave its socket behind. *)
AgentExits(n) ==
    /\ proc[n] = "up"
    /\ proc' = [proc EXCEPT ![n] = "dead"] /\ holds' = [holds EXCEPT ![n] = {}]
    /\ sock' \in IF sock = n THEN {0, n} ELSE {sock}
    /\ agent' = (IF agent = n THEN 0 ELSE agent) /\ unlocked' = exited(n)
    /\ UNCHANGED <<selected, host, bind, unlock, lock, locked, mixed>>

(* Any socket at the path will do, within 5 s. *)
AgentStarted(u) ==
    /\ unlock[u].pc = "agent"
    /\ \/ /\ sock # 0 /\ agent' = unlock[u].agent
          /\ unlock' = [unlock EXCEPT ![u].pc = "empty"] /\ UNCHANGED mixed
       \/ /\ sock = 0 /\ Failed(u) /\ UNCHANGED agent
          /\ mixed' = (mixed \/ proc[unlock[u].agent] = "starting")
    /\ UNCHANGED <<selected, host, proc, holds, sock, unlocked, bind, lock, locked>>

emptied == IF reachable(sock) THEN [holds EXCEPT ![sock] = {}] ELSE holds
Emptied(u) ==
    /\ unlock[u].pc = "empty"
    /\ holds' = emptied /\ unlocked' = NoKey
    /\ unlock' = [unlock EXCEPT ![u].pc = "add"]
    /\ UNCHANGED <<selected, host, proc, sock, agent, bind, lock, locked, mixed>>

(* The passphrase is right, or not; nobody may be there to take the key. *)
Added(u) ==
    /\ unlock[u].pc = "add"
    /\ \/ /\ reachable(sock) /\ holds' = [holds EXCEPT ![sock] = @ \cup {unlock[u].key}]
          /\ unlock' = [unlock EXCEPT ![u].pc = "list"]
       \/ Failed(u) /\ UNCHANGED holds
    /\ UNCHANGED <<selected, host, proc, sock, agent, unlocked, bind, lock, locked, mixed>>

(* Written whatever the agent lists, for its public line. *)
Unlocked(u) ==
    /\ unlock[u].pc = "list"
    /\ unlocked' = unlock[u].key
    /\ Failed(u)
    /\ mixed' = (mixed \/ (~reachable(sock)))
    /\ UNCHANGED <<selected, host, ours, bind, lock, locked>>

-----------------------------------------------------------------------------
(* Locking. *)

stillUnlocked == unlocked  \* mutant: the agent is emptied, and that is all
forgotten == NoKey
emptiable == agent # 0 /\ sock # 0

lockKey(l) ==
    /\ ~lock[l]
    /\ unlocked' = forgotten
    /\ lock' = [lock EXCEPT ![l] = emptiable]
    /\ locked' = ~unlocking
    /\ mixed' = (mixed \/ unlocking)
    /\ UNCHANGED <<selected, host, ours, bind, unlock>>

(* That it fails is nobody's business. *)
Locked(l) ==
    /\ lock[l]
    /\ lock' = [lock EXCEPT ![l] = FALSE]
    /\ holds' \in {holds, emptied}
    /\ UNCHANGED <<selected, host, proc, sock, agent, unlocked, bind, unlock, locked, mixed>>

(* Only the decrypted key was in memory, and it was in the agent's. *)
Restart ==
    /\ proc' = [n \in Agents |-> IF proc[n] = "none" THEN "none" ELSE "dead"]
    /\ holds' = [n \in Agents |-> {}]
    /\ sock' \in {0, sock} /\ agent' = 0 /\ unlocked' = NoKey /\ bind' = "unknown"
    /\ unlock' = [u \in Unlocks |-> NoJob] /\ lock' = [l \in Locks |-> FALSE]
    /\ locked' = TRUE /\ mixed' = FALSE
    /\ UNCHANGED <<selected, host>>

-----------------------------------------------------------------------------
(* Something may have asked where to mount the socket from since the start. *)
Init ==
    /\ selected = NoKey /\ host = {NoKey}
    /\ proc = [n \in Agents |-> "none"] /\ holds = [n \in Agents |-> {}]
    /\ sock = 0 /\ agent = 0 /\ unlocked = NoKey /\ bind \in {"unknown", "mount"}
    /\ unlock = [u \in Unlocks |-> NoJob] /\ lock = [l \in Locks |-> FALSE]
    /\ locked = TRUE /\ mixed = FALSE

Events ==
    \/ \E key \in Keys \cup {NoKey} : updateSettings(key)
    \/ \E keys \in {{NoKey}} \cup {{k} : k \in Keys} : HostAgent(keys)
    \/ \E u \in Unlocks : unlockSelectedKey(u)
    \/ \E l \in Locks : lockKey(l)
    \/ \E n \in Agents : AgentExits(n)
    \/ workerAgentBind \/ Restart

Steps ==
    \/ \E n \in Agents : Bound(n)
    \/ \E u \in Unlocks : AgentStarted(u) \/ Emptied(u) \/ Added(u) \/ Unlocked(u)
    \/ \E l \in Locks : Locked(l)

Next == Events \/ Steps
Spec == Init /\ [][Next]_vars

-----------------------------------------------------------------------------
(* `Locks it again': a lock no unlock overlaps lasts until somebody unlocks, *)
(* even when the agent could not be emptied: no worker is offered a key of it. *)
LockHolds == locked => ourKeys = {}

(* `One key at a time: the agent holds exactly what Settings has selected': a *)
(* worker is never offered another of our keys, however the selection and the  *)
(* unlocks follow each other, as long as two of them do not overlap.            *)
OnlyTheSelected == ~mixed => ourKeys \subseteq {selected}

(* A key Settings calls usable is one the workers are offered, unless an agent *)
(* had to be trusted to hold it.                                                *)
UsableIsOffered ==
    ~mixed /\ ~unlocking /\ selected \in Encrypted \cap Legible /\ getSshAgentStatus.usable
    => selected \in handleClient
=============================================================================
