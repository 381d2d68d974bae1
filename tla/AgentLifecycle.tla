--------------------------- MODULE AgentLifecycle ---------------------------
(***************************************************************************)
(* The life of terminal-agent processes: terminal-agent-control.ts, the    *)
(* watchdog and the shutdown of server.ts, the boot and the cleanup of     *)
(* terminal-agent.ts.  Agents, daemons and the command line share three    *)
(* files by name (internal token, port, record), so an agent that was told *)
(* to stop may remove those of its successor.                              *)
(*                                                                         *)
(* Agents are numbered in the order of spawning; the command line spawns   *)
(* without an owner.  Time passes in ticks of the watchdog.                *)
(***************************************************************************)
EXTENDS Integers, FiniteSets

CONSTANTS MaxAgents,       \* bound: agents spawned
          MaxDaemonRuns,   \* bound: runs of the daemon
          RespawnGuard,    \* RESPAWN_GUARD_MAX
          GuardWindow      \* RESPAWN_GUARD_WINDOW_MS, in ticks

ASSUME AgentBounds == MaxAgents \in Nat \ {0} /\ MaxDaemonRuns \in Nat \ {0}
ASSUME GuardFits == RespawnGuard \in Nat \ {0} /\ GuardWindow \in Nat /\ GuardWindow >= RespawnGuard

AgentNo == 1..MaxAgents
NoAgent == 0
NoOwner == 0

VARIABLES agent,       \* agent[a]: where it is, its owner, whether it was signalled
          record,      \* the agent in terminal-agent-pid
          port,        \* the agent in terminal-port
          internal,    \* the agent in terminal-internal-token
          daemonRun,   \* which run of the daemon this is
          daemonUp,
          connecting,  \* the `connect` that started the daemon has yet to spawn an agent
          respawns,    \* respawnHistory: ages of the respawns, in ticks; no two share a tick
          tripped,     \* agentRespawnGuardTripped
          lately,      \* history: ages of the watchdog's spawns, within the window
          crossed      \* history: an agent was writing its files when the files were
                       \* removed, or another agent was spawned

agentVars == <<agent, record, port, internal, daemonRun, daemonUp, connecting, respawns, tripped,
               lately, crossed>>
daemonState == <<daemonRun, daemonUp, connecting>>
agentFiles == <<record, port, internal>>

Unspawned == [at |-> "none", owner |-> NoOwner, told |-> FALSE]
Dead == [Unspawned EXCEPT !.at = "dead"]

AgentInit ==
  /\ agent = [a \in AgentNo |-> Unspawned]
  /\ record = NoAgent /\ port = NoAgent /\ internal = NoAgent
  /\ daemonRun = 1 /\ daemonUp = TRUE /\ connecting = TRUE
  /\ respawns = {} /\ tripped = FALSE /\ lately = {} /\ crossed = FALSE

Booting(a) == agent[a].at \in {"starting", "tokened", "bound"}
Alive(a) == a # NoAgent /\ (Booting(a) \/ agent[a].at = "running")

(* The files go, while some agent other than a may be writing them          *)
RemovesFiles(a) ==
  /\ record' = NoAgent /\ port' = NoAgent /\ internal' = NoAgent
  /\ crossed' = (crossed \/ \E b \in AgentNo \ {a} : Booting(b))

(* Variants named ...Without... or ...Of... are plausible mistakes in the   *)
(* definition that follows them; no specification uses them.                *)

(* spawnTerminalAgent: stop the recorded agent, forget it, spawn            *)
Told(a) == IF Alive(a) THEN [agent EXCEPT ![a].told = TRUE] ELSE agent

SpawnsFor(owner) ==
  \E a \in AgentNo :
    /\ agent[a] = Unspawned /\ \A b \in 1..(a - 1) : agent[b] # Unspawned
    /\ agent' = [Told(record) EXCEPT ![a] = [at |-> "starting", owner |-> owner, told |-> FALSE]]
    /\ record' = NoAgent
    /\ crossed' = (crossed \/ \E b \in AgentNo : Booting(b))

(* connect; nothing tells the agent which daemon it belongs to              *)
CliSpawns ==
  /\ daemonUp /\ connecting /\ connecting' = FALSE
  /\ SpawnsFor(NoOwner)
  /\ UNCHANGED <<port, internal, daemonRun, daemonUp, respawns, tripped, lately>>

Aged(ages) == {age + 1 : age \in ages}

RecentOfOneTick(ages) == {age \in Aged(ages) : age < 1}

Recent(ages) == {age \in Aged(ages) : age <= GuardWindow}

Noted(spawned) ==
  lately' = {age \in Aged(lately) : age < GuardWindow} \cup (IF spawned THEN {0} ELSE {})

(* One tick of the watchdog: with a live agent on record it does nothing,   *)
(* and it stops for good after too many respawns                            *)
WatchdogRests ==
  /\ daemonUp /\ ~tripped /\ Alive(record)
  /\ respawns' = Recent(respawns) /\ Noted(FALSE)
  /\ UNCHANGED <<agent, agentFiles, daemonState, tripped, crossed>>

WatchdogTrips ==
  /\ daemonUp /\ ~tripped /\ ~Alive(record) /\ Cardinality(Recent(respawns)) >= RespawnGuard
  /\ tripped' = TRUE
  /\ respawns' = Recent(respawns) /\ Noted(FALSE)
  /\ UNCHANGED <<agent, agentFiles, daemonState, crossed>>

WatchdogRespawnsOnlyDead ==
  /\ daemonUp /\ ~tripped /\ record # NoAgent /\ ~Alive(record)
  /\ Cardinality(Recent(respawns)) < RespawnGuard
  /\ respawns' = Recent(respawns) \cup {0} /\ Noted(TRUE)
  /\ SpawnsFor(daemonRun)
  /\ UNCHANGED <<port, internal, daemonState, tripped>>

WatchdogRespawns ==
  /\ daemonUp /\ ~tripped /\ ~Alive(record) /\ Cardinality(Recent(respawns)) < RespawnGuard
  /\ respawns' = Recent(respawns) \cup {0} /\ Noted(TRUE)
  /\ SpawnsFor(daemonRun)
  /\ UNCHANGED <<port, internal, daemonState, tripped>>

WatchdogTicks == WatchdogRests \/ WatchdogTrips \/ WatchdogRespawns
-----------------------------------------------------------------------------
(* The boot of an agent: the token at load, then port and record            *)
Advances(a, from, to) ==
  /\ agent[a].at = from /\ ~agent[a].told
  /\ agent' = [agent EXCEPT ![a] = IF to = "dead" THEN Dead ELSE [@ EXCEPT !.at = to]]
  /\ UNCHANGED <<daemonState, respawns, tripped, lately, crossed>>

WritesToken(a) == Advances(a, "starting", "tokened") /\ internal' = a /\ UNCHANGED <<record, port>>
WritesPort(a) == Advances(a, "tokened", "bound") /\ port' = a /\ UNCHANGED <<record, internal>>
WritesRecord(a) == Advances(a, "bound", "running") /\ record' = a /\ UNCHANGED <<port, internal>>
BindFails(a) == Advances(a, "tokened", "dead") /\ UNCHANGED agentFiles

(* cleanup: the three files go, whichever agent they name                   *)
CleansUp(a) ==
  /\ agent' = [agent EXCEPT ![a] = Dead]
  /\ RemovesFiles(a)
  /\ UNCHANGED <<daemonState, respawns, tripped, lately>>

StopsWhenTold(a) == agent[a].told /\ agent[a].at = "running" /\ CleansUp(a)

(* Before main has set its handlers, SIGTERM just ends it                   *)
DiesBooting(a) ==
  /\ agent[a].told /\ Booting(a)
  /\ agent' = [agent EXCEPT ![a] = Dead]
  /\ UNCHANGED <<agentFiles, daemonState, respawns, tripped, lately, crossed>>

OwnerIsGone(a) == agent[a].owner # NoOwner /\ ~(daemonUp /\ daemonRun = agent[a].owner)

OwnerWatchdogWithoutPoll(a) == FALSE /\ CleansUp(a)

OwnerWatchdog(a) == agent[a].at = "running" /\ OwnerIsGone(a) /\ CleansUp(a)

AgentCrashes(a) ==
  /\ agent[a].at = "running"
  /\ agent' = [agent EXCEPT ![a] = Dead]
  /\ UNCHANGED <<agentFiles, daemonState, respawns, tripped, lately, crossed>>
-----------------------------------------------------------------------------
(* shutdown stops the recorded agent and removes the files                  *)
DaemonShutsDown ==
  /\ daemonUp /\ daemonUp' = FALSE
  /\ agent' = Told(record)
  /\ RemovesFiles(NoAgent)
  /\ respawns' = {} /\ tripped' = FALSE /\ lately' = {}
  /\ UNCHANGED <<daemonRun, connecting>>

DaemonDies ==
  /\ daemonUp /\ daemonUp' = FALSE
  /\ respawns' = {} /\ tripped' = FALSE /\ lately' = {}
  /\ UNCHANGED <<agent, agentFiles, daemonRun, connecting, crossed>>

DaemonStarts ==
  /\ ~daemonUp /\ daemonRun < MaxDaemonRuns
  /\ daemonUp' = TRUE /\ daemonRun' = daemonRun + 1 /\ connecting' \in BOOLEAN
  /\ UNCHANGED <<agent, agentFiles, respawns, tripped, lately, crossed>>

AgentStep(a) ==
  \/ WritesToken(a) \/ WritesPort(a) \/ WritesRecord(a) \/ BindFails(a)
  \/ StopsWhenTold(a) \/ DiesBooting(a) \/ OwnerWatchdog(a)

AgentNext ==
  \/ CliSpawns \/ WatchdogTicks \/ DaemonShutsDown \/ DaemonDies \/ DaemonStarts
  \/ \E a \in AgentNo : AgentStep(a) \/ AgentCrashes(a)

AgentSpec == AgentInit /\ [][AgentNext]_agentVars
-----------------------------------------------------------------------------
AgentTypeOK ==
  /\ \A a \in AgentNo : agent[a].at \in {"none", "starting", "tokened", "bound", "running", "dead"}
  /\ {record, port, internal} \subseteq AgentNo \cup {NoAgent}
  /\ \A f \in {record, port} : f # NoAgent => ~agent[f].at \in {"none", "starting"}
  /\ Cardinality(respawns) <= RespawnGuard

(* An agent that dies as soon as it is spawned is given up: there are never *)
(* more respawns than RESPAWN_GUARD_MAX in a window, whatever the pace of   *)
(* the ticks ("the guard could not fire at the default tick rate").         *)
CrashLoopIsGuarded == Cardinality(lately) <= RespawnGuard

(* An agent that the watchdog spawned does not outlive its daemon, even     *)
(* when a successor has taken its record away.                              *)
OwnedAgentsDie == \A a \in AgentNo : (OwnerIsGone(a) /\ Alive(a)) ~> ~Alive(a)

(* While a daemon stays up and its guard is not tripped, it can reach an    *)
(* agent again and again, unless two agents booted at once or the files     *)
(* were removed during a boot: the watchdog looks only at the record, and a *)
(* token or port file that is lost, or names a dead agent, stays so.        *)
Reachable == Alive(record) /\ port = record /\ internal = record
AgentComesBack ==
  <>[](daemonUp /\ ~crossed /\ ~tripped /\ agent[MaxAgents] = Unspawned) => []<>Reachable

(* What the watchdog, the boot and the cleanup do to the files and the      *)
(* counts that they share.                                                  *)
WatchdogSafe == AgentTypeOK /\ CrashLoopIsGuarded
=============================================================================
