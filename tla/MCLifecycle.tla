---------------------------- MODULE MCLifecycle ----------------------------
(* The terminal agent under its watchdogs, the daemon's own end, the        *)
(* sidecar client and the activity feed share no state, so a behaviour      *)
(* picks one of them at the start, its focus, and the others stay as they   *)
(* begin.  Three agents and two runs of the daemon, a guard that allows one *)
(* respawn in two ticks; two scans and two sidecars; two streams of four    *)
(* events and a buffer of two.                                              *)
EXTENDS AgentLifecycle, DaemonLifecycle, SidecarClient, ActivityFeed, TLC

VARIABLE focus  \* the part under study

lifecycleVars == <<focus, agentVars, lifeVars, sidecarVars, feedVars>>

LifecycleInit ==
  /\ focus \in {"agent", "daemon", "sidecar", "feed"}
  /\ AgentInit /\ LifeInit /\ SidecarInit /\ FeedInit
  /\ focus # "daemon" => ~headed /\ ~named

Runs(f) ==
  /\ focus = f /\ UNCHANGED focus
  /\ IF f = "agent"   THEN TRUE ELSE UNCHANGED agentVars
  /\ IF f = "daemon"  THEN TRUE ELSE UNCHANGED lifeVars
  /\ IF f = "sidecar" THEN TRUE ELSE UNCHANGED sidecarVars
  /\ IF f = "feed"    THEN TRUE ELSE UNCHANGED feedVars

LifecycleNext ==
  \/ Runs("agent")   /\ AgentNext
  \/ Runs("daemon")  /\ LifeNext
  \/ Runs("sidecar") /\ SidecarNext
  \/ Runs("feed")    /\ FeedNext

(* The timers fire and started work goes on.                                *)
LifecycleFair ==
  /\ WF_agentVars(focus = "agent" /\ WatchdogTicks)
  /\ \A a \in AgentNo : WF_agentVars(focus = "agent" /\ AgentStep(a))
  /\ WF_lifeVars(focus = "daemon" /\ IdleCheckTick)
  /\ WF_lifeVars(focus = "daemon" /\ ParentWatchdogTick)
  /\ WF_lifeVars(focus = "daemon" /\ Teardown)
  /\ \A s \in Scan : WF_sidecarVars(focus = "sidecar" /\ Timeout(s))
  /\ WF_feedVars(focus = "feed" /\ Notify)
  /\ \A s \in Stream : WF_feedVars(focus = "feed" /\ Heartbeat(s))

LifecycleSpec == LifecycleInit /\ [][LifecycleNext]_lifecycleVars /\ LifecycleFair

(* While a daemon stays up and its guard is not tripped, it can reach its   *)
(* terminal agent again and again.                                          *)
AgentReturns == focus = "agent" => AgentComesBack

(* What is to end ends, and what is to come comes: agents without a daemon, *)
(* a daemon without an agent, a daemon that nobody needs or that has begun  *)
(* to shut down, a scan that waits, a stream without a reader.              *)
AllIsSettled ==
  /\ OwnedAgentsDie /\ AgentReturns
  /\ OrphanTunnelEnds /\ IdleDaemonEnds /\ ShutdownEnds
  /\ ScansSettle /\ NoDeadSubscriber
=============================================================================
