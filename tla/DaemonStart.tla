----------------------------- MODULE DaemonStart -----------------------------
(***************************************************************************)
(* How the command line (cli.ts) finds, starts, replaces and stops the     *)
(* browse daemon.  Every invocation is a process of its own; what they     *)
(* share is the state file, which names one daemon, and the lock file of   *)
(* ensureServer.  Between two reads of the state file lie probes of        *)
(* /health, waits for a process to die and polls for a new daemon, and     *)
(* other invocations, crashes and idle daemons act in between.             *)
(*                                                                         *)
(* A daemon is named by the order of spawning.  `used` says that it has    *)
(* served a command, so that tabs, cookies and logins would be lost with   *)
(* it.  The flags --headed and --proxy, tokens (the 401 branch),           *)
(* BROWSE_NO_AUTOSTART and Windows are left out: a headed daemon is one    *)
(* that connect has started, or a restart after one.                       *)
(***************************************************************************)
EXTENDS Integers, FiniteSets

CONSTANTS Cli,         \* invocations, a process each
          MaxDaemons,  \* bound: daemons spawned
          MaxFaults,   \* bound: crashes, killed invocations, busy spells, idle
                       \* timeouts and updates
          MaxTakeovers,\* depth cap of acquireServerLock
          MaxRespawns  \* SUPERVISOR_GUARD_MAX

ASSUME StartBounds == /\ MaxDaemons \in Nat \ {0} /\ MaxFaults \in Nat
                      /\ MaxTakeovers \in Nat /\ MaxRespawns \in Nat
ASSUME NobodyIsNoInvocation == "nobody" \notin Cli

Daemon == 1..MaxDaemons
NoDaemon == 0
NoLock == [by |-> "nobody"]
Command == {"command", "stop", "connect", "disconnect", "pair"}

VARIABLES stateFile,  \* the daemon in the state file, or NoDaemon
          dm,         \* dm[d]: daemon d
          lockFile,   \* the lock file, or NoLock
          cli,        \* cli[c]: what invocation c is doing
          newBinary,  \* the binary was updated after the daemons of version 1
          faults      \* how many of those so far

startVars == <<stateFile, dm, lockFile, cli, newBinary, faults>>

Unborn == [at |-> "none", headed |-> FALSE, old |-> FALSE, used |-> FALSE, chromium |-> FALSE]
Quiet == [at |-> "new", cmd |-> "command", force |-> FALSE, seen |-> NoDaemon,
          alive |-> FALSE, holds |-> FALSE, count |-> 0, tries |-> 0, switching |-> FALSE,
          headed |-> FALSE]

(* Either nothing runs, or an earlier invocation has left a daemon that has *)
(* been used                                                                *)
StartInit ==
  /\ stateFile \in {NoDaemon, 1} /\ lockFile = NoLock
  /\ \E headed \in BOOLEAN :
       dm = [d \in Daemon |-> IF d = stateFile
               THEN [Unborn EXCEPT !.at = "up", !.headed = headed, !.old = TRUE, !.used = TRUE,
                                   !.chromium = TRUE]
               ELSE Unborn]
  /\ cli = [c \in Cli |-> Quiet]
  /\ newBinary = FALSE /\ faults = 0

Live(d) == d # NoDaemon /\ dm[d].at \in {"booting", "up", "busy", "closing"}
(* A daemon that shuts down goes on answering until its browser is closed   *)
Answers(d) == d # NoDaemon /\ dm[d].at \in {"up", "closing"}
FailsToAnswer(d) == d # NoDaemon => dm[d].at # "up"
Outdated(d) == d # NoDaemon /\ newBinary /\ dm[d].old

In(c, place) == cli[c].at = place
Goes(c, place) == cli' = [cli EXCEPT ![c].at = place]

(* Every way out of ensureServer releases the lock that it holds, by name   *)
LockAfter(c) == IF cli[c].holds THEN NoLock ELSE lockFile
Gone == [Quiet EXCEPT !.at = "gone"]
Ends(c) == cli' = [cli EXCEPT ![c] = Gone]
EndsAndReleases(c) == Ends(c) /\ lockFile' = LockAfter(c)

(* Variants named ...Without... or ...Only... are plausible mistakes in the *)
(* definition that follows them; no specification uses them.                *)
-----------------------------------------------------------------------------
(* main: connect and stop look at the state file before ensureServer does.  *)
(* A headed browser that answers is what connect is for, forced or not; any *)
(* other daemon that is alive is not replaced unless forced.                *)
ConnectPlace(force) ==
  IF (Answers(stateFile) /\ dm[stateFile].headed) \/ (Live(stateFile) /\ ~force)
  THEN "gone" ELSE "killing"

StopPlace(force) ==
  CASE stateFile = NoDaemon                          -> "gone"
    [] stateFile # NoDaemon /\ ~Live(stateFile)      -> "finishing"
    [] Live(stateFile) /\ force                      -> "killing"
    [] OTHER                                         -> "probing"

DisconnectPlace ==
  IF stateFile = NoDaemon \/ ~dm[stateFile].headed THEN "gone"
  ELSE IF Answers(stateFile) THEN "sending"
  ELSE "killing"

Invokes(c, cmd, force) ==
  /\ In(c, "new")
  /\ LET place == CASE cmd = "connect"    -> ConnectPlace(force)
                    [] cmd = "stop"       -> StopPlace(force)
                    [] cmd = "disconnect" -> DisconnectPlace
                    [] OTHER              -> "probing"
     IN IF place = "gone" THEN Ends(c)
        ELSE cli' = [cli EXCEPT ![c] =
               [Quiet EXCEPT !.at = place, !.cmd = cmd, !.force = force,
                             !.seen = stateFile, !.alive = Live(stateFile)]]
  /\ UNCHANGED <<stateFile, dm, lockFile, newBinary, faults>>

AfterStart(c) == CASE cli[c].cmd = "connect" -> "connected"
                   [] cli[c].cmd = "pair"    -> "pairing"
                   [] OTHER                  -> "sending"

Started(c) ==
  cli' = [cli EXCEPT ![c].at = AfterStart(c), ![c].seen = stateFile, ![c].holds = FALSE]

(* ensureServer: the daemon answers, at once or within the bounded probe    *)
ProbeAnswers(c) ==
  /\ In(c, "probing") /\ Answers(cli[c].seen)
  /\ Goes(c, IF Outdated(cli[c].seen) THEN "killing" ELSE AfterStart(c))
  /\ UNCHANGED <<stateFile, dm, lockFile, newBinary, faults>>

ProbeFailsOnlyChecking(c) ==
  /\ In(c, "probing") /\ FailsToAnswer(cli[c].seen)
  /\ Goes(c, "locking")
  /\ UNCHANGED <<stateFile, dm, lockFile, newBinary, faults>>

(* It does not: a process that was alive is busy and stays, unless it is    *)
(* headless and the user forces it                                          *)
ProbeFails(c) ==
  /\ In(c, "probing") /\ FailsToAnswer(cli[c].seen)
  /\ IF cli[c].alive /\ (~cli[c].force \/ (Live(cli[c].seen) /\ dm[cli[c].seen].headed))
     THEN Ends(c) ELSE Goes(c, "locking")
  /\ UNCHANGED <<stateFile, dm, lockFile, newBinary, faults>>
-----------------------------------------------------------------------------
(* acquireServerLock: the file is created, then the pid is written to it    *)
CreatesLock(c) ==
  /\ In(c, "locking") /\ lockFile = NoLock
  /\ lockFile' = [by |-> c, written |-> FALSE, live |-> TRUE]
  /\ Goes(c, "opened")
  /\ UNCHANGED <<stateFile, dm, newBinary, faults>>

WritesPid(c) ==
  /\ In(c, "opened")
  /\ lockFile' = IF lockFile.by = c THEN [lockFile EXCEPT !.written = TRUE] ELSE lockFile
  /\ cli' = [cli EXCEPT ![c].at = "locked", ![c].holds = TRUE, ![c].count = 0]
  /\ UNCHANGED <<stateFile, dm, newBinary, faults>>

(* A lock without a pid, or with the pid of a dead process, is stale        *)
LockIsLive == lockFile # NoLock /\ lockFile.written /\ lockFile.live

ReadsLock(c) ==
  /\ In(c, "locking") /\ lockFile # NoLock
  /\ Goes(c, IF LockIsLive THEN "waiting" ELSE "takeover")
  /\ UNCHANGED <<stateFile, dm, lockFile, newBinary, faults>>

(* The file that is unlinked is whichever has the name by now               *)
UnlinksStaleLock(c) ==
  /\ In(c, "takeover")
  /\ lockFile' = NoLock
  /\ cli' = [cli EXCEPT ![c].count = @ + (IF @ < MaxTakeovers THEN 1 ELSE 0),
                        ![c].at = IF cli[c].count >= MaxTakeovers THEN "waiting" ELSE "locking"]
  /\ UNCHANGED <<stateFile, dm, newBinary, faults>>

(* Another invocation starts the daemon                                     *)
WaitSees(c) ==
  /\ In(c, "waiting") /\ Answers(stateFile)
  /\ Started(c)
  /\ UNCHANGED <<stateFile, dm, lockFile, newBinary, faults>>

WaitTimesOut(c) ==
  /\ In(c, "waiting")
  /\ Ends(c)
  /\ UNCHANGED <<stateFile, dm, lockFile, newBinary, faults>>

(* Under the lock: another invocation may have started it meanwhile; if     *)
(* not, the daemon to kill is the one seen at first                         *)
RereadsState(c) ==
  /\ In(c, "locked")
  /\ IF Answers(stateFile)
     THEN /\ cli' = [cli EXCEPT ![c].at = AfterStart(c), ![c].seen = stateFile, ![c].holds = FALSE]
          /\ lockFile' = LockAfter(c)
     ELSE Goes(c, "killing") /\ UNCHANGED lockFile
  /\ UNCHANGED <<stateFile, dm, newBinary, faults>>
-----------------------------------------------------------------------------
(* killServer: a headed daemon obeys SIGTERM and may remove the state file  *)
(* before SIGKILL; a headless one ignores it.  Chromium may survive.        *)
Kills(c) ==
  LET d == cli[c].seen IN
  /\ In(c, "killing")
  /\ IF Live(d)
     THEN /\ \E survives \in BOOLEAN :
               dm' = [dm EXCEPT ![d].at = "dead", ![d].chromium = survives /\ dm[d].chromium]
          /\ stateFile' \in (IF dm[d].headed THEN {stateFile, NoDaemon} ELSE {stateFile})
     ELSE UNCHANGED <<dm, stateFile>>
  /\ CASE cli[c].cmd = "stop" /\ cli[c].force -> Goes(c, "finishing")
       [] cli[c].cmd = "disconnect" -> Goes(c, "forgetting")
       [] OTHER -> cli' = [cli EXCEPT ![c].at = "reaping", ![c].seen = NoDaemon]
  /\ UNCHANGED <<lockFile, newBinary, faults>>

(* startServer: reapRecordedChromium by the state file as it is now, and    *)
(* killOrphanChromium by the lock of the headed profile.  connect has done  *)
(* the same just before, and unlinked the state file, once.                 *)
Reaped(d) == d = stateFile \/ dm[d].headed

Reaps(c) ==
  /\ In(c, "reaping")
  /\ dm' = [d \in Daemon |-> IF Reaped(d) THEN [dm[d] EXCEPT !.chromium = FALSE] ELSE dm[d]]
  /\ Goes(c, "spawning")
  /\ UNCHANGED <<stateFile, lockFile, newBinary, faults>>

Spawned(headed) == [Unborn EXCEPT !.at = "booting", !.headed = headed, !.old = ~newBinary]

(* A restart after a lost connection keeps the mode of the daemon that was  *)
(* lost; ensureServer knows only the flags of its own invocation            *)
Spawns(c) ==
  LET unborn == {d \in Daemon : dm[d] = Unborn}
      headed == cli[c].cmd = "connect" \/ cli[c].switching \/ cli[c].headed
  IN
  /\ In(c, "spawning")
  /\ stateFile' = NoDaemon
  /\ IF unborn = {} THEN UNCHANGED dm
     ELSE dm' = [dm EXCEPT ![CHOOSE d \in unborn : \A e \in unborn : d <= e] = Spawned(headed)]
  /\ Goes(c, "polling")
  /\ UNCHANGED <<lockFile, newBinary, faults>>

PollSees(c) ==
  /\ In(c, "polling") /\ Answers(stateFile)
  /\ Started(c) /\ lockFile' = LockAfter(c)
  /\ UNCHANGED <<stateFile, dm, newBinary, faults>>

PollFailsWithoutRelease(c) ==
  /\ In(c, "polling")
  /\ Ends(c)
  /\ UNCHANGED <<stateFile, dm, lockFile, newBinary, faults>>

(* MAX_START_WAIT has passed, or the daemon left a startup error            *)
PollFails(c) ==
  /\ In(c, "polling")
  /\ EndsAndReleases(c)
  /\ UNCHANGED <<stateFile, dm, newBinary, faults>>
-----------------------------------------------------------------------------
(* sendCommand: `stop`, and `disconnect` of a headed daemon, make it shut   *)
(* down; the daemon acknowledges first                                      *)
Answered(c) ==
  LET d == cli[c].seen IN
  /\ In(c, "sending") /\ Answers(d)
  /\ dm' = IF cli[c].cmd \in {"stop", "disconnect"} THEN [dm EXCEPT ![d].at = "closing"]
           ELSE [dm EXCEPT ![d].used = TRUE]
  /\ IF cli[c].cmd = "stop" THEN Goes(c, "finishing") ELSE Ends(c)
  /\ UNCHANGED <<stateFile, lockFile, newBinary, faults>>

(* 30 seconds without an answer: reported, whatever the cause               *)
CommandTimesOut(c) ==
  /\ In(c, "sending") /\ FailsToAnswer(cli[c].seen) /\ cli[c].cmd # "disconnect"
  /\ Ends(c)
  /\ UNCHANGED <<stateFile, dm, lockFile, newBinary, faults>>

(* The connection is refused or reset: look at the state file again         *)
Refused(c) ==
  /\ In(c, "sending") /\ FailsToAnswer(cli[c].seen)
  /\ cli' = [cli EXCEPT ![c].at = IF cli[c].cmd = "disconnect" THEN "killing" ELSE "deciding",
                        ![c].seen = IF cli[c].cmd = "disconnect" THEN @ ELSE stateFile,
                        ![c].alive = Live(stateFile),
                        ![c].headed = stateFile # NoDaemon /\ dm[stateFile].headed]
  /\ UNCHANGED <<stateFile, dm, lockFile, newBinary, faults>>

(* decideDaemonRestart, after the bounded probe                             *)
DecideDaemonRestart(c) ==
  CASE cli[c].alive /\ Answers(cli[c].seen) -> "retry"
    [] cli[c].alive /\ ~Answers(cli[c].seen) /\ ~cli[c].force -> "busy"
    [] ~cli[c].alive /\ cli[c].cmd = "stop" -> "stopped"
    [] OTHER -> "restart"

Decides(c) ==
  LET action == DecideDaemonRestart(c) IN
  /\ In(c, "deciding")
  /\ stateFile' = IF action = "stopped" THEN NoDaemon ELSE stateFile
  /\ IF action \in {"busy", "stopped"} \/ cli[c].tries >= 1 THEN Ends(c)
     ELSE cli' = [cli EXCEPT ![c].tries = @ + 1,
                             ![c].at = IF action = "retry" THEN "sending" ELSE "killing"]
  /\ UNCHANGED <<dm, lockFile, newBinary, faults>>

(* stop: the daemon is gone or has agreed to go; reap the Chromium of the   *)
(* record read at first, which a daemon may still be closing                *)
Finishes(c) ==
  LET d == cli[c].seen IN
  /\ In(c, "finishing")
  /\ dm' = [dm EXCEPT ![d].chromium = FALSE]
  /\ stateFile' = IF Live(d) THEN stateFile ELSE NoDaemon
  /\ Ends(c)
  /\ UNCHANGED <<lockFile, newBinary, faults>>

(* disconnect after a forced kill: the orphan of the headed profile         *)
Forgets(c) ==
  /\ In(c, "forgetting")
  /\ dm' = [d \in Daemon |-> IF dm[d].headed THEN [dm[d] EXCEPT !.chromium = FALSE] ELSE dm[d]]
  /\ stateFile' = NoDaemon
  /\ Ends(c)
  /\ UNCHANGED <<lockFile, newBinary, faults>>

(* pair-agent: a daemon that was alive before stays unless forced; any      *)
(* other is replaced by `connect --force-restart`, a process of its own     *)
Pairs(c) ==
  LET stays == dm[cli[c].seen].headed \/ (cli[c].alive /\ ~cli[c].force)
                 \/ ConnectPlace(TRUE) = "gone"
  IN
  /\ In(c, "pairing")
  /\ IF cli[c].switching \/ stays THEN Ends(c)
     ELSE cli' = [cli EXCEPT ![c].at = "killing", ![c].seen = stateFile, ![c].switching = TRUE]
  /\ UNCHANGED <<stateFile, dm, lockFile, newBinary, faults>>

(* connect --supervise stays; a respawn always throws, because serverEnv    *)
(* is declared inside the block that the first start was in                 *)
Connected(c, supervise) ==
  /\ In(c, "connected")
  /\ IF supervise THEN cli' = [cli EXCEPT ![c].at = "supervising", ![c].count = 0] ELSE Ends(c)
  /\ UNCHANGED <<stateFile, dm, lockFile, newBinary, faults>>

SupervisorTicks(c) ==
  /\ In(c, "supervising") /\ ~Live(stateFile)
  /\ IF cli[c].count >= MaxRespawns THEN Ends(c)
     ELSE cli' = [cli EXCEPT ![c].count = @ + 1]
  /\ UNCHANGED <<stateFile, dm, lockFile, newBinary, faults>>

(* SIGTERM, which a headless daemon in the state file would ignore          *)
SupervisorIsStopped(c) ==
  /\ In(c, "supervising")
  /\ dm' = IF Live(stateFile) /\ dm[stateFile].headed /\ dm[stateFile].at # "booting"
           THEN [dm EXCEPT ![stateFile].at = "closing"] ELSE dm
  /\ Ends(c)
  /\ UNCHANGED <<stateFile, lockFile, newBinary, faults>>

InvocationDies(c) ==
  /\ cli[c].at \notin {"new", "gone"} /\ faults < MaxFaults
  /\ faults' = faults + 1
  /\ lockFile' = IF lockFile.by = c THEN [lockFile EXCEPT !.live = FALSE] ELSE lockFile
  /\ Ends(c)
  /\ UNCHANGED <<stateFile, dm, newBinary>>
-----------------------------------------------------------------------------
(* server.ts, as far as the command line can tell: the state file is        *)
(* written last of all, over whatever is there                              *)
Boots(d) ==
  /\ dm[d].at = "booting"
  /\ dm[d].headed => ~\E e \in Daemon \ {d} : dm[e].headed /\ dm[e].at \in {"up", "busy", "closing"}
  /\ dm' = [dm EXCEPT ![d].at = "up", ![d].chromium = TRUE]
  /\ stateFile' = d
  /\ UNCHANGED <<lockFile, cli, newBinary, faults>>

BootFails(d) ==
  /\ dm[d].at = "booting"
  /\ dm' = [dm EXCEPT ![d].at = "dead"]
  /\ UNCHANGED <<stateFile, lockFile, cli, newBinary, faults>>

GetsBusy(d) ==
  /\ dm[d].at = "up" /\ dm' = [dm EXCEPT ![d].at = "busy"]
  /\ faults < MaxFaults /\ faults' = faults + 1
  /\ UNCHANGED <<stateFile, lockFile, cli, newBinary>>

GetsFree(d) ==
  /\ dm[d].at = "busy" /\ dm' = [dm EXCEPT ![d].at = "up"]
  /\ UNCHANGED <<stateFile, lockFile, cli, newBinary, faults>>

IdleTimeout(d) ==
  /\ dm[d].at = "up" /\ ~dm[d].headed
  /\ faults < MaxFaults /\ faults' = faults + 1
  /\ dm' = [dm EXCEPT ![d].at = "closing"]
  /\ UNCHANGED <<stateFile, lockFile, cli, newBinary>>

(* A browser that was killed: headless, the daemon exits on the spot; in    *)
(* headed mode it shuts down                                                *)
LosesBrowser(d) ==
  /\ dm[d].at \in {"up", "busy"} /\ ~dm[d].chromium
  /\ dm' = [dm EXCEPT ![d].at = IF dm[d].headed THEN "closing" ELSE "dead"]
  /\ UNCHANGED <<stateFile, lockFile, cli, newBinary, faults>>

(* shutdown unlinks the state file, whichever daemon it names               *)
Exits(d) ==
  /\ dm[d].at = "closing"
  /\ \E survives \in BOOLEAN :
       dm' = [dm EXCEPT ![d].at = "dead", ![d].chromium = survives /\ dm[d].chromium]
  /\ stateFile' = NoDaemon
  /\ UNCHANGED <<lockFile, cli, newBinary, faults>>

Crashes(d) ==
  /\ dm[d].at \in {"up", "busy"} /\ faults < MaxFaults
  /\ faults' = faults + 1
  /\ dm' = [dm EXCEPT ![d].at = "dead"]
  /\ UNCHANGED <<stateFile, lockFile, cli, newBinary>>

BinaryIsUpdated ==
  /\ ~newBinary /\ newBinary' = TRUE
  /\ faults < MaxFaults /\ faults' = faults + 1
  /\ UNCHANGED <<stateFile, dm, lockFile, cli>>

CliStep(c) ==
  \/ ProbeAnswers(c) \/ ProbeFails(c) \/ CreatesLock(c) \/ WritesPid(c) \/ ReadsLock(c)
  \/ UnlinksStaleLock(c) \/ WaitSees(c) \/ WaitTimesOut(c) \/ RereadsState(c) \/ Kills(c)
  \/ Reaps(c) \/ Spawns(c) \/ PollSees(c) \/ PollFails(c) \/ Answered(c)
  \/ CommandTimesOut(c) \/ Refused(c) \/ Decides(c) \/ Finishes(c) \/ Forgets(c) \/ Pairs(c)

DaemonStep(d) ==
  \/ Boots(d) \/ BootFails(d) \/ GetsBusy(d) \/ GetsFree(d)
  \/ IdleTimeout(d) \/ LosesBrowser(d) \/ Exits(d) \/ Crashes(d)

StartNext ==
  \/ \E c \in Cli : \/ \E cmd \in Command, force \in BOOLEAN : Invokes(c, cmd, force)
                   \/ CliStep(c)
                   \/ \E supervise \in BOOLEAN : Connected(c, supervise)
                   \/ SupervisorTicks(c) \/ SupervisorIsStopped(c) \/ InvocationDies(c)
  \/ \E d \in Daemon : DaemonStep(d)
  \/ BinaryIsUpdated

StartSpec == StartInit /\ [][StartNext]_startVars
-----------------------------------------------------------------------------
StartTypeOK ==
  /\ stateFile \in Daemon \cup {NoDaemon}
  /\ \A d \in Daemon : dm[d] = Unborn \/ dm[d].at \in {"booting", "up", "busy", "closing", "dead"}
  /\ lockFile = NoLock \/ lockFile.by \in Cli
  /\ \A c \in Cli : cli[c].tries \in 0..1 /\ (cli[c].holds => cli[c].at \notin {"new", "gone"})
  /\ faults \in 0..MaxFaults

(* The process of a live daemon is killed only for a user who passed        *)
(* --force-restart or asked for a disconnect, or because ensureServer found *)
(* that daemon, the one it kills, to be of an older binary: however long    *)
(* ago the invocation looked at it, and whatever the state file, the lock   *)
(* and the other invocations did since.  The comment on decideDaemonRestart *)
(* ("The ONLY path that kills a live daemon is the user explicitly passing  *)
(* --force-restart") allows the first alone.  pair-agent is an exception    *)
(* that IronRule shows.                                                     *)
Consents(c) == cli[c].force \/ cli[c].cmd = "disconnect"
MayKill(c) == Consents(c) \/ Outdated(cli[c].seen)
NoUnaskedKill ==
  [][\A c \in Cli : Kills(c) /\ Live(cli[c].seen) /\ ~cli[c].switching => MayKill(c)]_startVars

(* "an alive pid is NEVER auto-killed": a session that the user has worked  *)
(* in is not lost to an invocation without consent, neither its daemon nor  *)
(* its Chromium, even if an update is allowed for.                          *)
IronRule ==
  [][\A c \in Cli, d \in Daemon :
       (Kills(c) \/ Reaps(c)) /\ Live(d) /\ dm[d].used /\ dm[d].chromium /\ ~dm'[d].chromium
         => MayKill(c) \/ cli[c].cmd = "stop"]_startVars

(* A lock file outlives its invocation only when that was killed.           *)
LockIsReturned ==
  lockFile # NoLock /\ lockFile.live =>
    \E c \in Cli : cli[c].holds \/ In(c, "opened")

(* Invocations of the CLI that race to start, restart or stop the daemon    *)
(* return the lock, and kill no live daemon unless they were asked to or    *)
(* found it outdated.                                                       *)
StartCorrect ==
  [](StartTypeOK /\ LockIsReturned) /\ NoUnaskedKill
=============================================================================
