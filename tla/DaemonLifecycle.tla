--------------------------- MODULE DaemonLifecycle ---------------------------
(***************************************************************************)
(* What ends a running daemon (server.ts, browser-manager.ts): the idle    *)
(* timer, the watchdog of the parent process, signals, commands, the loss  *)
(* of Chromium and uncaught exceptions, in headless, headed and tunnel     *)
(* mode; and the shutdown that each of them starts, whose awaits may hang. *)
(***************************************************************************)
EXTENDS Naturals

VARIABLES stage,     \* up, snapshotting, closing or dead
          headed,    \* connectionMode is "headed"
          promoted,  \* headedParentShutdownSuppressed
          tunnel,    \* tunnelActive
          picker,    \* hasActivePicker()
          parent,    \* the process of BROWSE_PARENT_PID is alive
          named,     \* BROWSE_PARENT_PID > 0: the spawner named its process
          watched,   \* the interval of the parent watchdog runs
          idle,      \* no command for IDLE_TIMEOUT_MS
          browser,   \* Chromium is "open", "closed" or "wedged": it answers nothing
          cause      \* what started the shutdown

lifeVars == <<stage, headed, promoted, tunnel, picker, parent, named, watched, idle, browser, cause>>
modes == <<headed, promoted, tunnel, picker, parent, named, watched, idle>>

(* The CLI launches a headed daemon with BROWSE_PARENT_PID=0, and then no   *)
(* watchdog is started                                                      *)
LifeInit ==
  /\ stage = "up" /\ browser = "open" /\ cause = "none"
  /\ headed \in BOOLEAN /\ named \in BOOLEAN /\ (headed => ~named) /\ watched = named
  /\ promoted = FALSE /\ tunnel = FALSE /\ picker = FALSE /\ parent = TRUE /\ idle = FALSE

(* Variants named ...Without... are plausible mistakes in the definition    *)
(* that follows them; no specification uses them.                           *)

(* shutdown, behind the latch isShuttingDown: the agent is stopped, timers  *)
(* are cleared and buffers flushed before the first await that can hang     *)
ShutsDown(why) ==
  /\ stage = "up"
  /\ stage' = "snapshotting" /\ cause' = why
  /\ UNCHANGED <<modes, browser>>

IdleCheckTickWithoutMode ==
  idle /\ ShutsDown("idle")

IdleCheckTickOfOrphans ==
  idle /\ ~headed /\ ~tunnel /\ ~parent /\ ShutsDown("idle")

IdleCheckTick ==
  idle /\ ~headed /\ ~tunnel /\ ShutsDown("idle")

(* Only a dead parent matters, and then only in headed or tunnel mode       *)
ParentWatchdogTick ==
  /\ watched /\ ~parent /\ ~picker
  /\ (headed /\ ~promoted) \/ tunnel
  /\ ShutsDown("parent")

Sigterm ==
  /\ ~picker /\ (headed \/ tunnel)
  /\ ShutsDown("signal")

(* SIGINT, SIGHUP, `stop`, `restart` and `disconnect`                       *)
UserStops(byDisconnect) == (byDisconnect => headed) /\ ShutsDown("user")

(* disconnected: a headless daemon exits at once and flushes nothing, a     *)
(* headed one shuts down; once close() has removed the listeners nothing    *)
(* happens                                                                  *)
BrowserDisconnects ==
  /\ browser # "closed" /\ stage \in {"up", "snapshotting"}
  /\ browser' = "closed"
  /\ IF headed
     THEN IF stage = "up" THEN stage' = "snapshotting" /\ cause' = "browser"
          ELSE UNCHANGED <<stage, cause>>
     ELSE stage' = "dead" /\ cause' = "browser"
  /\ UNCHANGED modes

(* emergencyCleanup, behind the same latch, then exit                       *)
UncaughtException ==
  /\ stage # "dead" /\ stage' = "dead"
  /\ cause' = IF stage = "up" THEN "exception" ELSE cause
  /\ UNCHANGED <<modes, browser>>

(* The final snapshot answers, or its two seconds pass                      *)
FinalSnapshotDone ==
  /\ stage = "snapshotting" /\ browser # "wedged"
  /\ stage' = "closing"
  /\ UNCHANGED <<modes, browser, cause>>

SnapshotDeadlineWithoutRace == FALSE /\ UNCHANGED lifeVars

SnapshotDeadline ==
  /\ stage = "snapshotting" /\ browser = "wedged"
  /\ stage' = "closing"
  /\ UNCHANGED <<modes, browser, cause>>

(* close() ends, or after five seconds a headless Chromium gets SIGKILL and *)
(* a headed one is left behind                                              *)
BrowserCloses ==
  /\ stage = "closing" /\ browser # "wedged"
  /\ stage' = "dead" /\ browser' = "closed"
  /\ UNCHANGED <<modes, cause>>

CloseDeadline ==
  /\ stage = "closing" /\ browser = "wedged"
  /\ stage' = "dead" /\ browser' = IF headed THEN "wedged" ELSE "closed"
  /\ UNCHANGED <<modes, cause>>
-----------------------------------------------------------------------------
While(change) == stage = "up" /\ change /\ UNCHANGED <<stage, browser, cause>>

HandoffPromotesWithoutWatchdog ==
  While(/\ ~headed /\ headed' = TRUE /\ promoted' = TRUE /\ watched' = FALSE
        /\ UNCHANGED <<tunnel, picker, parent, named, idle>>)

(* handoff calls suppressHeadedParentShutdown                               *)
HandoffPromotes ==
  While(/\ ~headed /\ headed' = TRUE /\ promoted' = TRUE
        /\ UNCHANGED <<tunnel, picker, parent, named, watched, idle>>)

TunnelChanges ==
  While(tunnel' = ~tunnel /\ UNCHANGED <<headed, promoted, picker, parent, named, watched, idle>>)

PickerChanges ==
  While(picker' = ~picker /\ UNCHANGED <<headed, promoted, tunnel, parent, named, watched, idle>>)

ParentExits ==
  While(parent /\ parent' = FALSE /\ UNCHANGED <<headed, promoted, tunnel, picker, named, watched, idle>>)

(* resetIdleTimer, and the timeout                                          *)
IdleChanges ==
  While(idle' = ~idle /\ UNCHANGED <<headed, promoted, tunnel, picker, parent, named, watched>>)

BrowserWedges ==
  /\ browser = "open" /\ browser' = "wedged"
  /\ UNCHANGED <<stage, modes, cause>>

Timers == IdleCheckTick \/ ParentWatchdogTick
Teardown == FinalSnapshotDone \/ SnapshotDeadline \/ BrowserCloses \/ CloseDeadline

LifeNext ==
  \/ Timers \/ Teardown \/ Sigterm \/ BrowserDisconnects \/ UncaughtException
  \/ \E byDisconnect \in BOOLEAN : UserStops(byDisconnect)
  \/ HandoffPromotes \/ TunnelChanges \/ PickerChanges \/ ParentExits \/ IdleChanges \/ BrowserWedges

LifeSpec == LifeInit /\ [][LifeNext]_lifeVars
-----------------------------------------------------------------------------
LifeTypeOK ==
  /\ stage \in {"up", "snapshotting", "closing", "dead"}
  /\ browser \in {"open", "closed", "wedged"}
  /\ (cause = "none") = (stage = "up")
  /\ promoted => headed
  /\ watched => named

(* A browser that was handed to the user is not shut down behind his back:  *)
(* without a tunnel only a signal, a command or the end of the browser ends *)
(* the daemon, not the timers, although the same daemon was started         *)
(* headless by a shell that is long gone.                                   *)
HandoffIsKept ==
  [][stage = "up" /\ stage' # "up" /\ promoted /\ ~tunnel =>
       cause' \in {"signal", "user", "browser", "exception"}]_lifeVars

(* Nobody leaves a tunnel open: when the process that started a daemon is   *)
(* gone for good, the daemon does not keep its tunnel, handed off or not,   *)
(* unless a cookie picker is in use.                                        *)
OrphanTunnelEnds ==
  ~<>[](stage = "up" /\ named /\ ~parent /\ tunnel /\ ~picker)

(* A headless daemon that nobody uses ends.                                 *)
IdleDaemonEnds == ~<>[](stage = "up" /\ idle /\ ~headed /\ ~tunnel)

(* A shutdown ends, even with a Chromium that answers nothing.              *)
ShutdownEnds == stage = "snapshotting" ~> stage = "dead"

(* The timers end only a daemon that has no one left.                       *)
DaemonLivesOn == []LifeTypeOK /\ HandoffIsKept
=============================================================================
