------------------------------ MODULE MCHooks ------------------------------
(* The hook scripts and the installer read no state of one another, so they *)
(* are checked side by side: a behaviour picks one of them at the start,    *)
(* its focus, and the others stay as they begin.  Two overlapping runs,     *)
(* sessions, editors or worktrees each; budgets of three or five iterations *)
(* and two or three versions, notes or days, so that every gate is reached; *)
(* one kill.                                                                *)
EXTENDS LoopRunner, RalphLoop, Installer, ToolGates, SessionNotes, TLC

ShipsIn == (1 :> {"hookA", "hookB", "skill"}) @@ (2 :> {"hookA", "skill"})
PlacesIn == LET first == ("hookA" :> "onBash") @@ ("hookB" :> "onEdit") IN
            (1 :> first) @@ (2 :> [first EXCEPT !["hookA"] = "onEdit"])
PackageOfScript == ("f1" :> "p1") @@ ("f2" :> "none")
ProjectOfTree == ("w1" :> "app") @@ ("w2" :> "app")

VARIABLE focus  \* the script under study

hookVars == <<focus, vars, loopVars, instVars, editVars, shipVars, stopVars, notesVars>>

Scripts == {"runner", "ralph", "install", "edit", "ship", "stop", "notes"}

HooksInit ==
  /\ focus \in Scripts
  /\ Init /\ LoopInit /\ InstInit /\ EditInit /\ ShipInit /\ StopInit /\ NotesInit
  /\ focus # "install" => settings = {}
  /\ focus # "edit" => onDisk = {}
  /\ focus # "ship" => remoteHas = 1 /\ upstream = 1 /\ onTrunk
  /\ focus # "stop" => inGit = {}

(* Only the script f moves *)
Runs(f) ==
  /\ focus = f /\ UNCHANGED focus
  /\ IF f = "runner"  THEN TRUE ELSE UNCHANGED vars
  /\ IF f = "ralph"   THEN TRUE ELSE UNCHANGED loopVars
  /\ IF f = "install" THEN TRUE ELSE UNCHANGED instVars
  /\ IF f = "edit"    THEN TRUE ELSE UNCHANGED editVars
  /\ IF f = "ship"    THEN TRUE ELSE UNCHANGED shipVars
  /\ IF f = "stop"    THEN TRUE ELSE UNCHANGED stopVars
  /\ IF f = "notes"   THEN TRUE ELSE UNCHANGED notesVars

HooksNext ==
  \/ Runs("runner")  /\ Next
  \/ Runs("ralph")   /\ LoopNext
  \/ Runs("install") /\ InstNext
  \/ Runs("edit")    /\ EditNext
  \/ Runs("ship")    /\ ShipNext
  \/ Runs("stop")    /\ StopNext
  \/ Runs("notes")   /\ NotesNext

(* Sessions go on stopping, and a run that is not killed ends.              *)
HooksFair ==
  /\ \A h \in Hook : WF_vars(focus = "runner" /\ HookStep(h))
  /\ \A s \in Session : /\ WF_loopVars(focus = "ralph" /\ SessionStops(s))
                        /\ WF_loopVars(focus = "ralph" /\ TruncatesLoopFile(s))
                        /\ WF_loopVars(focus = "ralph" /\ WritesLoopFile(s))

HooksSpec == HooksInit /\ [][HooksNext]_hookVars /\ HooksFair

(* The overnight loop ends, whatever runs overlap or are killed.            *)
RunnerEnds == focus = "runner" => LoopEnds

(* The goal loop ends, unless runs for ever read the file while another     *)
(* rewrites it.                                                             *)
RalphEnds == focus = "ralph" => LoopSettles

(* Both loops end.                                                          *)
LoopsEnd == RunnerEnds /\ RalphEnds
=============================================================================
