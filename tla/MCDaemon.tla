------------------------------ MODULE MCDaemon ------------------------------
(* The parts of the daemon outside its browser share no state, so they are  *)
(* checked side by side: a behaviour picks one of them at the start, its    *)
(* focus, and the others stay as they begin.  Two command-line invocations, *)
(* requests, connections, display users, skill operations and stagings      *)
(* each, two style requests, and three writers of the egress ledger, one of *)
(* which may crash; two daemons in a row, one fault and one takeover by a   *)
(* headed browser; rings, rows and histories of two, so that each overflows; *)
(* two requests to the cookie picker over two sites, the context being      *)
(* replaced on macOS only.                                                  *)
EXTENDS DaemonStart, DaemonFiles, Tunnel, SocksBridge, Xvfb, EgressLedger, Skills,
        CssInspector, CookiePicker, TLC

(* Invocations, operations and style requests are alike; no property is a   *)
(* liveness one.                                                            *)
Symmetry == Permutations(Cli) \cup Permutations(Op) \cup Permutations(CssReq)

VARIABLE focus  \* the part under study

daemonVars == <<focus, startVars, persistVars, tunnelVars, socksVars, flushVars, xvfbVars,
                ledgerVars, skillVars, cssVars, skillFileVars, pickerVars>>

Parts == {"start", "persist", "tunnel", "socks", "logs", "xvfb", "ledger", "skills", "styles",
          "files", "picker"}

DaemonInit ==
  /\ focus \in Parts
  /\ StartInit /\ PersistInit /\ TunnelInit /\ SocksInit /\ FlushInit /\ XvfbInit
  /\ LedgerInit /\ SkillInit /\ CssInit /\ FilesInit /\ PickerInit
  /\ focus # "start" => stateFile = NoDaemon /\ ~dm[1].headed
  /\ focus # "files" => \A w \in Staging : staging[w].tier = First(Tier)
  /\ focus # "picker" => platform = "linux"

(* --force-restart comes with commands that start or stop the daemon       *)
ForcesToStart == \A c \in Cli : cli'[c].force => cli'[c].cmd \in {"command", "stop", "connect"}

(* Style requests overlap while at most one change has been made            *)
FewOverlap == (\A o \in CssReq : req'[o] # NoReq) => pushed' <= 1

Runs(f) ==
  /\ focus = f /\ UNCHANGED focus
  /\ IF f = "start"   THEN TRUE ELSE UNCHANGED startVars
  /\ IF f = "persist" THEN TRUE ELSE UNCHANGED persistVars
  /\ IF f = "tunnel"  THEN TRUE ELSE UNCHANGED tunnelVars
  /\ IF f = "socks"   THEN TRUE ELSE UNCHANGED socksVars
  /\ IF f = "logs"    THEN TRUE ELSE UNCHANGED flushVars
  /\ IF f = "xvfb"    THEN TRUE ELSE UNCHANGED xvfbVars
  /\ IF f = "ledger"  THEN TRUE ELSE UNCHANGED ledgerVars
  /\ IF f = "skills"  THEN TRUE ELSE UNCHANGED skillVars
  /\ IF f = "styles"  THEN TRUE ELSE UNCHANGED cssVars
  /\ IF f = "files"   THEN TRUE ELSE UNCHANGED skillFileVars
  /\ IF f = "picker"  THEN TRUE ELSE UNCHANGED pickerVars

DaemonNext ==
  \/ Runs("start")   /\ StartNext /\ ForcesToStart
  \/ Runs("persist") /\ PersistNext
  \/ Runs("tunnel")  /\ TunnelNext
  \/ Runs("socks")   /\ SocksNext
  \/ Runs("logs")    /\ FlushNext
  \/ Runs("xvfb")    /\ XvfbNext
  \/ Runs("ledger")  /\ LedgerNext
  \/ Runs("skills")  /\ SkillNext
  \/ Runs("styles")  /\ CssNext /\ FewOverlap
  \/ Runs("files")   /\ FilesNext
  \/ Runs("picker")  /\ PickerNext /\ (saving' => platform = "darwin")

DaemonSpec == DaemonInit /\ [][DaemonNext]_daemonVars
=============================================================================
