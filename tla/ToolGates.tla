----------------------------- MODULE ToolGates ------------------------------
(***************************************************************************)
(* The hooks that stand before or after one tool call: the guards of reads *)
(* and edits, the gate before a push, and the verification at a stop.      *)
(***************************************************************************)
EXTENDS Integers, FiniteSets, Sequences

(* The hooks around reads and edits: gateguard-track-read.js (after a      *)
(* Read), gateguard-pre-edit.js and write-shrink-guard.js (before an Edit  *)
(* or a Write).  A session issues tool calls in parallel, so two instances *)
(* of a hook work on the same tracking file or sentinel, and parallel      *)
(* sessions without an id share the key "shared".                          *)
(*                                                                         *)
(* All paths are curated artifacts, where both guards act; a Write either  *)
(* keeps a file or shrinks it below the floor.                             *)

CONSTANTS Path, Key,
          ToolCall,     \* tool calls that can be in flight
          MaxSentinels  \* bound: sentinels that users create

VARIABLES tracked,    \* tracked[k]: the lines of .gateguard-reads-k
          stale,      \* stale[k]: that file is older than four hours
          onDisk,     \* the paths that exist
          sentinel,   \* the paths with a .allow-shrink- file
          toolCall,   \* toolCall[c]: the hook that tool call c is in
          everRead,   \* history: everRead[k], what sessions of key k have read
          allowed,    \* history: how many sentinels were created
          shrunk,     \* history: how many shrinking Writes went through, sharing no sentinel
          blind,      \* history: some edit hit a file that its session had not read
          standing    \* history: the sentinels that could not be removed after use

editVars == <<tracked, stale, onDisk, sentinel, toolCall, everRead, allowed, shrunk,
              blind, standing>>

NoToolCall == [at |-> "idle"]
Reading(at, k, p) == [at |-> at, key |-> k, path |-> p]
Editing(at, k, p, shrinks) ==
  [at |-> at, key |-> k, path |-> p, shrinks |-> shrinks, existed |-> p \in onDisk,
   shares |-> FALSE]
Moves(c, call) == toolCall' = [toolCall EXCEPT ![c] = call]

EditInit ==
  /\ tracked = [k \in Key |-> {}] /\ stale = [k \in Key |-> FALSE]
  /\ onDisk \in SUBSET Path /\ sentinel = {}
  /\ toolCall = [c \in ToolCall |-> NoToolCall]
  /\ everRead = [k \in Key |-> {}]
  /\ allowed = 0 /\ shrunk = 0 /\ blind = FALSE /\ standing = {}

(* Variants named ...Without... are plausible mistakes in the definition    *)
(* that follows them; no specification uses them.                           *)

(* After a Read: look at the age of the tracking file first                 *)
TracksRead(c, k, p) ==
  /\ toolCall[c].at = "idle" /\ p \in onDisk
  /\ Moves(c, Reading(IF stale[k] /\ tracked[k] # {} THEN "expiring" ELSE "recording", k, p))
  /\ everRead' = [everRead EXCEPT ![k] = @ \cup {p}]
  /\ UNCHANGED <<tracked, stale, onDisk, sentinel, allowed, shrunk, blind, standing>>

(* unlinkSync; when another instance was faster it throws and the hook dies *)
Expires(c) ==
  /\ toolCall[c].at = "expiring"
  /\ LET k == toolCall[c].key IN
     /\ tracked' = [tracked EXCEPT ![k] = {}]
     /\ stale' = [stale EXCEPT ![k] = FALSE]
     /\ Moves(c, IF tracked[k] = {} THEN NoToolCall ELSE [toolCall[c] EXCEPT !.at = "recording"])
  /\ UNCHANGED <<onDisk, sentinel, everRead, allowed, shrunk, blind, standing>>

Records(c) ==
  /\ toolCall[c].at = "recording"
  /\ tracked' = [tracked EXCEPT ![toolCall[c].key] = @ \cup {toolCall[c].path}]
  /\ stale' = [stale EXCEPT ![toolCall[c].key] = FALSE]
  /\ Moves(c, NoToolCall)
  /\ UNCHANGED <<onDisk, sentinel, everRead, allowed, shrunk, blind, standing>>

FourHoursPass(k) ==
  /\ tracked[k] # {} /\ stale' = [stale EXCEPT ![k] = TRUE]
  /\ UNCHANGED <<tracked, onDisk, sentinel, toolCall, everRead, allowed, shrunk, blind, standing>>

(* hasBeenRead: the age of the tracking file plays no part here             *)
MayEditWithoutTracking(k, p) == p \notin onDisk \/ tracked[k] # {}

MayEdit(k, p) == p \notin onDisk \/ p \in tracked[k]

(* Before an Edit or Write: gateguard                                       *)
AsksToEdit(c, k, p, shrinks) ==
  /\ toolCall[c].at = "idle" /\ MayEdit(k, p)
  /\ Moves(c, Editing(IF shrinks /\ p \in onDisk THEN "judging" ELSE "permitted", k, p,
                      shrinks /\ p \in onDisk))
  /\ UNCHANGED <<tracked, stale, onDisk, sentinel, everRead, allowed, shrunk, blind, standing>>

(* write-shrink-guard: existsSync finds the sentinel, or blocks the Write.   *)
(* The call shares it when another has found it and not yet removed it, or  *)
(* could not.                                                               *)
Shares(c) ==
  LET p == toolCall[c].path IN
  p \in standing \/ \E d \in ToolCall \ {c} : toolCall[d].at = "disarming" /\ toolCall[d].path = p

JudgesShrink(c) ==
  /\ toolCall[c].at = "judging"
  /\ IF toolCall[c].path \in sentinel
     THEN Moves(c, [toolCall[c] EXCEPT !.at = "disarming", !.shares = Shares(c)])
     ELSE Moves(c, NoToolCall)
  /\ UNCHANGED <<tracked, stale, onDisk, sentinel, everRead, allowed, shrunk, blind, standing>>

(* unlinkSync of the sentinel, "best effort"                                *)
DisarmsNothing(c) ==
  /\ toolCall[c].at = "disarming"
  /\ Moves(c, [toolCall[c] EXCEPT !.at = "permitted"])
  /\ UNCHANGED <<tracked, stale, onDisk, sentinel, everRead, allowed, shrunk, blind, standing>>

Disarms(c) ==
  /\ toolCall[c].at = "disarming"
  /\ sentinel' = sentinel \ {toolCall[c].path}
  /\ standing' = standing \ {toolCall[c].path}
  /\ Moves(c, [toolCall[c] EXCEPT !.at = "permitted"])
  /\ UNCHANGED <<tracked, stale, onDisk, everRead, allowed, shrunk, blind>>

(* It fails, and the Write goes through all the same                        *)
CannotDisarm(c) ==
  /\ toolCall[c].at = "disarming" /\ toolCall[c].path \in sentinel
  /\ standing' = standing \cup {toolCall[c].path}
  /\ Moves(c, [toolCall[c] EXCEPT !.at = "permitted"])
  /\ UNCHANGED <<tracked, stale, onDisk, sentinel, everRead, allowed, shrunk, blind>>

(* The tool changes the file                                                *)
Edits(c) ==
  LET call == toolCall[c] IN
  /\ call.at = "permitted"
  /\ blind' = (blind \/ (call.existed /\ call.path \notin everRead[call.key]))
  /\ shrunk' = IF call.shrinks /\ ~call.shares /\ shrunk <= MaxSentinels THEN shrunk + 1 ELSE shrunk
  /\ onDisk' = onDisk \cup {call.path}
  /\ Moves(c, NoToolCall)
  /\ UNCHANGED <<tracked, stale, sentinel, everRead, allowed, standing>>

UserAllowsShrink(p) ==
  /\ p \notin sentinel /\ allowed < MaxSentinels
  /\ sentinel' = sentinel \cup {p} /\ allowed' = allowed + 1
  /\ UNCHANGED <<tracked, stale, onDisk, toolCall, everRead, shrunk, blind, standing>>

EditNext ==
  \/ \E c \in ToolCall, k \in Key, p \in Path :
       TracksRead(c, k, p) \/ \E shrinks \in BOOLEAN : AsksToEdit(c, k, p, shrinks)
  \/ \E c \in ToolCall : Expires(c) \/ Records(c) \/ JudgesShrink(c) \/ Edits(c)
                            \/ Disarms(c) \/ CannotDisarm(c)
  \/ \E k \in Key : FourHoursPass(k)
  \/ \E p \in Path : UserAllowsShrink(p)

EditSpec == EditInit /\ [][EditNext]_editVars
-----------------------------------------------------------------------------
EditTypeOK ==
  /\ tracked \in [Key -> SUBSET Path] /\ stale \in [Key -> BOOLEAN]
  /\ onDisk \subseteq Path /\ sentinel \subseteq Path
  /\ \A c \in ToolCall : toolCall[c].at \in {"idle", "expiring", "recording", "judging",
                                              "disarming", "permitted"}

(* "Only edits to existing files require a prior Read in this session": no  *)
(* edit hits a file that existed when it was judged and was never read.     *)
NoBlindEdit == ~blind

(* "that sentinel is consumed once": as many Writes shrink a file as users  *)
(* made sentinels, not counting a Write that was judged between existsSync  *)
(* and unlinkSync of another on the same path, or after an unlinkSync that  *)
(* failed.  Those do get through, against what the message says; a sentinel *)
(* that is gone serves no Write that is judged later.                       *)
SentinelIsConsumedOnce == shrunk <= allowed

(* Parallel tool calls get past the edit guards only with a prior Read and  *)
(* a sentinel of their own, or one that another is just using up.           *)
EditGuardsSafe ==
  EditTypeOK /\ NoBlindEdit /\ SentinelIsConsumedOnce
-----------------------------------------------------------------------------
(* ship-gate.js: what the hook before a `git push` (or `gh pr create`)     *)
(* looks at, against what the push publishes.  The hook runs before the    *)
(* Bash command does, and scans the added lines between the base it finds  *)
(* and HEAD.                                                               *)
(*                                                                         *)
(* A commit maps each file to the one flaw it holds, or NoFlaw.  The files *)
(* stand for the classes of path that the rules tell apart.  A root commit *)
(* holds none.                                                             *)

CONSTANTS MaxCommits  \* bound: commits of the branch after the first

ASSUME MaxCommitsIsNat == MaxCommits \in Nat

Class == {"source", "script", "doc", "test", "vendored", "manifest"}
NoFlaw == "none"
Flaw == {"secret", "consolelog", "debugger", "todo", "vulnerable"}

VARIABLES commits,    \* the branch, from its first commit
          remoteHas,  \* how many of them the remote has
          upstream,   \* the commit of the branch's upstream, 0 when it has none
          origin,     \* the commit up to which origin/HEAD, main or master has them, or 0
          local,      \* the same for the local main or master
          onTrunk,    \* the branch is that main or master
          excuses,    \* history: what kept the hook from seeing all of the last push
          leaked      \* history: <<flaw, file>> that the last push added to the remote

shipVars == <<commits, remoteHas, upstream, origin, local, onTrunk, excuses, leaked>>

CleanTree == [f \in Class |-> NoFlaw]
HeadCommit == commits[Len(commits)]

(* A clone or a new repository, on main or on a branch that no other name   *)
(* tells apart                                                              *)
ShipInit ==
  /\ commits = <<CleanTree>> /\ remoteHas \in {0, 1}
  /\ upstream \in {0, remoteHas}
  /\ onTrunk \in BOOLEAN
  /\ origin = (IF onTrunk THEN remoteHas ELSE 0)
  /\ local = (IF onTrunk THEN 1 ELSE 0)
  /\ excuses = {} /\ leaked = {}

(* Variants named ...Of... or ...With... are plausible mistakes in the      *)
(* definition that follows them; no specification uses them.                *)

(* Where a flaw can be: a dependency with a known vulnerability is in a     *)
(* manifest, the others are lines of text                                   *)
CanHold(f, flaw) == (f = "manifest") = (flaw = "vulnerable")

(* rulesForFile, isVendored and the exemption of command-line programs      *)
Rules(f) ==
  CASE f = "test" -> {}
    [] f \in {"doc", "vendored"} -> {"secret"}
    [] f = "script" -> {"secret", "debugger", "todo"}
    [] OTHER -> {"secret", "consolelog", "debugger", "todo"}

(* scanDiff looks at added lines only                                       *)
Findings(from, to) ==
  {<<to[f], f>> : f \in {f \in Class : to[f] # NoFlaw /\ to[f] # from[f] /\ to[f] \in Rules(f)}}

(* The audit runs when the diff touches a manifest, on the whole tree       *)
Vulnerable(from, to) == to["manifest"] # from["manifest"] /\ to["manifest"] = "vulnerable"

(* outgoingDiff: the upstream, else the first base branch there is, which   *)
(* may be a local one and the very branch, else the last commit             *)
LastCommit == IF Len(commits) = 1 THEN 1 ELSE Len(commits) - 1

BaseOfLastCommit == IF upstream # 0 THEN upstream ELSE LastCommit

OutgoingBase ==
  IF upstream # 0 THEN upstream
  ELSE IF origin # 0 THEN origin
  ELSE IF local # 0 THEN local
  ELSE LastCommit

(* An audit that cannot run finds nothing                                   *)
GatePasses(audits) ==
  /\ Findings(commits[OutgoingBase], HeadCommit) = {}
  /\ audits => ~Vulnerable(commits[OutgoingBase], HeadCommit)

(* The branch with one more commit, and a local main that goes along        *)
Grows(f, flaw) ==
  /\ Len(commits) <= MaxCommits
  /\ commits' = Append(commits, [HeadCommit EXCEPT ![f] = flaw])
  /\ local' = IF onTrunk THEN Len(commits) + 1 ELSE local

Commits(f, flaw) ==
  /\ flaw = NoFlaw \/ CanHold(f, flaw)
  /\ Grows(f, flaw)
  /\ UNCHANGED <<remoteHas, upstream, origin, onTrunk, excuses, leaked>>

(* git checkout -b: what was main stays behind                              *)
Branches ==
  /\ onTrunk /\ onTrunk' = FALSE /\ upstream' = 0
  /\ UNCHANGED <<commits, remoteHas, origin, local, excuses, leaked>>

(* What the tip of `branch` has that no commit of the remote has and the    *)
(* rules forbid                                                             *)
Adds(branch) ==
  LET tip == branch[Len(branch)]
      new == {f \in Class : tip[f] # NoFlaw /\ \A i \in 1..remoteHas : commits[i][f] # tip[f]}
  IN {<<tip[f], f>> : f \in {f \in new : tip[f] \in Rules(f) \/ tip[f] = "vulnerable"}}

NoRemoteBranch == upstream = 0 /\ origin = 0
Excuses(audits) ==
  (IF NoRemoteBranch THEN {"no remote branch"} ELSE {}) \cup (IF audits THEN {} ELSE {"no audit"})

(* The remote gets the branch; -u makes it the upstream                     *)
Publishes(branch) ==
  /\ leaked' = Adds(branch) /\ remoteHas' = Len(branch)
  /\ upstream' \in {upstream, Len(branch)}
  /\ origin' = IF onTrunk THEN Len(branch) ELSE origin

GitPush(audits) ==
  /\ GatePasses(audits) /\ Publishes(commits)
  /\ excuses' = Excuses(audits)
  /\ UNCHANGED <<commits, local, onTrunk>>

(* `git commit && git push`: one Bash command, judged before it commits     *)
CommitAndPush(f, flaw, audits) ==
  /\ GatePasses(audits) /\ CanHold(f, flaw)
  /\ Grows(f, flaw) /\ Publishes(commits')
  /\ excuses' = Excuses(audits) \cup {"compound"}
  /\ UNCHANGED onTrunk

ShipNext ==
  \/ \E f \in Class, flaw \in Flaw \cup {NoFlaw} : Commits(f, flaw)
  \/ Branches
  \/ \E audits \in BOOLEAN :
       GitPush(audits) \/ \E f \in Class, flaw \in Flaw : CommitAndPush(f, flaw, audits)

ShipSpec == ShipInit /\ [][ShipNext]_shipVars
-----------------------------------------------------------------------------
ShipTypeOK ==
  /\ \A i \in 1..Len(commits) : commits[i] \in [Class -> Flaw \cup {NoFlaw}]
  /\ {remoteHas, upstream, origin, local} \subseteq 0..Len(commits)

(* "everything on this branch the remote does not have": what the tip of a  *)
(* push adds to the remote was scanned, all of it and not only the last     *)
(* commit, as long as there is an upstream or an origin branch.  It is not  *)
(* when the same command made the commit, and not when there is neither:    *)
(* then the base is a local branch that the remote need not have, on a      *)
(* first push of main the pushed branch itself, or the last commit.  A      *)
(* known vulnerability also passes when the audit does not run.             *)
PushedTipIsScanned ==
  \/ excuses \cap {"compound", "no remote branch"} # {}
  \/ leaked \subseteq (IF "no audit" \in excuses THEN {<<"vulnerable", "manifest">>} ELSE {})

(* ship-gate.js looks at all that a push publishes when it knows a branch   *)
(* of the remote.                                                           *)
ShipGateSafe ==
  ShipTypeOK /\ PushedTipIsScanned
-----------------------------------------------------------------------------
(* stop-verify.js: when a session stops, ruff, mypy and pytest run over    *)
(* the Python files it changed, and a failure sends the session back to    *)
(* work.  Several sessions share one working tree; an edit made through    *)
(* Bash is not in any transcript.                                          *)

CONSTANTS Editor,     \* sessions
          Script,     \* Python files
          Package,    \* Package[f]: the workspace package of a file that has tests, or NoPackage
          NoPackage

Tool == {"ruff", "mypy", "pytest"}

VARIABLES inGit,      \* the files that git tracks
          modified,   \* those of them that differ from HEAD
          missing,    \* the files that are not there
          fails,      \* fails[f]: the tools that fail because of file f
          editedBy,   \* editedBy[e]: the files in the transcript of e
          byBash,     \* the files edited through Bash
          verdict     \* of the last stop: the tool that failed, "passed", "skipped" or "none"

stopVars == <<inGit, modified, missing, fails, editedBy, byBash, verdict>>

(* Some files are committed, the others not yet made                        *)
StopInit ==
  /\ inGit \in SUBSET Script /\ missing = Script \ inGit
  /\ modified = {} /\ byBash = {}
  /\ fails = [f \in Script |-> {}]
  /\ editedBy = [e \in Editor |-> {}]
  /\ verdict = "none"

(* Variants named ...Without... are plausible mistakes in the definition    *)
(* that follows them; no specification uses them.                           *)

(* `git diff --name-only HEAD` leaves out files that were never added       *)
Touched(f) == modified' = IF f \in inGit THEN modified \cup {f} ELSE modified

(* A session leaves a file with the failures T, by an edit tool or by Bash  *)
EditsScript(e, f, T, bash) ==
  /\ Touched(f) /\ missing' = missing \ {f}
  /\ fails' = [fails EXCEPT ![f] = T]
  /\ byBash' = IF bash THEN byBash \cup {f} ELSE byBash
  /\ editedBy' = IF bash THEN editedBy ELSE [editedBy EXCEPT ![e] = @ \cup {f}]
  /\ UNCHANGED <<inGit, verdict>>

(* A new file that is added and deleted again stays in `modified` here      *)
DeletesScript(f) ==
  /\ Touched(f) /\ missing' = missing \cup {f}
  /\ fails' = [fails EXCEPT ![f] = {}]
  /\ byBash' = byBash \cup {f}
  /\ UNCHANGED <<inGit, editedBy, verdict>>

(* git add of a new file, which then differs from HEAD                      *)
GitAdds(f) ==
  /\ f \notin inGit \cup missing
  /\ inGit' = inGit \cup {f} /\ modified' = modified \cup {f}
  /\ UNCHANGED <<missing, fails, editedBy, byBash, verdict>>

(* git commit: what is committed differs no longer                          *)
GitCommits(f) ==
  /\ f \in modified
  /\ modified' = modified \ {f} /\ inGit' = inGit \ (missing \cap {f})
  /\ UNCHANGED <<missing, fails, editedBy, byBash, verdict>>

ChangedWithoutFallback(e, readable) == modified \cap editedBy[e]

(* sessionEditedFiles: without a transcript, everything git reports         *)
ChangedByAnyone(e, readable) == modified

Changed(e, readable) == IF readable THEN modified \cap editedBy[e] ELSE modified

(* What each tool is run over: ruff over the tree, mypy over the changed    *)
(* files that are still there, pytest over the packages with tests that     *)
(* changed files are in, or over the tree when there is none                *)
Targets(tool, changed) ==
  LET packages == {Package[f] : f \in changed} \ {NoPackage} IN
  CASE tool = "mypy"   -> changed \ missing
    [] tool = "pytest" -> IF packages = {} THEN Script ELSE {f \in Script : Package[f] \in packages}
    [] tool = "ruff"   -> Script

Failing(tool, changed) == \E f \in Targets(tool, changed) : tool \in fails[f]

(* A tool that is not installed is skipped; the first that fails decides    *)
FirstFailure(changed, installed) ==
  CASE "ruff"   \in installed /\ Failing("ruff", changed)   -> "ruff"
    [] "mypy"   \in installed /\ Failing("mypy", changed)
                /\ ~("ruff" \in installed /\ Failing("ruff", changed)) -> "mypy"
    [] "pytest" \in installed /\ Failing("pytest", changed)
                /\ \A t \in {"ruff", "mypy"} : ~(t \in installed /\ Failing(t, changed)) -> "pytest"
    [] OTHER -> "passed"

Stop(e, readable, installed) ==
  /\ verdict' = IF Changed(e, readable) = {} THEN "skipped"
                ELSE FirstFailure(Changed(e, readable), installed)
  /\ UNCHANGED <<inGit, modified, missing, fails, editedBy, byBash>>

StopNext ==
  \/ \E e \in Editor :
      \/ \E f \in Script, T \in {{}, Tool} \cup {{t} : t \in Tool}, bash \in BOOLEAN :
           EditsScript(e, f, T, bash)
      \/ \E readable \in BOOLEAN, installed \in {Tool, {"mypy"}, {}} : Stop(e, readable, installed)
  \/ \E f \in Script : DeletesScript(f) \/ GitAdds(f) \/ GitCommits(f)

StopSpec == StopInit /\ [][StopNext]_stopVars
-----------------------------------------------------------------------------
StopTypeOK ==
  /\ modified \subseteq inGit /\ inGit \subseteq Script
  /\ missing \subseteq Script /\ missing \cap inGit \subseteq modified
  /\ byBash \subseteq Script /\ editedBy \in [Editor -> SUBSET Script]
  /\ verdict \in Tool \cup {"none", "passed", "skipped"}

(* A session that leaves a failure of ruff or mypy in a file it edited is   *)
(* sent back, whatever other sessions have done to the tree meanwhile; and  *)
(* when its transcript cannot be read, that goes for its Bash edits too.    *)
(* All of it only for a file that git tracks and whose change is not        *)
(* committed: a new file that was never added, and a failure that was       *)
(* committed before the stop, are not looked at on their own account.       *)
OwnFailuresAreSeen ==
  [][\A e \in Editor, readable \in BOOLEAN :
       /\ Stop(e, readable, Tool)
       /\ \E f \in (IF readable THEN editedBy[e] ELSE editedBy[e] \cup byBash) \cap (modified \ missing) :
            fails[f] \cap {"ruff", "mypy"} # {}
       => verdict' \in Tool]_stopVars

(* mypy sends a session back for its own files only ("several sessions can  *)
(* share one working tree").  It is not so for ruff, which looks at all.    *)
MypyBlamesTheEditor ==
  [][\A e \in Editor : Stop(e, TRUE, {"mypy"}) /\ verdict' = "mypy" =>
       \E f \in editedBy[e] : "mypy" \in fails[f]]_stopVars

(* stop-verify.js sends back the session whose uncommitted edits of tracked *)
(* files fail, and mypy no other.                                           *)
StopsBlameRight ==
  []StopTypeOK /\ OwnFailuresAreSeen /\ MypyBlamesTheEditor
=============================================================================
