------------------------------ MODULE Installer ------------------------------
(***************************************************************************)
(* install-apply.js and uninstall.js: what the installer copies into       *)
(* ~/.claude, the hooks it merges into settings.json, the files of an      *)
(* older version it reaps, and the manifest that tells later runs what it  *)
(* owns.  The repository moves to new versions between installs, the user  *)
(* edits files and settings, and an install may be cut short anywhere.     *)
(*                                                                         *)
(* A file's content is the version it was copied from, or Edited.  A hook  *)
(* is a file that settings.json registers in some place, which is an event *)
(* and a matcher, by $HOME or by its full path.  Every entry of hooks.json *)
(* holds one hook, and a version registers a hook in one place.            *)
(***************************************************************************)
EXTENDS Integers, FiniteSets

CONSTANTS File,         \* the files some version ships
          Registered,   \* those that hooks.json registers
          Core,         \* those of --core-only
          NeedsBinary,  \* those of the skills that need the browse binary
          Ships,        \* Ships[v]: the files of version v
          Place,        \* events with a matcher
          PlaceOf,      \* PlaceOf[v][h]: where hooks.json of version v registers hook h
          OwnHook       \* a hook of the user

ASSUME HooksAreCore == Registered \subseteq Core /\ Core \subseteq File
ASSUME BinarySkills == NeedsBinary \subseteq File \ Core
ASSUME OwnHookIsNotOurs == OwnHook \notin File
ASSUME VersionsShip ==
  /\ 1 \in DOMAIN Ships /\ DOMAIN Ships \subseteq Nat \ {0}
  /\ \A v \in DOMAIN Ships : Ships[v] \subseteq File
ASSUME HooksHavePlaces == \A v \in DOMAIN Ships, h \in Registered : PlaceOf[v][h] \in Place

Version == DOMAIN Ships
Absent == 0
Edited == -1
Form == {"home", "absolute"}
OwnRegistration == <<OwnHook, "its place", "absolute">>

VARIABLES repo,        \* the version in the clone
          homeFile,    \* homeFile[f]: Absent, Edited, or the version it was copied from
          backups,     \* the files of which a .bak with the user's edit exists
          owned,       \* the files of the manifest
          settings,    \* the registrations in settings.json
          settingsOwned,
          install,     \* the install in progress
          strays       \* history: what installs copied that were cut short before the
                       \* manifest, and what could not be removed but was forgotten

instVars == <<repo, homeFile, backups, owned, settings, settingsOwned, install, strays>>

NoInstall == [at |-> "none", wanted |-> {}, done |-> {}]

InstInit ==
  /\ repo = 1
  /\ homeFile = [f \in File |-> Absent]
  /\ backups = {} /\ owned = {} /\ settingsOwned = FALSE
  /\ settings \in {{}, {OwnRegistration}}
  /\ install = NoInstall /\ strays = {}

(* Variants named ...Without... are plausible mistakes in the definition    *)
(* that follows them; no specification uses them.                           *)

(* main's copy maps: all of the version or its core, and the skills that    *)
(* need the binary only when ensureBrowseBinary finds or builds it          *)
Wanted(v, coreOnly, ready) ==
  (IF coreOnly THEN Ships[v] \cap Core ELSE Ships[v]) \ (IF ready THEN {} ELSE NeedsBinary)

Start(coreOnly, ready) ==
  /\ install.at = "none"
  /\ install' = [at |-> "copying", wanted |-> Wanted(repo, coreOnly, ready), done |-> {}]
  /\ UNCHANGED <<repo, homeFile, backups, owned, settings, settingsOwned, strays>>

(* copyDirectory: skip what is identical, back up what is not               *)
CopiesWithoutBackup(f) ==
  /\ install.at = "copying" /\ f \in install.wanted \ install.done
  /\ homeFile' = [homeFile EXCEPT ![f] = repo]
  /\ install' = [install EXCEPT !.done = @ \cup {f}]
  /\ UNCHANGED <<repo, backups, owned, settings, settingsOwned, strays>>

Copies(f) ==
  /\ install.at = "copying" /\ f \in install.wanted \ install.done
  /\ homeFile' = [homeFile EXCEPT ![f] = repo]
  /\ backups' = IF homeFile[f] = Edited THEN backups \cup {f} ELSE backups
  /\ install' = [install EXCEPT !.done = @ \cup {f}]
  /\ UNCHANGED <<repo, owned, settings, settingsOwned, strays>>

(* hookKey resolves $HOME, so both forms of a registration are one key; the *)
(* event and the matcher are part of the key                                *)
MissingWithoutNormalising(hooks, place) == {<<h, place[h], "home">> : h \in hooks} \ settings

Missing(hooks, place) ==
  {<<h, place[h], "home">> :
     h \in {h \in hooks : \A form \in Form : <<h, place[h], form>> \notin settings}}

(* mergeHooks registers every hook of hooks.json, wanted or not             *)
MergesHooks ==
  /\ install.at = "copying" /\ install.done = install.wanted
  /\ settings' = settings \cup Missing(Ships[repo] \cap Registered, PlaceOf[repo])
  /\ install' = [install EXCEPT !.at = "merged"]
  /\ UNCHANGED <<repo, homeFile, backups, owned, settingsOwned, strays>>

Stale == {f \in owned \ install.done : homeFile[f] # Absent}
Without(gone) == [f \in File |-> IF f \in gone THEN Absent ELSE homeFile[f]]

(* reapStale: what the old manifest owns and this install did not install;  *)
(* what it cannot remove is reported and kept                               *)
Reaps(kept) ==
  /\ install.at = "merged" /\ kept \subseteq Stale
  /\ homeFile' = Without(Stale \ kept)
  /\ strays' = strays \cup kept
  /\ install' = [install EXCEPT !.at = "reaped"]
  /\ UNCHANGED <<repo, backups, owned, settings, settingsOwned>>

WritesManifestOfChanges ==
  /\ install.at = "reaped"
  /\ owned' = install.done \ owned
  /\ settingsOwned' = (settings # {})
  /\ install' = NoInstall /\ strays' = strays \ install.done
  /\ UNCHANGED <<repo, homeFile, backups, settings>>

WritesManifest ==
  /\ install.at = "reaped"
  /\ owned' = install.done
  /\ settingsOwned' = (settings # {})
  /\ install' = NoInstall /\ strays' = strays \ install.done
  /\ UNCHANGED <<repo, homeFile, backups, settings>>

Interrupted ==
  /\ install.at # "none"
  /\ install' = NoInstall
  /\ strays' = strays \cup install.done
  /\ UNCHANGED <<repo, homeFile, backups, owned, settings, settingsOwned>>

(* uninstall.js removes everything the manifest lists, then the manifest    *)
Uninstalls ==
  /\ install.at = "none" /\ owned # {}
  /\ homeFile' = Without(owned)
  /\ settings' = IF settingsOwned THEN {} ELSE settings
  /\ owned' = {} /\ settingsOwned' = FALSE
  /\ UNCHANGED <<repo, backups, install, strays>>

(* A file that cannot be removed ends it, with the manifest still there     *)
UninstallStops(gone) ==
  /\ install.at = "none" /\ gone \subseteq owned
  /\ homeFile' = Without(gone)
  /\ UNCHANGED <<repo, backups, owned, settings, settingsOwned, install, strays>>

Pulls(v) ==
  /\ install.at = "none" /\ v > repo
  /\ repo' = v
  /\ UNCHANGED <<homeFile, backups, owned, settings, settingsOwned, install, strays>>

UserEdits(f) ==
  /\ install.at = "none" /\ homeFile[f] \in Version /\ f \notin backups
  /\ homeFile' = [homeFile EXCEPT ![f] = Edited]
  /\ UNCHANGED <<repo, backups, owned, settings, settingsOwned, install, strays>>

(* The user, or another tool, rewrites a registration with a full path      *)
UserRewritesHook(h, p) ==
  /\ install.at = "none" /\ <<h, p, "home">> \in settings
  /\ settings' = (settings \ {<<h, p, "home">>}) \cup {<<h, p, "absolute">>}
  /\ UNCHANGED <<repo, homeFile, backups, owned, settingsOwned, install, strays>>

InstNext ==
  \/ \E coreOnly, ready \in BOOLEAN : Start(coreOnly, ready)
  \/ \E f \in File : Copies(f) \/ UserEdits(f)
  \/ \E some \in SUBSET File : Reaps(some) \/ UninstallStops(some)
  \/ MergesHooks \/ WritesManifest \/ Interrupted \/ Uninstalls
  \/ \E v \in Version : Pulls(v)
  \/ \E h \in Registered, p \in Place : UserRewritesHook(h, p)

InstSpec == InstInit /\ [][InstNext]_instVars
-----------------------------------------------------------------------------
InstTypeOK ==
  /\ repo \in Version /\ homeFile \in [File -> Version \cup {Absent, Edited}]
  /\ backups \subseteq File /\ owned \subseteq File
  /\ settings \subseteq (Registered \X Place \X Form) \cup {OwnRegistration}
  /\ install.at \in {"none", "copying", "merged", "reaped"}
  /\ install.done \subseteq install.wanted

(* "Everything the installer OWNS, not just what this run changed": between *)
(* installs, the manifest lists every file that came from the repository,   *)
(* so that uninstall can remove it, except what installs copied that were   *)
(* cut short and old files that a reap could not remove: the next manifest  *)
(* forgets those, and only an install that ships them again takes them back.*)
ManifestCoversHome ==
  install.at = "none" => \A f \in File : homeFile[f] # Absent => f \in owned \cup strays

(* Installing again never registers a hook a second time in its place, in   *)
(* whatever form the user has written the first registration ("8 hooks      *)
(* registered twice").  A version that moves a hook to another event or     *)
(* matcher does add a second one, for the old one stays.                    *)
NoDuplicateHooks ==
  \A h \in Registered, p \in Place :
    Cardinality({form \in Form : <<h, p, form>> \in settings}) <= 1

(* "A local edit is recoverable": what the user edited is in place or in a  *)
(* backup, or goes with the file when that is reaped or uninstalled.        *)
EditsRecoverable ==
  [][\A f \in File : homeFile[f] = Edited /\ homeFile'[f] # Edited => f \in backups' \/ homeFile'[f] = Absent]_instVars

(* Installs, installs cut short, pulls, user edits and uninstalls in any    *)
(* order lose no edit, register no hook twice in one place and own what     *)
(* they copied, whatever cannot be removed.                                 *)
InstallerCorrect ==
  [](InstTypeOK /\ ManifestCoversHome /\ NoDuplicateHooks) /\ EditsRecoverable
=============================================================================
