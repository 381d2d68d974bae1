------------------------------- MODULE Skills -------------------------------
(***************************************************************************)
(* What agents write down for later: the notes per site, and the browser   *)
(* skills that the daemon runs.                                            *)
(***************************************************************************)
EXTENDS Naturals, Sequences, FiniteSets

(* Notes that an agent keeps per site (domain-skills.ts,                   *)
(* domain-skill-commands.ts): two append-only files of rows, one of the    *)
(* project and one for all projects, for one host. Readers take the row    *)
(* with the greatest version. Every operation reads a file, and appends    *)
(* one row after an await, so operations interleave.                       *)

CONSTANTS Op,       \* operations in flight
          PromoteThreshold, MaxRows, MaxBodies

VARIABLES rows,    \* per scope, the rows of the host in the order of the file
          op,      \* per operation: the row it is about to append, and where
          bodies,  \* texts written so far; each save has a new one
          raced    \* a row was appended after another that its operation had not read

skillVars == <<rows, op, bodies, raced>>

Scope == {"project", "global"}
NoRow == [body |-> 0, state |-> "none", version |-> 0, scored |-> FALSE, uses |-> 0, flags |-> 0,
          dead |-> FALSE]
Settled == [on |-> FALSE, scope |-> "project", row |-> NoRow, seen |-> 0]

SkillInit ==
  /\ rows = [s \in Scope |-> <<>>]
  /\ op = [o \in Op |-> Settled]
  /\ bodies = 0 /\ raced = FALSE

(* resolveLatest: of equal versions the later row; a tombstone hides all    *)
Newest(s) ==
  LET at == {i \in 1..Len(rows[s]) : \A j \in 1..Len(rows[s]) :
               \/ rows[s][i].version > rows[s][j].version
               \/ rows[s][i].version = rows[s][j].version /\ i >= j}
  IN IF at = {} THEN NoRow ELSE rows[s][CHOOSE i \in at : TRUE]

Latest(s) == IF Newest(s).dead THEN NoRow ELSE Newest(s)

Reads(o, s, row) ==
  /\ ~op[o].on
  /\ op' = [op EXCEPT ![o] = [on |-> TRUE, scope |-> s, row |-> row, seen |-> Len(rows[s])]]
  /\ UNCHANGED <<rows, raced>>

(* Variants named ...Without... are plausible mistakes in the definition    *)
(* that follows them; no specification uses them.                           *)

(* writeSkill: the classifier's score is 0 as long as nobody scans          *)
WriteSkill(o) ==
  /\ bodies < MaxBodies /\ bodies' = bodies + 1
  /\ \E scored \in BOOLEAN :
       Reads(o, "project", [NoRow EXCEPT !.body = bodies + 1, !.state = "quarantined",
                                         !.version = Latest("project").version + 1, !.scored = scored])

PromotesWithoutScan(row) ==
  row.state = "quarantined" /\ row.uses >= PromoteThreshold /\ row.flags = 0

Promotes(row) ==
  row.state = "quarantined" /\ row.uses >= PromoteThreshold /\ row.flags = 0 /\ row.scored

RecordSkillUse(o) ==
  LET current == Latest("project") IN
  /\ current # NoRow
  /\ \E flagged \in BOOLEAN :
       LET used == [current EXCEPT !.uses = @ + 1, !.flags = @ + IF flagged THEN 1 ELSE 0,
                                   !.version = @ + 1]
       IN Reads(o, "project", [used EXCEPT !.state = IF Promotes(used) THEN "active" ELSE @])
  /\ UNCHANGED bodies

PromoteToGlobalWithoutUse(o) ==
  /\ Latest("project").scored
  /\ Reads(o, "global", [Latest("project") EXCEPT !.state = "global", !.version = 1,
                                                  !.uses = 0, !.flags = 0])
  /\ UNCHANGED bodies

PromoteToGlobal(o) ==
  /\ Latest("project").state = "active"
  /\ Reads(o, "global", [Latest("project") EXCEPT !.state = "global", !.version = 1,
                                                  !.uses = 0, !.flags = 0])
  /\ UNCHANGED bodies

(* The rows that are no tombstone, by version, the earlier of equal ones    *)
(* first; the second of them is the one to go back to                       *)
Alive(s) == {i \in 1..Len(rows[s]) : ~rows[s][i].dead}
Before(s, i, j) == \/ rows[s][i].version > rows[s][j].version
                   \/ rows[s][i].version = rows[s][j].version /\ i < j
Ranked(s, n) == CHOOSE i \in Alive(s) : Cardinality({j \in Alive(s) : Before(s, j, i)}) = n - 1

RollbackWithoutVersion(o) ==
  /\ \E s \in Scope :
       /\ \E i, j \in Alive(s) : i # j
       /\ Reads(o, s, rows[s][Ranked(s, 2)])
  /\ UNCHANGED bodies

RollbackSkill(o) ==
  /\ \E s \in Scope :
       /\ \E i, j \in Alive(s) : i # j
       /\ Reads(o, s, [rows[s][Ranked(s, 2)] EXCEPT !.version = rows[s][Ranked(s, 1)].version + 1])
  /\ UNCHANGED bodies

DeleteSkill(o) ==
  /\ \E s \in Scope :
       /\ Latest(s) # NoRow
       /\ Reads(o, s, [Latest(s) EXCEPT !.version = @ + 1, !.dead = TRUE])
  /\ UNCHANGED bodies

(* appendRow writes one line, whole                                         *)
AppendRow(o) ==
  /\ op[o].on /\ Len(rows[op[o].scope]) < MaxRows
  /\ rows' = [rows EXCEPT ![op[o].scope] = Append(@, op[o].row)]
  /\ op' = [op EXCEPT ![o] = Settled]
  /\ raced' = (raced \/ op[o].seen # Len(rows[op[o].scope]))
  /\ UNCHANGED bodies

SkillStep(o) ==
  \/ WriteSkill(o) \/ RecordSkillUse(o) \/ PromoteToGlobal(o)
  \/ RollbackSkill(o) \/ DeleteSkill(o) \/ AppendRow(o)

SkillNext == \E o \in Op : SkillStep(o)

SkillSpec == SkillInit /\ [][SkillNext]_skillVars

(* readSkill: what fires                                                    *)
Fires ==
  IF Latest("project").state = "active" THEN Latest("project")
  ELSE IF Latest("global").state = "global" THEN Latest("global") ELSE NoRow
-----------------------------------------------------------------------------
SkillTypeOK ==
  \A s \in Scope : \A i \in 1..Len(rows[s]) :
    rows[s][i].body \in 1..bodies /\ rows[s][i].version >= 1

(* Nothing fires that was not scanned, however saves, uses, promotions,     *)
(* deletions and rollbacks interleave: a text that prompts see has a score  *)
(* of the classifier.                                                       *)
FiresOnlyScanned == Fires # NoRow => Fires.scored

(* A text becomes global only after the project had it active.              *)
GlobalWasActive ==
  \A i \in 1..Len(rows["global"]) : \E j \in 1..Len(rows["project"]) :
    rows["project"][j].body = rows["global"][i].body /\ rows["project"][j].state = "active"

(* Readers see the last write: as long as operations on the project's file  *)
(* did not interleave and nothing in it was deleted, the newest row is the  *)
(* row appended last, whatever saves, uses and rollbacks it holds.          *)
LastWriteIsSeen ==
  LET n == Len(rows["project"]) IN
  ~raced /\ n > 0 /\ (\A i \in 1..n : ~rows["project"][i].dead)
    => Newest("project") = rows["project"][n]

(* The rows of domain-skills.ts, appended by operations that overlap, fire  *)
(* only what was scanned, widen only what was active and show the last      *)
(* write.                                                                   *)
NotesPerSiteSafe ==
  SkillTypeOK /\ FiresOnlyScanned /\ GlobalWasActive /\ LastWriteIsSeen
-----------------------------------------------------------------------------
(* Browser skills of one name: directories of files in two user tiers,     *)
(* staged and committed by /skillify (browser-skill-write.ts), removed     *)
(* into .tombstones (browser-skills.ts), and run by the daemon with a      *)
(* token of their own (browser-skill-commands.ts, skill-token.ts).  The    *)
(* stagings are processes of their own, so that they, the daemon and a     *)
(* user at the files interleave at each call of the file system.           *)

CONSTANTS Staging, Run,
          Tier,    \* user tiers, the ones searched first having lower numbers
          File,    \* the files of a skill
          Script,  \* the one that is run
          MaxByHand

ASSUME SkillFilesAssumption ==
  Tier \subseteq Nat /\ Script \in File /\ MaxByHand \in Nat /\ {"none", "hand"} \cap Staging = {}

VARIABLES dir,         \* per tier: who wrote the skill directory and its files
          staged,      \* per staging: the same of its directory
          staging,     \* per staging: where it is, and for which tier
          tombstones, byHand,
          run,         \* per run: where it is, how the child ended
          skillTokens  \* runs whose token is registered

skillFileVars == <<dir, staged, staging, tombstones, byHand, run, skillTokens>>

NoDir == [by |-> "none", files |-> {}]
NotRun == [at |-> "none", timedOut |-> FALSE, truncated |-> FALSE, code |-> 0, result |-> "none"]

FilesInit ==
  /\ dir = [t \in Tier |-> NoDir] /\ tombstones = {} /\ byHand = 0
  /\ staged = [w \in Staging |-> NoDir]
  /\ staging \in [Staging -> [at : {"new"}, tier : Tier]]
  /\ run = [r \in Run |-> NotRun] /\ skillTokens = {}
-----------------------------------------------------------------------------
At(w, from, to) == staging[w].at = from /\ staging' = [staging EXCEPT ![w].at = to]
OthersStay == UNCHANGED <<byHand, run, skillTokens>>

Stages(w) ==
  /\ At(w, "new", "staging") /\ staged' = [staged EXCEPT ![w].by = w]
  /\ UNCHANGED <<dir, tombstones>> /\ OthersStay

(* Variants named ...InPlace, ...Over or ...Only... are plausible mistakes  *)
(* in the definition that follows them; no specification uses them.         *)
StagesFileInPlace(w) ==
  /\ staging[w].at = "staging" /\ UNCHANGED staging
  /\ \E f \in File \ staged[w].files :
       /\ staged' = [staged EXCEPT ![w].files = @ \cup {f}]
       /\ dir' = [dir EXCEPT ![staging[w].tier] = [by |-> w, files |-> staged'[w].files]]
  /\ UNCHANGED tombstones /\ OthersStay

StagesFile(w) ==
  /\ staging[w].at = "staging" /\ UNCHANGED staging
  /\ \E f \in File \ staged[w].files : staged' = [staged EXCEPT ![w].files = @ \cup {f}]
  /\ UNCHANGED <<dir, tombstones>> /\ OthersStay

(* stageSkill throws half way, and its caller knows nothing to discard      *)
StageFails(w) == At(w, "staging", "left") /\ UNCHANGED <<dir, staged, tombstones>> /\ OthersStay

(* stageSkill returns; the skill is tested, and shown to the user, who      *)
(* approves it or not                                                       *)
IsApproved(w) == staged[w].files = File /\ At(w, "staging", "approved") /\ UNCHANGED <<dir, staged, tombstones>> /\ OthersStay
IsRejected(w) == staged[w].files = File /\ At(w, "staging", "refused") /\ UNCHANGED <<dir, staged, tombstones>> /\ OthersStay

(* commitSkill: the look at the destination and the rename are two calls    *)
ChecksDest(w) ==
  /\ IF dir[staging[w].tier] = NoDir THEN At(w, "approved", "committing") ELSE At(w, "approved", "refused")
  /\ UNCHANGED <<dir, staged, tombstones>> /\ OthersStay

CommitsOver(w) ==
  /\ At(w, "committing", "ended")
  /\ dir' = [dir EXCEPT ![staging[w].tier] = staged[w]]
  /\ staged' = [staged EXCEPT ![w] = NoDir]
  /\ UNCHANGED tombstones /\ OthersStay

(* rename fails on a directory that is not empty                            *)
Commits(w) ==
  /\ IF dir[staging[w].tier] = NoDir
     THEN /\ At(w, "committing", "ended")
          /\ dir' = [dir EXCEPT ![staging[w].tier] = staged[w]]
          /\ staged' = [staged EXCEPT ![w] = NoDir]
     ELSE At(w, "committing", "refused") /\ UNCHANGED <<dir, staged>>
  /\ UNCHANGED tombstones /\ OthersStay

(* Best effort: what rmSync cannot remove stays                             *)
DiscardStaged(w) ==
  /\ \/ At(w, "refused", "ended") /\ staged' = [staged EXCEPT ![w] = NoDir]
     \/ /\ At(w, "refused", "left")
        /\ \E files \in SUBSET staged[w].files : staged' = [staged EXCEPT ![w].files = files]
  /\ UNCHANGED <<dir, tombstones>> /\ OthersStay

StagingDies(w) ==
  /\ staging[w].at \notin {"new", "ended", "left", "dead"}
  /\ staging' = [staging EXCEPT ![w].at = "dead"]
  /\ UNCHANGED <<dir, staged, tombstones>> /\ OthersStay

(* A user puts a skill of his own in place, perhaps without a script        *)
WritesByHand(t) ==
  /\ byHand < MaxByHand /\ byHand' = byHand + 1
  /\ dir[t] = NoDir
  /\ \E files \in {File, File \ {Script}} : dir' = [dir EXCEPT ![t] = [by |-> "hand", files |-> files]]
  /\ UNCHANGED <<staged, staging, tombstones, run, skillTokens>>

(* $B skill rm                                                              *)
TombstoneBrowserSkill(t) ==
  /\ dir[t] # NoDir
  /\ tombstones' = tombstones \cup {dir[t]} /\ dir' = [dir EXCEPT ![t] = NoDir]
  /\ UNCHANGED <<staged, staging>> /\ OthersStay
-----------------------------------------------------------------------------
(* readBrowserSkill: the first tier that has the skill                      *)
Found == {t \in Tier : dir[t] # NoDir}
First(tiers) == CHOOSE t \in tiers : \A u \in tiers : t <= u

(* $B skill run up to the spawn, in one stretch: without a script the error *)
(* passes through the finally that revokes the token                        *)
SpawnSkill(r) ==
  /\ run[r].at = "none" /\ Found # {}
  /\ IF Script \in dir[First(Found)].files
     THEN run' = [run EXCEPT ![r].at = "running"] /\ skillTokens' = skillTokens \cup {r}
     ELSE run' = [run EXCEPT ![r].at = "ended", ![r].result = "error"] /\ UNCHANGED skillTokens
  /\ UNCHANGED <<dir, staged, staging, tombstones, byHand>>

(* The timer sends a SIGTERM, which the child may not heed at once; the     *)
(* child ends by itself, because of it, or for want of its script           *)
KillerFires(r) ==
  /\ run[r].at \in {"running", "exited"} /\ ~run[r].timedOut
  /\ run' = [run EXCEPT ![r].timedOut = TRUE]
  /\ UNCHANGED <<dir, staged, staging, tombstones, byHand, skillTokens>>

ChildExits(r) ==
  /\ run[r].at = "running"
  /\ \E code \in {0, 1}, big \in BOOLEAN :
       run' = [run EXCEPT ![r].at = "exited", ![r].code = code, ![r].truncated = big]
  /\ UNCHANGED <<dir, staged, staging, tombstones, byHand, skillTokens>>

Result(r) == IF run[r].code = 0 /\ ~run[r].timedOut /\ ~run[r].truncated THEN "output" ELSE "error"

ReturnsOnlyInSuccess(r) ==
  /\ run[r].at = "exited"
  /\ run' = [run EXCEPT ![r].at = "ended", ![r].result = Result(r)]
  /\ skillTokens' = IF Result(r) = "output" THEN skillTokens \ {r} ELSE skillTokens
  /\ UNCHANGED <<dir, staged, staging, tombstones, byHand>>

(* runToFiles returns, the token is revoked, the answer depends on the end  *)
ReturnsResult(r) ==
  /\ run[r].at = "exited"
  /\ run' = [run EXCEPT ![r].at = "ended", ![r].result = Result(r)]
  /\ skillTokens' = skillTokens \ {r}
  /\ UNCHANGED <<dir, staged, staging, tombstones, byHand>>

(* The time of a token is that of its run and some slack: a child that does *)
(* not heed the signal loses its token while it still runs                  *)
TokenExpires(r) ==
  /\ r \in skillTokens /\ run[r].timedOut /\ skillTokens' = skillTokens \ {r}
  /\ UNCHANGED <<dir, staged, staging, tombstones, byHand, run>>

FilesNext ==
  \/ \E w \in Staging : \/ Stages(w) \/ StagesFile(w) \/ StageFails(w) \/ IsApproved(w) \/ IsRejected(w)
                        \/ ChecksDest(w) \/ Commits(w) \/ DiscardStaged(w) \/ StagingDies(w)
  \/ \E t \in Tier : WritesByHand(t) \/ TombstoneBrowserSkill(t)
  \/ \E r \in Run : SpawnSkill(r) \/ KillerFires(r) \/ ChildExits(r) \/ ReturnsResult(r) \/ TokenExpires(r)

FilesSpec == FilesInit /\ [][FilesNext]_skillFileVars
-----------------------------------------------------------------------------
(* No half-written skill ever shows: what /skillify put in a tier or what   *)
(* went from there to the tombstones is complete, though stagings are       *)
(* killed and two of them commit to the same place.                         *)
SkillsAreWhole ==
  \A d \in {dir[t] : t \in Tier} \cup tombstones : d.by \in Staging => d.files = File

(* A skill leaves its tier only for the tombstones: no commit replaces one. *)
RemovedIsKept ==
  [][\A t \in Tier : dir[t] # NoDir /\ dir'[t] # dir[t] => dir'[t] = NoDir /\ dir[t] \in tombstones']_skillFileVars

(* The token of a run works only while the run lasts, however it ends, and  *)
(* a staging directory does not outlive its commit: refused, failed or dead *)
(* stagings may stay behind in ~/.gstack/.tmp, but nothing that is still    *)
(* there is, or ever was, a skill of some tier.                             *)
Placed(w) == \E d \in {dir[t] : t \in Tier} \cup tombstones : d.by = w
NothingOutlivesItsUse ==
  /\ \A r \in skillTokens : run[r].at \in {"running", "exited"}
  /\ \A w \in Staging : staged[w] # NoDir => ~Placed(w)

(* Skills are committed whole and removed without loss, and their runs      *)
(* leave no token, whatever processes die half way.                         *)
SkillFilesCorrect ==
  [](SkillsAreWhole /\ NothingOutlivesItsUse) /\ RemovedIsKept
=============================================================================
