---------------------------- MODULE SessionNotes ----------------------------
(***************************************************************************)
(* The notes that sessions leave for later ones: session-end.js writes the *)
(* session file of the day and the project, pre-compact.js appends a mark  *)
(* to the most recent session file and saves a checkpoint, session-start.js *)
(* picks what the next session is told.                                    *)
(*                                                                         *)
(* Hooks are run without CLAUDE_SESSION_ID, so the id in the name of a     *)
(* file is the project's name, and two working trees with one name share   *)
(* it.  Files in the legacy directory and files written within the same    *)
(* millisecond are left out.                                               *)
(***************************************************************************)
EXTENDS Integers, Sequences, SequencesExt

CONSTANTS Worktree,        \* directories that sessions run in
          ProjectOf,       \* ProjectOf[w]: the name of the project of w
          MaxAge,          \* maxAge of findFiles, in days
          KeepCheckpoints, \* checkpoints kept for a project
          MaxDays, MaxCompactions  \* bounds

Nobody == "nobody"

ASSUME WorktreeAssumption == DOMAIN ProjectOf = Worktree /\ Nobody \notin Worktree
ASSUME NotesBounds == /\ MaxAge \in Nat /\ KeepCheckpoints \in Nat \ {0}
                      /\ MaxDays \in Nat \ {0} /\ MaxCompactions \in Nat

ProjectName == {ProjectOf[w] : w \in Worktree}

VARIABLES day,
          notes,       \* the session files, least recently written first
          checkpoints, \* checkpoints[p]: the numbers of its checkpoints, oldest first
          freshCheckpoint, \* those younger than two hours
          compactions, \* compactions so far, which number the checkpoints
          lastCompaction, \* history: that of each project, 0 before the first
          given        \* what the last session that started was told

notesVars == <<day, notes, checkpoints, freshCheckpoint, compactions, lastCompaction, given>>

NothingGiven == [note |-> <<>>, checkpoint |-> 0]

NotesInit ==
  /\ day = 1 /\ notes = <<>> /\ compactions = 0
  /\ checkpoints = [p \in ProjectName |-> <<>>] /\ freshCheckpoint = {}
  /\ lastCompaction = [p \in ProjectName |-> 0] /\ given = NothingGiven

(* Variants named ...First... or ...Only... are plausible mistakes in the   *)
(* definition that follows them; no specification uses them.                *)

(* A body is a placeholder, a summary block, other text that a user left,   *)
(* or nothing at all; `of` is the working tree whose summary it holds       *)
NewNote(w, summary) ==
  [date |-> day, project |-> ProjectOf[w], tree |-> w, written |-> day, marked |-> FALSE,
   body |-> IF summary THEN "summary" ELSE "placeholder", of |-> IF summary THEN w ELSE Nobody]

(* mergeSessionHeader replaces the working tree and keeps the rest          *)
Reheaded(n, w) == [n EXCEPT !.tree = w, !.written = day]

SummarisedOnlyBlocks(n, w) == IF n.body = "summary" THEN [n EXCEPT !.of = w] ELSE n

(* The block between the markers is replaced; without markers, everything   *)
(* from "## Current State" to the end, marks of compactions included        *)
Summarised(n, w) ==
  CASE n.body = "summary"     -> [n EXCEPT !.of = w]
    [] n.body = "placeholder" -> [n EXCEPT !.body = "summary", !.of = w, !.marked = FALSE]
    [] OTHER                  -> n

Ended(n, w, summary) ==
  IF n.body = "empty" THEN n
  ELSE IF summary THEN Summarised(Reheaded(n, w), w) ELSE Reheaded(n, w)

IsTodays(n, w) == n.date = day /\ n.project = ProjectOf[w]

(* main of session-end.js: the file of today is written last of all         *)
SessionEnds(w, summary) ==
  LET mine == {i \in DOMAIN notes : IsTodays(notes[i], w)} IN
  /\ \/ /\ mine = {} /\ notes' = Append(notes, NewNote(w, summary))
     \/ \E i \in mine :
          notes' = IF notes[i].body = "empty" THEN notes
                   ELSE Append(RemoveAt(notes, i), Ended(notes[i], w, summary))
  /\ UNCHANGED <<day, checkpoints, freshCheckpoint, compactions, lastCompaction, given>>

PrunedKeepingFirst(s) == SubSeq(s, 1, IF Len(s) < KeepCheckpoints THEN Len(s) ELSE KeepCheckpoints)

(* "Keep only last 10 checkpoints per project": sort, reverse, slice        *)
Pruned(s) == IF Len(s) > KeepCheckpoints THEN Tail(s) ELSE s

(* main of pre-compact.js: the mark goes to the most recent session file,   *)
(* whoever wrote it                                                         *)
Compacts(w) ==
  LET p == ProjectOf[w]  n == compactions + 1 IN
  /\ compactions < MaxCompactions
  /\ compactions' = n /\ lastCompaction' = [lastCompaction EXCEPT ![p] = n]
  /\ notes' = IF notes = <<>> THEN notes
              ELSE Append(Front(notes), [Last(notes) EXCEPT !.marked = TRUE, !.written = day,
                                           !.body = IF @ = "empty" THEN "other" ELSE @])
  /\ checkpoints' = [checkpoints EXCEPT ![p] = Pruned(Append(@, n))]
  /\ freshCheckpoint' = freshCheckpoint \cup {n}
  /\ UNCHANGED <<day, given>>

(* dedupeRecentSessions and selectMatchingSession: recent files with some   *)
(* content; the working tree first, then the project, then the most recent  *)
Recent == {i \in DOMAIN notes : day - notes[i].written <= MaxAge /\ notes[i].body # "empty"}
OfTree(w) == {i \in Recent : notes[i].tree = w}
OfProject(w) == {i \in Recent : notes[i].project = ProjectOf[w]}

LastOf(I) == IF I = {} THEN <<>> ELSE <<notes[CHOOSE i \in I : \A j \in I : j <= i]>>

ChosenFirstMatch(w) ==
  LET match == OfTree(w) \cup OfProject(w) IN LastOf(IF match # {} THEN match ELSE Recent)

Chosen(w) ==
  LastOf(IF OfTree(w) # {} THEN OfTree(w) ELSE IF OfProject(w) # {} THEN OfProject(w) ELSE Recent)

(* loadRecentCheckpoint: the newest, unless it is two hours old             *)
Recovered(p) ==
  IF checkpoints[p] # <<>> /\ Last(checkpoints[p]) \in freshCheckpoint THEN Last(checkpoints[p]) ELSE 0

(* A placeholder is not told to the session                                 *)
SessionStarts(w) ==
  LET note == IF Chosen(w) # <<>> /\ Chosen(w)[1].body = "placeholder" THEN <<>> ELSE Chosen(w) IN
  /\ given' = [note |-> note, checkpoint |-> Recovered(ProjectOf[w])]
  /\ UNCHANGED <<day, notes, checkpoints, freshCheckpoint, compactions, lastCompaction>>

UserEmptiesOrRewrites(i, body) ==
  /\ notes' = Append(RemoveAt(notes, i),
                     [notes[i] EXCEPT !.body = body, !.of = Nobody, !.marked = FALSE, !.written = day])
  /\ UNCHANGED <<day, checkpoints, freshCheckpoint, compactions, lastCompaction, given>>

TwoHoursPass ==
  /\ freshCheckpoint # {} /\ freshCheckpoint' = {}
  /\ UNCHANGED <<day, notes, checkpoints, compactions, lastCompaction, given>>

DayPasses ==
  /\ day < MaxDays
  /\ day' = day + 1 /\ freshCheckpoint' = {}
  /\ UNCHANGED <<notes, checkpoints, compactions, lastCompaction, given>>

NotesNext ==
  \/ \E w \in Worktree : Compacts(w) \/ SessionStarts(w) \/ \E summary \in BOOLEAN : SessionEnds(w, summary)
  \/ \E i \in DOMAIN notes, body \in {"other", "empty"} : UserEmptiesOrRewrites(i, body)
  \/ TwoHoursPass \/ DayPasses

NotesSpec == NotesInit /\ [][NotesNext]_notesVars
-----------------------------------------------------------------------------
NotesTypeOK ==
  /\ day \in 1..MaxDays /\ compactions \in 0..MaxCompactions
  /\ \A i \in DOMAIN notes :
       /\ notes[i].body \in {"summary", "placeholder", "other", "empty"}
       /\ (notes[i].of # Nobody) = (notes[i].body = "summary")
       /\ \A j \in DOMAIN notes : notes[i].date = notes[j].date /\ notes[i].project = notes[j].project => i = j
  /\ \A p \in ProjectName : Len(checkpoints[p]) <= KeepCheckpoints

(* A session is told the notes of its own working tree whenever there are   *)
(* recent ones, even when another tree of the same project wrote later.     *)
StartsFromOwnTree ==
  [][\A w \in Worktree :
       SessionStarts(w) /\ (\E i \in OfTree(w) : notes[i].body # "placeholder")
         => given'.note = <<>> \/ given'.note[1].tree = w]_notesVars

(* The checkpoint a session recovers is that of the last compaction of its  *)
(* project: pruning never takes the newest.                                 *)
RecoversTheNewest ==
  [][\A w \in Worktree : SessionStarts(w) /\ given'.checkpoint # 0 =>
       given'.checkpoint = lastCompaction[ProjectOf[w]]]_notesVars

(* A session that ends with a summary leaves it in the file of the day,     *)
(* unless a user has emptied the file or removed its sections.              *)
SummaryIsSaved ==
  [][\A w \in Worktree :
       SessionEnds(w, TRUE) /\ ~(\E i \in DOMAIN notes : IsTodays(notes[i], w) /\ notes[i].body \in {"other", "empty"})
         => Last(notes').of = w]_notesVars

(* What session-end.js and pre-compact.js write is what session-start.js of *)
(* the right working tree finds, for as long as it is recent.               *)
NotesCorrect ==
  []NotesTypeOK /\ StartsFromOwnTree /\ RecoversTheNewest /\ SummaryIsSaved
=============================================================================
