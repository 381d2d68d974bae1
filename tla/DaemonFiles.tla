---------------------------- MODULE DaemonFiles -----------------------------
(***************************************************************************)
(* What the daemon writes while it runs: the snapshot of its tabs, and the *)
(* log files of its buffers.                                               *)
(***************************************************************************)
EXTENDS Naturals, Sequences

(* BROWSE_PERSIST_STATE=1 (session-persist.ts, server.ts): a daemon keeps  *)
(* a snapshot of its tabs on an interval and once more at shutdown, and    *)
(* the next daemon restores it in the background. saveState walks the live *)
(* map of pages with one await per page, so tabs come and go under it.     *)

CONSTANTS Tab, MaxStarts

VARIABLES phase,   \* "up", "final" (snapshot at shutdown), "closing" or "dead"
          headed,  \* after a handoff nothing is persisted
          pages,   \* the open tabs
          todo,    \* tabs that restoreState has still to create
          tick,    \* the interval snapshot in flight
          final,   \* the snapshot of the shutdown
          saved,    \* session-state.json: a Snapshot, NoFile or Torn
          starts,  \* daemons started so far
          kept,    \* tabs open when the shutdown began, and since
          excused  \* an interval snapshot was in flight then, the deadline passed,
                   \* or the final snapshot failed

persistVars == <<phase, headed, pages, todo, tick, final, saved, starts, kept, excused>>

NoFile == [form |-> "none", tabs |-> {}]
Torn == [form |-> "torn", tabs |-> {}]
Snapshot(tabs) == [form |-> "whole", tabs |-> tabs]

Idle == [on |-> FALSE, seen |-> {}]
Fresh == [on |-> TRUE, seen |-> {}]

PersistInit ==
  /\ phase = "up" /\ headed = FALSE /\ pages = {} /\ todo = {} /\ tick = Idle /\ final = Idle
  /\ saved = NoFile /\ starts = 1 /\ kept = {} /\ excused = FALSE

(* Variants named ...Without... are plausible mistakes in the definition    *)
(* that follows them; no specification uses them.                           *)

TickStartsWithoutGate ==
  /\ phase # "dead" /\ ~headed /\ ~tick.on
  /\ tick' = Fresh
  /\ UNCHANGED <<phase, headed, pages, todo, final, saved, starts, kept, excused>>

(* The timer: not while shutting down, not while a snapshot is in flight    *)
TickStarts ==
  /\ phase = "up" /\ ~headed /\ ~tick.on
  /\ tick' = Fresh
  /\ UNCHANGED <<phase, headed, pages, todo, final, saved, starts, kept, excused>>

(* One turn of the loop of saveState                                        *)
Sees(snap) ==
  /\ snap.on
  /\ \E t \in pages \ snap.seen : snap' = [snap EXCEPT !.seen = @ \cup {t}]

Saving ==
  /\ phase # "dead"
  /\ \/ Sees(tick) /\ UNCHANGED final
     \/ Sees(final) /\ UNCHANGED tick
  /\ UNCHANGED <<phase, headed, pages, todo, saved, starts, kept, excused>>

Whole(snap) == snap.on /\ pages \subseteq snap.seen

(* writeSecureFile and renameSync; the final snapshot, in time or late      *)
Persists ==
  /\ phase # "dead"
  /\ \/ Whole(tick) /\ saved' = Snapshot(tick.seen) /\ tick' = Idle /\ UNCHANGED <<final, phase>>
     \/ /\ Whole(final) /\ saved' = Snapshot(final.seen) /\ final' = Idle /\ UNCHANGED tick
        /\ phase' = "closing"
  /\ UNCHANGED <<headed, pages, todo, starts, kept, excused>>

(* saveState, the write or the rename throws: the failure is logged, and    *)
(* whatever was saved before stays. Teardown goes on.                       *)
PersistFails ==
  /\ phase # "dead"
  /\ \/ tick.on /\ tick' = Idle /\ UNCHANGED <<final, phase, excused>>
     \/ final.on /\ final' = Idle /\ phase' = "closing" /\ excused' = TRUE /\ UNCHANGED tick
  /\ UNCHANGED <<headed, pages, todo, saved, starts, kept>>

KillInPlace ==
  /\ phase # "dead" /\ phase' = "dead" /\ pages' = {} /\ todo' = {} /\ kept' = {}
  /\ tick' = Idle /\ final' = Idle
  /\ saved' \in {saved} \cup {Torn : s \in {x \in {tick, final} : Whole(x)}}
  /\ UNCHANGED <<headed, starts, excused>>

(* SIGKILL or a crash, also between the write of the staged file and its    *)
(* rename: the old snapshot stays                                           *)
Kill ==
  /\ phase # "dead" /\ phase' = "dead" /\ pages' = {} /\ todo' = {} /\ kept' = {}
  /\ tick' = Idle /\ final' = Idle
  /\ UNCHANGED <<headed, saved, starts, excused>>
-----------------------------------------------------------------------------
TabOpens ==
  /\ phase \in {"up", "final"}
  /\ \E t \in Tab \ (pages \cup todo) : pages' = pages \cup {t}
  /\ UNCHANGED <<phase, headed, todo, tick, final, saved, starts, kept, excused>>

TabCloses ==
  /\ phase \in {"up", "final"}
  /\ \E t \in pages : pages' = pages \ {t} /\ kept' = kept \ {t}
  /\ UNCHANGED <<phase, headed, todo, tick, final, saved, starts, excused>>

(* recreateContext: the pages are closed with their context and restored    *)
ContextSwaps ==
  /\ phase = "up" /\ todo = {} /\ pages # {}
  /\ todo' = pages /\ pages' = {}
  /\ UNCHANGED <<phase, headed, tick, final, saved, starts, kept, excused>>

TabRestored ==
  /\ phase \in {"up", "final"}
  /\ \E t \in todo : todo' = todo \ {t} /\ pages' = pages \cup {t}
  /\ UNCHANGED <<phase, headed, tick, final, saved, starts, kept, excused>>

Handoff ==
  /\ phase = "up" /\ ~headed /\ todo = {} /\ headed' = TRUE
  /\ UNCHANGED <<phase, pages, todo, tick, final, saved, starts, kept, excused>>

(* shutdown: the interval is cleared, the final snapshot started            *)
ShutdownBegins ==
  /\ phase = "up"
  /\ phase' = IF headed THEN "closing" ELSE "final"
  /\ final' = IF headed THEN Idle ELSE Fresh
  /\ kept' = pages /\ excused' = tick.on
  /\ UNCHANGED <<headed, pages, todo, tick, saved, starts>>

(* Two seconds pass; the snapshot goes on behind the closing browser        *)
DeadlinePasses ==
  /\ phase = "final" /\ phase' = "closing" /\ excused' = TRUE
  /\ UNCHANGED <<headed, pages, todo, tick, final, saved, starts, kept>>

PageGoes ==
  /\ phase = "closing" /\ \E t \in pages : pages' = pages \ {t}
  /\ UNCHANGED <<phase, headed, todo, tick, final, saved, starts, kept, excused>>

DaemonEnds ==
  /\ phase = "closing" /\ pages = {} /\ phase' = "dead" /\ todo' = {} /\ tick' = Idle /\ final' = Idle
  /\ UNCHANGED <<headed, pages, saved, starts, kept, excused>>

(* start and restoreSessionState; a file that does not parse is moved away  *)
Starts ==
  /\ phase = "dead" /\ starts < MaxStarts
  /\ phase' = "up" /\ headed' = FALSE /\ starts' = starts + 1 /\ kept' = {} /\ excused' = FALSE
  /\ todo' = saved.tabs /\ pages' = {}
  /\ saved' = IF saved = Torn THEN NoFile ELSE saved
  /\ UNCHANGED <<tick, final>>

PersistNext ==
  \/ TickStarts \/ Saving \/ Persists \/ PersistFails \/ Kill
  \/ TabOpens \/ TabCloses \/ ContextSwaps \/ TabRestored \/ Handoff
  \/ ShutdownBegins \/ DeadlinePasses \/ PageGoes \/ DaemonEnds \/ Starts
-----------------------------------------------------------------------------
PersistTypeOK ==
  /\ phase \in {"up", "final", "closing", "dead"}
  /\ pages \subseteq Tab /\ todo \subseteq Tab /\ pages \cap todo = {}
  /\ tick.seen \subseteq Tab /\ final.seen \subseteq Tab /\ saved.tabs \subseteq Tab

(* Whenever the daemon dies, the file it leaves can be read: it is the old  *)
(* snapshot or the new one.                                                 *)
FileIsIntact == saved # Torn

(* The snapshot of a clean shutdown is the last word: after it the file      *)
(* names every tab that was open when the shutdown began and was not closed *)
(* by the user since, so that the next daemon brings them back. Excused are *)
(* the shutdown that found an interval snapshot in flight and the one whose *)
(* final snapshot took too long or failed, which the shutdown does not heed.*)
FinalSnapshotStands ==
  phase \in {"closing", "dead"} /\ ~headed /\ ~excused => kept \subseteq saved.tabs

(* session-state.json can be read after a kill or a failure at any moment,  *)
(* and holds the tabs of the last clean shutdown.                           *)
SnapshotSafe ==
  PersistTypeOK /\ FileIsIntact /\ FinalSnapshotStands
-----------------------------------------------------------------------------
(* The buffers of console, network and dialog entries (buffers.ts) and the *)
(* flush that appends what is new to their log files once a second         *)
(* (server.ts): a ring that overwrites its oldest entry, that a command    *)
(* may clear, and a cursor that counts all entries ever added. One buffer  *)
(* after another is flushed; the first append that fails ends the turn.    *)

CONSTANTS Buffers,   \* the number of buffers, flushed in this order
          Capacity, MaxAdded, MaxFailures

ASSUME RingsHoldSomething ==
  Buffers \in Nat /\ Capacity \in Nat \ {0} /\ MaxAdded \in Nat /\ MaxFailures \in Nat

VARIABLES ring,      \* per buffer: its entries, oldest first; an entry is its number
          added,     \* totalAdded
          flushed,   \* lastFlushed
          logFile,      \* the entries in the log file
          gone,      \* entries overwritten or cleared before they were flushed
          failures

flushVars == <<ring, added, flushed, logFile, gone, failures>>

Buffer == 1..Buffers

FlushInit ==
  /\ ring = [b \in Buffer |-> <<>>] /\ added = [b \in Buffer |-> 0]
  /\ flushed = [b \in Buffer |-> 0] /\ logFile = [b \in Buffer |-> <<>>]
  /\ gone = [b \in Buffer |-> {}] /\ failures = 0

Entries(s) == {s[i] : i \in DOMAIN s}
Unflushed(b) == {e \in Entries(ring[b]) : e > flushed[b]}

(* Variants named ...Without... or ...First are plausible mistakes in the    *)
(* definition that follows them; no specification uses them.                 *)

Push(b) ==
  /\ added[b] < MaxAdded
  /\ added' = [added EXCEPT ![b] = @ + 1]
  /\ LET full == Len(ring[b]) = Capacity
         rest == IF full THEN Tail(ring[b]) ELSE ring[b]
     IN /\ ring' = [ring EXCEPT ![b] = Append(rest, added[b] + 1)]
        /\ gone' = [gone EXCEPT ![b] = @ \cup (IF full THEN {Head(ring[b])} ELSE {})]
  /\ UNCHANGED <<flushed, logFile, failures>>

(* clear does not touch totalAdded, nor the cursor                          *)
Clear(b) ==
  /\ ring[b] # <<>>
  /\ ring' = [ring EXCEPT ![b] = <<>>]
  /\ gone' = [gone EXCEPT ![b] = @ \cup Entries(ring[b])]
  /\ UNCHANGED <<added, flushed, logFile, failures>>

LastOnes(s, n) == SubSeq(s, IF n < Len(s) THEN Len(s) - n + 1 ELSE 1, Len(s))
New(b) == LastOnes(ring[b], added[b] - flushed[b])

FlushesWithoutCursor(b) ==
  /\ logFile' = [c \in Buffer |-> IF c <= b THEN logFile[c] \o New(c) ELSE logFile[c]]
  /\ flushed' = [c \in Buffer |-> IF b = Buffers THEN added[c] ELSE flushed[c]]

FlushesCursorFirst(b) ==
  /\ logFile' = [c \in Buffer |-> IF c <= b THEN logFile[c] \o New(c) ELSE logFile[c]]
  /\ flushed' = [c \in Buffer |-> IF c <= b + 1 THEN added[c] ELSE flushed[c]]

(* The buffers up to b are appended, each with its cursor                   *)
Flushes(b) ==
  /\ logFile' = [c \in Buffer |-> IF c <= b THEN logFile[c] \o New(c) ELSE logFile[c]]
  /\ flushed' = [c \in Buffer |-> IF c <= b THEN added[c] ELSE flushed[c]]

(* flushBuffers; the append after b fails                                   *)
FlushBuffers ==
  /\ \E b \in 0..Buffers :
       /\ b < Buffers => failures < MaxFailures
       /\ failures' = IF b < Buffers THEN failures + 1 ELSE failures
       /\ Flushes(b)
  /\ UNCHANGED <<ring, added, gone>>

FlushNext == FlushBuffers \/ \E b \in Buffer : Push(b) \/ Clear(b)

(* Snapshots and logs have nothing in common but the daemon                 *)
DiskVars == <<persistVars, flushVars>>
DiskNext == \/ PersistNext /\ UNCHANGED flushVars
            \/ FlushNext /\ UNCHANGED persistVars
DiskSpec == PersistInit /\ FlushInit /\ [][DiskNext]_DiskVars
-----------------------------------------------------------------------------
FlushTypeOK ==
  \A b \in Buffer :
    /\ Len(ring[b]) <= Capacity /\ flushed[b] <= added[b]
    /\ Entries(logFile[b]) \subseteq 1..added[b]

(* Every entry is logged once, in order, although flushes fail half way and *)
(* buffers are cleared between them.                                        *)
LogIsOrdered ==
  \A b \in Buffer : \A i \in 1..(Len(logFile[b]) - 1) : logFile[b][i] < logFile[b][i + 1]

(* An entry misses the log only because it was overwritten or cleared       *)
(* before a flush, or because it is still to be flushed.                    *)
LogIsComplete ==
  \A b \in Buffer : \A e \in 1..flushed[b] : e \in Entries(logFile[b]) \cup gone[b]

(* flushBuffers writes every entry that it still can, once and in order.    *)
LogSafe ==
  FlushTypeOK /\ LogIsOrdered /\ LogIsComplete

(* What the daemon leaves on disk can be read and lacks nothing that it     *)
(* could have written: the snapshot of the session, and the logs.           *)
FilesSafe ==
  SnapshotSafe /\ LogSafe
=============================================================================
