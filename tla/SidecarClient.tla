---------------------------- MODULE SidecarClient ---------------------------
(***************************************************************************)
(* The daemon's client of the classifier process (security-sidecar-        *)
(* client.ts, security-sidecar-entry.ts): scans share one child, answers   *)
(* carry an id, a child that fails is replaced by the next scan, and three *)
(* failures within ten minutes open a circuit breaker. The handlers of a   *)
(* child's events act on whatever child is current when they run.          *)
(***************************************************************************)
EXTENDS Naturals, FiniteSets

CONSTANTS Scan,       \* scans, each asked once
          MaxChildren, RespawnLimit

VARIABLES scan,     \* per scan: where it is, its id, and the scan whose text the verdict is of
          nextId, children,
          current,  \* state.child, or NoChild
          alive,    \* children that run
          exits,    \* children whose exit event is still to come
          inbox,    \* requests that a child works on: [child, id, text]
          outbox,   \* lines a child wrote and the daemon has not read
          torn,     \* state.buffer ends in a part of a line
          failures, broken

sidecarVars == <<scan, nextId, children, current, alive, exits, inbox, outbox, torn, failures, broken>>
child == <<children, current, alive, exits>>
pipes == <<inbox, outbox, torn>>

NoChild == 0

SidecarInit ==
  /\ scan = [s \in Scan |-> [at |-> "new", id |-> 0, of |-> s]]
  /\ nextId = 1 /\ children = 0 /\ current = NoChild /\ alive = {} /\ exits = {}
  /\ inbox = {} /\ outbox = {} /\ torn = FALSE /\ failures = 0 /\ broken = FALSE

Pending(s) == scan[s].at = "pending"

(* Variants named ...Without... are plausible mistakes in the definition    *)
(* that follows them; no specification uses them.                           *)

RecordFailure ==
  /\ failures' = IF failures < RespawnLimit THEN failures + 1 ELSE failures
  /\ broken' = (broken \/ failures + 1 >= RespawnLimit)

RejectedByNobody == [s \in Scan |-> IF Pending(s) THEN [scan[s] EXCEPT !.at = "lost"] ELSE scan[s]]

(* Their timers are cleared                                                 *)
Rejected == [s \in Scan |-> IF Pending(s) THEN [scan[s] EXCEPT !.at = "failed"] ELSE scan[s]]

(* The current child, whichever it is, gets SIGTERM, and every pending scan *)
(* is rejected                                                              *)
ShutdownChild ==
  /\ current' = NoChild /\ alive' = alive \ {current}
  /\ scan' = IF current = NoChild THEN scan ELSE Rejected

AssignsIdRestarting(s, c) ==
  LET id == IF current = NoChild THEN 1 ELSE nextId IN
  /\ scan' = [scan EXCEPT ![s].at = "pending", ![s].id = id]
  /\ inbox' = inbox \cup {[child |-> c, id |-> id, text |-> s]}
  /\ nextId' = id + 1

(* The id comes from one counter for all children                           *)
AssignsId(s, c) ==
  /\ scan' = [scan EXCEPT ![s].at = "pending", ![s].id = nextId]
  /\ inbox' = inbox \cup {[child |-> c, id |-> nextId, text |-> s]}
  /\ nextId' = nextId + 1

(* scanWithSidecar: refused by the breaker, by a spawn that fails, or sent  *)
ScanWithSidecar(s) ==
  /\ scan[s].at = "new"
  /\ \/ /\ ~broken /\ current # NoChild
        /\ AssignsId(s, current)
        /\ UNCHANGED <<child, failures, broken>>
     \/ /\ ~broken /\ current = NoChild /\ children < MaxChildren
        /\ children' = children + 1 /\ current' = children + 1 /\ alive' = alive \cup {children + 1}
        /\ AssignsId(s, children + 1)
        /\ UNCHANGED <<exits, failures, broken>>
     \/ /\ broken \/ current = NoChild
        /\ scan' = [scan EXCEPT ![s].at = "failed"]
        /\ IF broken THEN UNCHANGED <<failures, broken>> ELSE RecordFailure
        /\ UNCHANGED <<nextId, child, inbox>>
  /\ UNCHANGED <<outbox, torn>>

(* handle: verdicts come in any order; a child may also answer an error     *)
Answers ==
  /\ \E m \in inbox : \E ok \in BOOLEAN :
       /\ m.child \in alive
       /\ inbox' = inbox \ {m} /\ outbox' = outbox \cup {[id |-> m.id, text |-> m.text, ok |-> ok]}
  /\ UNCHANGED <<scan, nextId, child, torn, failures, broken>>

(* A crash may leave a part of a line in the pipe                           *)
ChildDies ==
  /\ \E c \in alive :
       /\ alive' = alive \ {c} /\ exits' = exits \cup {c}
       /\ inbox' = {m \in inbox : m.child # c}
       /\ torn' \in {torn, torn \/ (c = current /\ \E m \in inbox : m.child = c)}
  /\ UNCHANGED <<scan, nextId, children, current, outbox, failures, broken>>

Settled(id, text, ok) ==
  [s \in Scan |-> IF Pending(s) /\ scan[s].id = id
                  THEN [scan[s] EXCEPT !.at = IF ok THEN "answered" ELSE "failed", !.of = text]
                  ELSE scan[s]]

(* processBuffer: what a crash left is glued to the next line, which is     *)
(* then lost; an answer nobody waits for is dropped                         *)
ReadsLine ==
  /\ \E m \in outbox :
       /\ outbox' = outbox \ {m} /\ torn' = FALSE
       /\ IF torn
          THEN RecordFailure /\ UNCHANGED scan
          ELSE /\ scan' = Settled(m.id, m.text, m.ok)
               /\ IF ~m.ok /\ \E s \in Scan : Pending(s) /\ scan[s].id = m.id
                  THEN RecordFailure ELSE UNCHANGED <<failures, broken>>
  /\ UNCHANGED <<nextId, child, inbox>>

(* The exit event of any child                                              *)
ExitEvent ==
  /\ \E c \in exits : exits' = (exits \ {c}) \cup ({current} \cap alive)
  /\ ShutdownChild
  /\ UNCHANGED <<nextId, children, pipes, failures, broken>>

(* The child could not be spawned, or not be written to or killed           *)
ErrorEvent ==
  /\ current # NoChild /\ exits' \in {exits, exits \cup {current}}
  /\ ShutdownChild /\ RecordFailure
  /\ UNCHANGED <<nextId, children, pipes>>

Timeout(s) ==
  /\ Pending(s) /\ scan' = [scan EXCEPT ![s].at = "failed"]
  /\ RecordFailure
  /\ UNCHANGED <<nextId, child, pipes>>

(* Ten minutes pass; the breaker stays open                                 *)
WindowPasses ==
  /\ failures > 0 /\ failures' = 0
  /\ UNCHANGED <<scan, nextId, child, pipes, broken>>

SidecarNext ==
  \/ \E s \in Scan : ScanWithSidecar(s) \/ Timeout(s)
  \/ Answers \/ ChildDies \/ ReadsLine \/ ExitEvent \/ ErrorEvent \/ WindowPasses

SidecarSpec == SidecarInit /\ [][SidecarNext]_sidecarVars
-----------------------------------------------------------------------------
SidecarTypeOK ==
  /\ current \in {NoChild} \cup (alive \cup exits) /\ alive \subseteq 1..children
  /\ \A s \in Scan : Pending(s) => scan[s].id > 0

(* A page is judged by its own scan: whatever children die, are replaced or *)
(* answer late, the verdict a scan gets is the verdict of its text.         *)
VerdictIsOwn == \A s \in Scan : scan[s].at = "answered" => scan[s].of = s

(* Nobody waits for ever: every scan is answered or fails.                  *)
ScansSettle == \A s \in Scan : Pending(s) ~> scan[s].at \in {"answered", "failed"}

(* A scan that ends with a verdict ends with its own, whatever becomes of   *)
(* the sidecar processes.                                                   *)
ScansSafe == SidecarTypeOK /\ VerdictIsOwn
=============================================================================
