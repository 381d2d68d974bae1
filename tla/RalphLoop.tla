------------------------------ MODULE RalphLoop ------------------------------
(***************************************************************************)
(* ralph-loop.js: a Stop hook that counts the iterations of an autonomous  *)
(* loop in a ledger file and tells it when to end.  Every session that     *)
(* sets LOOP_GOAL runs the hook on the same file, so runs overlap, and a   *)
(* run can be killed between the truncation of the file and its rewrite.   *)
(* A file that cannot be read is replaced by a default ledger.             *)
(*                                                                         *)
(* error_count is written by nothing in the repository, so the error gate  *)
(* can fire only for a ledger that was edited by hand; it is left out.     *)
(***************************************************************************)
EXTENDS Integers, FiniteSets, Sequences, SequencesExt

CONSTANTS Session,       \* sessions whose Stop events run the hook
          Note,          \* relay notes other than the empty one
          Empty,         \* the empty relay note
          LoopBudget,    \* max_iterations of the ledger
          MaxHookKills   \* bound: runs killed in the middle

ASSUME EmptyIsNoNote == Empty \notin Note
ASSUME BudgetIsNat == LoopBudget \in Nat /\ MaxHookKills \in Nat

VARIABLES loopFile,  \* the ledger, or NoFile: absent, truncated or unreadable
          hookRun,   \* hookRun[s]: the run of the hook in session s
          reports,   \* history: reports[n], how many runs reported note n (up to 3)
          killed     \* history: runs killed so far

loopVars == <<loopFile, hookRun, reports, killed>>

NoFile == [goal |-> "none"]

(* buildDefaultLedger                                                       *)
DefaultLedger == [iteration |-> 0, hashes |-> <<>>, exit |-> FALSE, reason |-> "none"]

Resting == [at |-> "idle", ledger |-> DefaultLedger]

LoopInit ==
  /\ loopFile = NoFile
  /\ hookRun = [s \in Session |-> Resting]
  /\ reports = [n \in Note |-> 0]
  /\ killed = 0

(* Variants named ...Without... or ...Of... are plausible mistakes in the   *)
(* definition that follows them; no specification uses them.                *)

ReadLoopFile == IF loopFile = NoFile THEN DefaultLedger ELSE loopFile

(* relay_note_hashes grows for ever; the gates look at the last three       *)
WithHash(l, n) ==
  LET all == Append(l.hashes, n) IN
  IF Len(all) > 3 THEN Tail(all) ELSE all

CircuitBreakerFiredWithoutThird(hashes, n) ==
  n # Empty /\ Len(hashes) >= 2 /\ hashes[Len(hashes)] = hashes[Len(hashes) - 1]

(* circuitBreakerFired: three equal hashes, the last of a note that is not  *)
(* empty                                                                    *)
CircuitBreakerFired(hashes, n) ==
  n # Empty /\ Len(hashes) = 3 /\ Cardinality(ToSet(hashes)) = 1

Ends(l, n, why) == [l EXCEPT !.exit = TRUE, !.reason = why, !.hashes = WithHash(l, n)]

GatesWithoutBudget(l, n, done) ==
  IF done THEN Ends(l, n, "done_keyword")
  ELSE IF CircuitBreakerFired(WithHash(l, n), n) THEN Ends(l, n, "circuit_breaker")
  ELSE [l EXCEPT !.iteration = (@ % LoopBudget) + 1, !.hashes = WithHash(l, n)]

GatesOffByOne(l, n, done) ==
  IF done THEN Ends(l, n, "done_keyword")
  ELSE IF l.iteration > LoopBudget THEN Ends(l, n, "max_iterations")
  ELSE IF CircuitBreakerFired(WithHash(l, n), n) THEN Ends(l, n, "circuit_breaker")
  ELSE [l EXCEPT !.iteration = @ + 1, !.hashes = WithHash(l, n)]

(* Gates 2 to 7 of main, for a ledger without EXIT_SIGNAL                   *)
Gates(l, n, done) ==
  IF done THEN Ends(l, n, "done_keyword")
  ELSE IF l.iteration >= LoopBudget THEN Ends(l, n, "max_iterations")
  ELSE IF CircuitBreakerFired(WithHash(l, n), n) THEN Ends(l, n, "circuit_breaker")
  ELSE [l EXCEPT !.iteration = @ + 1, !.hashes = WithHash(l, n)]

Counted(n) == IF n \in Note /\ reports[n] < 3 THEN [reports EXCEPT ![n] = @ + 1] ELSE reports

(* A session stops with relay note n; the hook reads the ledger and decides. *)
(* With EXIT_SIGNAL set (gate 1) it does nothing.  The bead log, which       *)
(* nothing reads, is left out.                                               *)
StopsWithoutExitGate(s, n, done) ==
  /\ hookRun[s].at = "idle"
  /\ hookRun' = [hookRun EXCEPT ![s] = [at |-> "decided", ledger |-> Gates(ReadLoopFile, n, done)]]
  /\ reports' = Counted(n)
  /\ UNCHANGED <<loopFile, killed>>

Stops(s, n, done) ==
  /\ hookRun[s].at = "idle" /\ ~ReadLoopFile.exit
  /\ hookRun' = [hookRun EXCEPT ![s] = [at |-> "decided", ledger |-> Gates(ReadLoopFile, n, done)]]
  /\ reports' = Counted(n)
  /\ UNCHANGED <<loopFile, killed>>

(* writeFileSync truncates, then writes                                     *)
TruncatesLoopFile(s) ==
  /\ hookRun[s].at = "decided"
  /\ loopFile' = NoFile
  /\ hookRun' = [hookRun EXCEPT ![s].at = "truncated"]
  /\ UNCHANGED <<reports, killed>>

WritesLoopFile(s) ==
  /\ hookRun[s].at = "truncated"
  /\ loopFile' = hookRun[s].ledger
  /\ hookRun' = [hookRun EXCEPT ![s] = Resting]
  /\ UNCHANGED <<reports, killed>>

KillsHook(s) ==
  /\ hookRun[s].at # "idle" /\ killed < MaxHookKills
  /\ hookRun' = [hookRun EXCEPT ![s] = Resting]
  /\ killed' = killed + 1
  /\ UNCHANGED <<loopFile, reports>>

SessionStops(s) == \E n \in Note \cup {Empty}, done \in BOOLEAN : Stops(s, n, done)

LoopNext ==
  \E s \in Session : SessionStops(s) \/ TruncatesLoopFile(s) \/ WritesLoopFile(s) \/ KillsHook(s)

RalphSpec == LoopInit /\ [][LoopNext]_loopVars
-----------------------------------------------------------------------------
LoopTypeOK ==
  /\ loopFile = NoFile \/ loopFile.iteration \in 0..LoopBudget
  /\ \A s \in Session : /\ hookRun[s].at \in {"idle", "decided", "truncated"}
                        /\ hookRun[s].ledger.hashes \in SeqOf(Note \cup {Empty}, 3)
  /\ killed \in 0..MaxHookKills

(* The breaker halts the loop only when three runs reported that very note, *)
(* although overlapping runs write back lists of hashes that others have    *)
(* extended since.                                                          *)
BreakerNeedsThree ==
  loopFile # NoFile /\ loopFile.reason = "circuit_breaker" =>
    \E n \in Note : Last(loopFile.hashes) = n /\ reports[n] = 3

(* Once EXIT_SIGNAL is in the ledger and no run is under way, it stays.     *)
LoopEnded == loopFile # NoFile /\ loopFile.exit /\ \A s \in Session : hookRun[s].at = "idle"
EndIsFinal == [][LoopEnded => LoopEnded']_loopVars

(* ralph-loop.js stops a session only for the reason that it gives, and for *)
(* good.                                                                    *)
RalphSafe == [](LoopTypeOK /\ BreakerNeedsThree) /\ EndIsFinal

(* The loop ends, unless runs for ever read the file while another rewrites *)
(* it: such a run starts the count from zero.                               *)
ReadsTornFile(s) == SessionStops(s) /\ loopFile = NoFile
LoopSettles ==
  \/ \E s \in Session : []<><<ReadsTornFile(s)>>_loopVars
  \/ <>[](loopFile # NoFile /\ loopFile.exit)
=============================================================================
