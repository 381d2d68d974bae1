------------------------------ MODULE LoopRunner ------------------------------
(***************************************************************************)
(* The overnight loop runner (hooks/scripts/loop-runner.js): a Stop hook   *)
(* that keeps a queue of tasks in a ledger file.  Each run of the hook is  *)
(* a process of its own: it reads the ledger, runs the validation command  *)
(* of the current task, and writes the ledger back.  Sub-claude calls and  *)
(* parallel sessions inherit the ledger's path, so runs overlap, and a     *)
(* wall-clock kill may end one at any point.                               *)
(*                                                                         *)
(* writeFileSync truncates the file and then writes it; a reader in        *)
(* between, or after a kill in between, finds no ledger.  Two writers that *)
(* have both truncated may leave a mix of their texts, which does not      *)
(* parse either.  SHARED_TASK_NOTES.md, which the hook never reads, is     *)
(* left out; appends to pending_for_human.md succeed.                      *)
(***************************************************************************)
EXTENDS Integers

CONSTANTS Hook,           \* runs of the hook that can overlap
          Tasks,          \* length of the queue
          MaxIterations,  \* max_iterations
          MaxRetries,     \* MAX_RETRIES
          MaxComplete,    \* MAX_CONSECUTIVE_COMPLETE
          MaxKills,       \* bound: runs that are killed
          Torn            \* a ledger file that does not parse

ASSUME TasksAssumption == Tasks \in Nat /\ MaxIterations \in Nat /\ MaxKills \in Nat
ASSUME LimitsAssumption == MaxRetries \in Nat \ {0} /\ MaxComplete \in Nat \ {0, 1}

Task == 0..(Tasks - 1)

Ledger == [iteration : 0..MaxIterations, index : 0..Tasks, retry : 0..(MaxRetries - 1),
           complete : 0..(MaxComplete - 1), exit : BOOLEAN]

ASSUME TornIsNoLedger == Torn \notin Ledger

VARIABLES ledger,     \* the file: a ledger, or Torn
          pc,         \* pc[h]: idle, validating, parking, saving or closing
          copy,       \* copy[h]: the ledger h has read, then the one it writes
          task,       \* task[h]: the task h works on
          pending,    \* tasks reported in pending_for_human.md
          passed,     \* history: tasks whose validation has passed
          failures,   \* history: failed validations per task, up to MaxRetries
          kills       \* runs killed so far

vars == <<ledger, pc, copy, task, pending, passed, failures, kills>>

NewLedger == [iteration |-> 0, index |-> 0, retry |-> 0, complete |-> 0, exit |-> FALSE]

Init ==
  /\ ledger   = NewLedger
  /\ pc       = [h \in Hook |-> "idle"]
  /\ copy     = [h \in Hook |-> NewLedger]
  /\ task     = [h \in Hook |-> 0]
  /\ pending  = {}
  /\ passed   = {}
  /\ failures = [i \in Task |-> 0]
  /\ kills    = 0
-----------------------------------------------------------------------------
(* Variants named ...Without... are plausible mistakes in the definition    *)
(* that follows them; no specification uses them.                           *)

(* The gates before the validation command: the budget, the end of the queue*)
OutOfWork(l) == l.iteration >= MaxIterations \/ l.index >= Tasks

(* On to the next task; the last one ends the loop                          *)
AdvancedWithoutReset(l) ==
  [l EXCEPT !.iteration = @ + 1, !.index = @ + 1, !.exit = l.index + 1 >= Tasks]

Advanced(l) ==
  [l EXCEPT !.iteration = @ + 1, !.index = @ + 1, !.retry = 0, !.exit = l.index + 1 >= Tasks]

BreakerFires(l) == l.complete + 1 >= MaxComplete

Completed(l) == IF BreakerFires(l) THEN [l EXCEPT !.exit = TRUE]
                ELSE [Advanced(l) EXCEPT !.complete = 0]

GivesUp(l) == l.retry + 1 >= MaxRetries

FailedWithoutCount(l) == l

Failed(l) == IF GivesUp(l) THEN Advanced(l)
             ELSE [l EXCEPT !.iteration = @ + 1, !.retry = @ + 1]

(* readLedger and the gates.  With no ledger, or EXIT_SIGNAL set, the run   *)
(* ends having done nothing.                                                *)
ReadLedger(h) ==
  /\ pc[h] = "idle"
  /\ ledger # Torn /\ ~ledger.exit
  /\ \/ /\ OutOfWork(ledger)
        /\ copy' = [copy EXCEPT ![h] = [ledger EXCEPT !.exit = TRUE]]
        /\ pc'   = [pc EXCEPT ![h] = "saving"]
        /\ UNCHANGED task
     \/ /\ ~OutOfWork(ledger)
        /\ copy' = [copy EXCEPT ![h] = ledger]
        /\ task' = [task EXCEPT ![h] = ledger.index]
        /\ pc'   = [pc EXCEPT ![h] = "validating"]
  /\ UNCHANGED <<ledger, pending, passed, failures, kills>>

(* validation_command exits 0; a task without one passes too                *)
ValidationPasses(h) ==
  /\ pc[h] = "validating"
  /\ passed' = passed \cup {task[h]}
  /\ copy'   = [copy EXCEPT ![h] = Completed(copy[h])]
  /\ pc'     = [pc EXCEPT ![h] = IF BreakerFires(copy[h]) THEN "parking" ELSE "saving"]
  /\ UNCHANGED <<ledger, task, pending, failures, kills>>

ValidationFailsWithoutParking(h) ==
  /\ pc[h] = "validating"
  /\ failures' = [failures EXCEPT ![task[h]] = IF @ < MaxRetries THEN @ + 1 ELSE @]
  /\ copy'     = [copy EXCEPT ![h] = Failed(copy[h])]
  /\ pc'       = [pc EXCEPT ![h] = "saving"]
  /\ UNCHANGED <<ledger, task, pending, passed, kills>>

ValidationFails(h) ==
  /\ pc[h] = "validating"
  /\ failures' = [failures EXCEPT ![task[h]] = IF @ < MaxRetries THEN @ + 1 ELSE @]
  /\ copy'     = [copy EXCEPT ![h] = Failed(copy[h])]
  /\ pc'       = [pc EXCEPT ![h] = IF GivesUp(copy[h]) THEN "parking" ELSE "saving"]
  /\ UNCHANGED <<ledger, task, pending, passed, kills>>

AppendPendingForHuman(h) ==
  /\ pc[h] = "parking"
  /\ pending' = pending \cup {task[h]}
  /\ pc'      = [pc EXCEPT ![h] = "saving"]
  /\ UNCHANGED <<ledger, copy, task, passed, failures, kills>>

(* writeLedger opens the file, which truncates it, and then writes          *)
TruncateLedger(h) ==
  /\ pc[h] = "saving"
  /\ ledger' = Torn
  /\ pc'     = [pc EXCEPT ![h] = "closing"]
  /\ UNCHANGED <<copy, task, pending, passed, failures, kills>>

WriteLedger(h) ==
  /\ pc[h] = "closing"
  /\ \/ ledger' = copy[h]
     \/ ledger # Torn /\ ledger' = Torn
  /\ pc' = [pc EXCEPT ![h] = "idle"]
  /\ UNCHANGED <<copy, task, pending, passed, failures, kills>>

(* A cron job kills claude at the deadline; a hook may time out             *)
Kill(h) ==
  /\ pc[h] # "idle"
  /\ kills < MaxKills
  /\ kills' = kills + 1
  /\ pc'    = [pc EXCEPT ![h] = "idle"]
  /\ UNCHANGED <<ledger, copy, task, pending, passed, failures>>

HookStep(h) ==
  \/ ReadLedger(h) \/ ValidationPasses(h) \/ ValidationFails(h)
  \/ AppendPendingForHuman(h) \/ TruncateLedger(h) \/ WriteLedger(h)

Next == \E h \in Hook : HookStep(h) \/ Kill(h)

Spec == Init /\ [][Next]_vars

(* Sessions go on stopping, each stop runs the hook, and a run that is not  *)
(* killed ends: the validation commands terminate.                          *)
Fairness == \A h \in Hook : WF_vars(HookStep(h))

FairSpec == Spec /\ Fairness
-----------------------------------------------------------------------------
TypeOK ==
  /\ ledger   \in Ledger \cup {Torn}
  /\ pc       \in [Hook -> {"idle", "validating", "parking", "saving", "closing"}]
  /\ copy     \in [Hook -> Ledger]
  /\ task     \in [Hook -> 0..Tasks]
  /\ pending  \subseteq Task
  /\ passed   \subseteq Task
  /\ failures \in [Task -> 0..MaxRetries]
  /\ kills    \in 0..MaxKills

(* No task is passed over in silence, whatever runs overlap or are killed:  *)
(* the tasks before the current one have passed their validation or are     *)
(* reported to the human ("3 retries per task -> pending_for_human.md,      *)
(* advance to next task").                                                  *)
NoSilentSkip ==
  ledger # Torn => \A i \in Task : i < ledger.index => i \in passed \cup pending

(* A task is reported only after MAX_RETRIES failed validations of its own, *)
(* although overlapping runs overwrite each other's counts.                 *)
ThreeStrikes == \A i \in pending : failures[i] >= MaxRetries

(* loop-runner.js accounts for every task: it passed, or it failed three    *)
(* times and is reported.                                                   *)
QueueIsHonest ==
  TypeOK /\ NoSilentSkip /\ ThreeStrikes

(* The loop ends: from some point on the ledger says so or cannot be read.  *)
(* A run that overlapped may undo EXIT_SIGNAL, but not for ever.            *)
LoopEnds == <>[](ledger = Torn \/ ledger.exit)
=============================================================================
