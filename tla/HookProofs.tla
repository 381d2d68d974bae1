---------------------------- MODULE HookProofs ----------------------------
(***************************************************************************)
(* The hook scripts and the installer, for any numbers of sessions, files, *)
(* paths, tool calls, versions, notes and days: the loop runner, the       *)
(* installer, the edit guards, the ship gate, the stop verifier, the Ralph *)
(* loop and the notes that sessions leave for later ones.                  *)
(***************************************************************************)
EXTENDS LoopRunner, RalphLoop, Installer, ToolGates, SessionNotes, SequenceTheorems,
        FiniteSetTheorems, WellFoundedInduction, TLAPS

(***************************************************************************)
(* The loop runner never passes over a task in silence, and gives one up   *)
(* only after MaxRetries failures, for any queue, budget, number of        *)
(* overlapping runs and kills.                                             *)
(*                                                                         *)
(* Runs overwrite each other's ledgers, so the invariant cannot speak of   *)
(* the file alone: every copy a run is about to write must be Sound too.   *)
(* A sound ledger accounts for each task before its current one and has    *)
(* counted no more retries than there were failures; its circuit breaker   *)
(* counter is still 0.                                                     *)
(***************************************************************************)
Accounts(l, known) == \A i \in Task : i < l.index => i \in known

Counts(l) == /\ l.index \in Task => failures[l.index] >= l.retry
             /\ l.complete = 0

Sound(l) == Accounts(l, passed \cup pending) /\ Counts(l)

HookInv(h) ==
  /\ pc[h] = "validating" => /\ task[h] = copy[h].index /\ ~OutOfWork(copy[h])
                             /\ Sound(copy[h])
  /\ pc[h] = "parking" => /\ task[h] \in Task /\ failures[task[h]] >= MaxRetries
                          /\ Accounts(copy[h], passed \cup pending \cup {task[h]})
                          /\ Counts(copy[h])
  /\ pc[h] \in {"saving", "closing"} => Sound(copy[h])

IInv ==
  /\ TypeOK
  /\ ledger # Torn => Sound(ledger)
  /\ \A h \in Hook : HookInv(h)
  /\ ThreeStrikes

USE TasksAssumption, LimitsAssumption

(* A fresh queue: nothing to account for.                                   *)
LEMMA InitIInv == Init => IInv
BY TornIsNoLedger
DEF Init, IInv, TypeOK, Ledger, NewLedger, Sound, Accounts, Counts, HookInv,
       ThreeStrikes, Task, OutOfWork

(* What the queue operators return                                          *)
LEMMA QueueOperators ==
  ASSUME NEW l \in Ledger, ~OutOfWork(l), l.complete = 0
  PROVE  /\ l.index \in Task
         /\ Completed(l) = Advanced(l) /\ ~BreakerFires(l)
         /\ Advanced(l) \in Ledger /\ Advanced(l).index = l.index + 1
         /\ Advanced(l).retry = 0 /\ Advanced(l).complete = 0
         /\ Failed(l) \in Ledger /\ Failed(l).complete = 0
         /\ GivesUp(l) => Failed(l) = Advanced(l)
         /\ ~GivesUp(l) => Failed(l).index = l.index /\ Failed(l).retry = l.retry + 1
<1>1. /\ l.iteration \in Nat /\ l.iteration + 1 \in 0..MaxIterations
      /\ l.index \in Nat /\ l.index + 1 \in 0..Tasks /\ l.index \in Task
      /\ l.retry \in Nat
  BY DEF Ledger, OutOfWork, Task
<1>2. ~BreakerFires(l)
  BY DEF BreakerFires
<1>3. /\ Advanced(l) \in Ledger /\ Advanced(l).index = l.index + 1
      /\ Advanced(l).retry = 0 /\ Advanced(l).complete = 0
  <2> DEFINE last == l.index + 1 >= Tasks
  <2>1. last \in BOOLEAN
    OBVIOUS
  <2>2. Advanced(l) = [l EXCEPT !.iteration = l.iteration + 1, !.index = l.index + 1,
                                !.retry = 0, !.exit = last]
    BY DEF Advanced
  <2> HIDE DEF last
  <2>3. 0 \in 0..(MaxRetries - 1)
    OBVIOUS
  <2> QED BY <1>1, <2>1, <2>2, <2>3 DEF Ledger
<1>4. Completed(l) = Advanced(l)
  BY <1>2, <1>3 DEF Completed, Advanced, Ledger
<1>5. CASE GivesUp(l)
  BY <1>1, <1>2, <1>3, <1>4, <1>5 DEF Failed
<1>6. CASE ~GivesUp(l)
  <2>1. l.retry + 1 \in 0..(MaxRetries - 1)
    BY <1>1, <1>6 DEF GivesUp
  <2> QED BY <1>1, <1>2, <1>3, <1>4, <1>6, <2>1 DEF Failed, Ledger
<1> QED BY <1>5, <1>6

(* What the runs know only grows, so what another run relies on stays.      *)
LEMMA OthersKeep ==
  ASSUME IInv, NEW h \in Hook, NEW g \in Hook,
         pc'[g] = pc[g], copy'[g] = copy[g], task'[g] = task[g],
         passed \subseteq passed', pending \subseteq pending',
         failures' \in [Task -> 0..MaxRetries],
         \A i \in Task : failures[i] <= failures'[i]
  PROVE  HookInv(g)'
<1>1. \A i \in Task : failures[i] \in Nat /\ failures'[i] \in Nat
  BY DEF IInv, TypeOK
<1>2. copy[g] \in Ledger /\ copy[g].retry \in Nat
  BY DEF IInv, TypeOK, Ledger
<1> QED BY <1>1, <1>2 DEF IInv, HookInv, Sound, Accounts, Counts, OutOfWork

(* The same for a ledger.                                                   *)
LEMMA SoundKeeps ==
  ASSUME IInv, NEW l \in Ledger, Sound(l),
         passed \subseteq passed', pending \subseteq pending',
         failures' \in [Task -> 0..MaxRetries],
         \A i \in Task : failures[i] <= failures'[i]
  PROVE  Accounts(l, passed' \cup pending') /\ (l.index \in Task => failures'[l.index] >= l.retry) /\ l.complete = 0
<1>1. \A i \in Task : failures[i] \in Nat /\ failures'[i] \in Nat
  BY DEF IInv, TypeOK
<1>2. l.retry \in Nat
  BY DEF Ledger
<1> QED BY <1>1, <1>2 DEF Sound, Accounts, Counts

(* Every step of a run keeps the invariant.                                 *)
LEMMA StepKeeps ==
  ASSUME IInv, NEW h \in Hook, HookStep(h) \/ Kill(h)
  PROVE  IInv'
<1> USE DEF IInv
<1> /\ copy[h] \in Ledger /\ pc \in [Hook -> {"idle", "validating", "parking", "saving", "closing"}]
    /\ copy \in [Hook -> Ledger] /\ task \in [Hook -> 0..Tasks] /\ HookInv(h)
    /\ \A i \in Task : failures[i] \in Nat
  BY DEF TypeOK
<1>1. CASE ReadLedger(h)
  <2>1. /\ ledger \in Ledger /\ Sound(ledger) /\ ledger.complete = 0
        /\ ledger.index \in 0..Tasks
    BY <1>1 DEF ReadLedger, TypeOK, Sound, Counts, Ledger
  <2>2. [ledger EXCEPT !.exit = TRUE] \in Ledger
    BY <2>1 DEF Ledger
  <2>3. TypeOK'
    <3>1. /\ copy' \in [Hook -> Ledger] /\ task' \in [Hook -> 0..Tasks]
          /\ pc' \in [Hook -> {"idle", "validating", "parking", "saving", "closing"}]
      <4>1. \E l \in Ledger : copy' = [copy EXCEPT ![h] = l]
        BY <1>1, <2>1, <2>2 DEF ReadLedger
      <4>2. task' = task \/ task' = [task EXCEPT ![h] = ledger.index]
        BY <1>1 DEF ReadLedger
      <4>3. \E x \in {"saving", "validating"} : pc' = [pc EXCEPT ![h] = x]
        BY <1>1 DEF ReadLedger
      <4> QED BY <2>1, <4>1, <4>2, <4>3
    <3> QED BY <1>1, <3>1 DEF ReadLedger, TypeOK
  <2>4. HookInv(h)'
    <3>1. CASE OutOfWork(ledger) /\ copy' = [copy EXCEPT ![h] = [ledger EXCEPT !.exit = TRUE]]
               /\ pc' = [pc EXCEPT ![h] = "saving"]
      <4>1. LET l == [ledger EXCEPT !.exit = TRUE] IN
              l.index = ledger.index /\ l.retry = ledger.retry /\ l.complete = ledger.complete
        BY <2>1 DEF Ledger
      <4> QED BY <1>1, <2>1, <3>1, <4>1 DEF ReadLedger, HookInv, Sound, Accounts, Counts
    <3>2. CASE ~OutOfWork(ledger) /\ copy' = [copy EXCEPT ![h] = ledger]
               /\ task' = [task EXCEPT ![h] = ledger.index]
               /\ pc' = [pc EXCEPT ![h] = "validating"]
      BY <1>1, <2>1, <3>2 DEF ReadLedger, HookInv, Sound, Accounts, Counts, OutOfWork
    <3> QED BY <1>1, <3>1, <3>2 DEF ReadLedger
  <2>5. \A g \in Hook \ {h} : HookInv(g)'
    BY <1>1 DEF ReadLedger, HookInv, Sound, Accounts, Counts, OutOfWork
  <2>6. ThreeStrikes' /\ (ledger' # Torn => Sound(ledger)')
    BY <1>1, <2>1 DEF ReadLedger, ThreeStrikes, Sound, Accounts, Counts
  <2> QED BY <2>3, <2>4, <2>5, <2>6
<1>2. CASE ValidationPasses(h)
  <2> DEFINE l == copy[h]
  <2>1. ~OutOfWork(l) /\ l.complete = 0 /\ task[h] = l.index /\ Sound(l)
    BY <1>2 DEF ValidationPasses, HookInv, Sound, Counts
  <2>2. /\ l.index \in Task /\ ~BreakerFires(l)
        /\ Completed(l) \in Ledger /\ Completed(l).index = l.index + 1
        /\ Completed(l).retry = 0 /\ Completed(l).complete = 0
    BY <2>1, QueueOperators
  <2>3. /\ copy' = [copy EXCEPT ![h] = Completed(l)] /\ pc' = [pc EXCEPT ![h] = "saving"]
        /\ passed' = passed \cup {l.index}
        /\ UNCHANGED <<ledger, task, pending, failures, kills>>
    BY <1>2, <2>1, <2>2 DEF ValidationPasses
  <2>4. TypeOK'
    BY <2>2, <2>3 DEF TypeOK
  <2>5. HookInv(h)'
    <3>1. Accounts(Completed(l), passed' \cup pending')
      BY <2>1, <2>2, <2>3 DEF Sound, Accounts, Task
    <3> QED BY <2>2, <2>3, <3>1 DEF HookInv, Sound, Accounts, Counts
  <2>6. \A g \in Hook \ {h} : HookInv(g)'
    BY <2>3, OthersKeep DEF TypeOK
  <2>7. ThreeStrikes' /\ (ledger' # Torn => Sound(ledger)')
    BY <2>3 DEF ThreeStrikes, Sound, Accounts, Counts
  <2> QED BY <2>4, <2>5, <2>6, <2>7
<1>3. CASE ValidationFails(h)
  <2> DEFINE l == copy[h]
             i == task[h]
  <2>1. ~OutOfWork(l) /\ l.complete = 0 /\ i = l.index /\ Sound(l)
    BY <1>3 DEF ValidationFails, HookInv, Sound, Counts
  <2>2. /\ i \in Task /\ Failed(l) \in Ledger /\ Failed(l).complete = 0
        /\ GivesUp(l) => Failed(l).index = i + 1 /\ Failed(l).retry = 0
        /\ ~GivesUp(l) => Failed(l).index = i /\ Failed(l).retry = l.retry + 1
    BY <2>1, QueueOperators
  <2>3. /\ copy' = [copy EXCEPT ![h] = Failed(l)]
        /\ pc' = [pc EXCEPT ![h] = IF GivesUp(l) THEN "parking" ELSE "saving"]
        /\ failures' = [failures EXCEPT ![i] = IF @ < MaxRetries THEN @ + 1 ELSE @]
        /\ UNCHANGED <<ledger, task, pending, passed, kills>>
    BY <1>3 DEF ValidationFails
  <2>4. /\ failures' \in [Task -> 0..MaxRetries]
        /\ \A j \in Task : failures[j] <= failures'[j]
        /\ failures'[i] >= l.retry + 1
    <3>1. failures[i] >= l.retry /\ l.retry \in 0..(MaxRetries - 1)
      BY <2>1, <2>2 DEF Sound, Counts, Ledger
    <3> QED BY <2>2, <2>3, <3>1 DEF TypeOK
  <2>5. TypeOK'
    BY <2>2, <2>3, <2>4 DEF TypeOK
  <2>6. HookInv(h)'
    <3>1. CASE GivesUp(l)
      <4>1. failures'[i] >= MaxRetries
        BY <2>2, <2>4, <3>1 DEF GivesUp, Ledger
      <4>2. Accounts(Failed(l), passed' \cup pending' \cup {i})
        BY <2>1, <2>2, <2>3, <3>1 DEF Sound, Accounts, Task
      <4>3. Failed(l).index \in Task => failures'[Failed(l).index] >= Failed(l).retry
        BY <2>2, <2>4, <3>1
      <4> QED BY <2>2, <2>3, <3>1, <4>1, <4>2, <4>3 DEF HookInv, Sound, Accounts, Counts
    <3>2. CASE ~GivesUp(l)
      BY <2>1, <2>2, <2>3, <2>4, <3>2 DEF HookInv, Sound, Accounts, Counts
    <3> QED BY <3>1, <3>2
  <2>7. \A g \in Hook \ {h} : HookInv(g)'
    BY <2>3, <2>4, OthersKeep
  <2>8. ThreeStrikes'
    BY <2>3, <2>4 DEF ThreeStrikes, TypeOK
  <2>9. ledger' # Torn => Sound(ledger)'
    BY <2>3, <2>4, SoundKeeps DEF TypeOK, Sound, Accounts, Counts
  <2> QED BY <2>5, <2>6, <2>7, <2>8, <2>9
<1>4. CASE AppendPendingForHuman(h)
  <2>1. /\ task[h] \in Task /\ failures[task[h]] >= MaxRetries
        /\ Accounts(copy[h], passed \cup pending \cup {task[h]}) /\ Counts(copy[h])
        /\ pending' = pending \cup {task[h]} /\ pc' = [pc EXCEPT ![h] = "saving"]
        /\ UNCHANGED <<ledger, copy, task, passed, failures, kills>>
    BY <1>4 DEF AppendPendingForHuman, HookInv
  <2>2. TypeOK' /\ ThreeStrikes'
    BY <2>1 DEF TypeOK, ThreeStrikes
  <2>3. HookInv(h)'
    BY <2>1 DEF HookInv, Sound, Accounts, Counts
  <2>4. \A g \in Hook \ {h} : HookInv(g)'
    BY <2>1, OthersKeep DEF TypeOK
  <2>5. ledger' # Torn => Sound(ledger)'
    BY <2>1 DEF Sound, Accounts, Counts
  <2> QED BY <2>2, <2>3, <2>4, <2>5
<1>5. CASE TruncateLedger(h) \/ WriteLedger(h) \/ Kill(h)
  <2>1. /\ UNCHANGED <<copy, task, pending, passed, failures>>
        /\ pc' \in [Hook -> {"idle", "validating", "parking", "saving", "closing"}]
        /\ \A g \in Hook \ {h} : pc'[g] = pc[g]
        /\ pc'[h] = "idle" \/ (pc'[h] = "closing" /\ pc[h] = "saving")
        /\ kills' \in 0..MaxKills
    BY <1>5 DEF TruncateLedger, WriteLedger, Kill, TypeOK
  <2>2. ledger' \in {Torn, ledger} \/ (pc[h] = "closing" /\ ledger' = copy[h])
    BY <1>5 DEF TruncateLedger, WriteLedger, Kill
  <2>3. TypeOK' /\ ThreeStrikes'
    BY <2>1, <2>2 DEF TypeOK, ThreeStrikes
  <2>4. \A g \in Hook : HookInv(g)'
    BY <2>1 DEF HookInv, Sound, Accounts, Counts, OutOfWork
  <2>5. ledger' # Torn => Sound(ledger)'
    BY <2>1, <2>2 DEF HookInv, Sound, Accounts, Counts
  <2> QED BY <2>3, <2>4, <2>5
<1> QED BY <1>1, <1>2, <1>3, <1>4, <1>5 DEF HookStep

(* The invariant holds in every reachable state.                            *)
LEMMA IInvHolds == Spec => []IInv
<1>1. IInv /\ UNCHANGED vars => IInv'
  BY DEF vars, IInv, TypeOK, HookInv, Sound, Accounts, Counts, ThreeStrikes, OutOfWork
<1>2. IInv /\ [Next]_vars => IInv'
  BY <1>1, StepKeeps DEF Next
<1> QED BY <1>2, InitIInv, PTL DEF Spec

(* The ledger is always a ledger or torn, its counters within their limits. *)
THEOREM TypeCorrect == Spec => []TypeOK
BY IInvHolds, PTL DEF IInv

(* No task is passed over in silence (loop-runner.js, the error gate).      *)
THEOREM NoSilentSkipHolds == Spec => []NoSilentSkip
<1>1. IInv => NoSilentSkip
  BY DEF IInv, Sound, Accounts, NoSilentSkip
<1> QED BY <1>1, IInvHolds, PTL

(* A task is reported only after MaxRetries failures of its own.            *)
THEOREM ThreeStrikesHolds == Spec => []ThreeStrikes
BY IInvHolds, PTL DEF IInv

(* Every task is accounted for, for any numbers of runs, tasks, retries and *)
(* kills (loop-runner.js).                                                  *)
THEOREM QueueIsHonestHolds == Spec => []QueueIsHonest
<1>1. IInv => QueueIsHonest
  BY DEF IInv, Sound, Accounts, NoSilentSkip, QueueIsHonest
<1> QED BY <1>1, IInvHolds, PTL
-----------------------------------------------------------------------------
(* The installer: until the manifest is written, what is installed is owned *)
(* by the old manifest, copied by this install or left by one cut short.    *)

Registration == (Registered \X Place \X Form) \cup {OwnRegistration}

InstallTyped ==
  /\ repo \in Version /\ homeFile \in [File -> Version \cup {Absent, Edited}]
  /\ backups \subseteq File /\ owned \subseteq File
  /\ settings \subseteq Registration
  /\ install \in [at : {"none", "copying", "merged", "reaped"}, wanted : SUBSET File, done : SUBSET File]
  /\ install.done \subseteq install.wanted
  /\ install.at = "none" => install.done = {}

(* What is installed is owned, or was copied by this install or is a stray; *)
(* once the old files are reaped, the old manifest is not needed.           *)
Covered ==
  \A f \in File : homeFile[f] # Absent =>
    f \in install.done \cup strays \cup (IF install.at = "reaped" THEN {} ELSE owned)

OnceRegistered ==
  \A h \in Registered, p \in Place :
    ~(<<h, p, "home">> \in settings /\ <<h, p, "absolute">> \in settings)

InstInv == InstallTyped /\ Covered /\ OnceRegistered

(* The hook of the user is not one of ours.                                 *)
LEMMA OwnHookIsApart == OwnHook \notin Registered
BY HooksAreCore, OwnHookIsNotOurs

(* Nothing is installed.                                                    *)
LEMMA InstallStarts == InstInit => InstInv
<1> SUFFICES ASSUME InstInit PROVE InstInv
  OBVIOUS
<1>1. NoInstall \in [at : {"none", "copying", "merged", "reaped"}, wanted : SUBSET File, done : SUBSET File]
      /\ NoInstall.done = {} /\ NoInstall.wanted = {}
  BY DEF NoInstall
<1>2. repo \in Version
  BY VersionsShip DEF InstInit, Version
<1>3. settings \subseteq Registration
  BY DEF InstInit, Registration
<1>4. InstallTyped
  BY <1>1, <1>2, <1>3 DEF InstInit, InstallTyped
<1>5. Covered /\ OnceRegistered
  BY OwnHookIsApart DEF InstInit, Covered, OnceRegistered, OwnRegistration
<1> QED BY <1>4, <1>5 DEF InstInv

(* Every step of an install, an uninstall and the user keeps it.            *)
LEMMA InstallStepKeeps == InstInv /\ [InstNext]_instVars => InstInv'
<1> SUFFICES ASSUME InstInv, [InstNext]_instVars PROVE InstInv'
  OBVIOUS
<1> USE DEF InstInv
<1>0. Absent \notin Version /\ Edited # Absent
  BY VersionsShip DEF Version, Absent, Edited
<1>1. ASSUME NEW coreOnly \in BOOLEAN, NEW ready \in BOOLEAN, Start(coreOnly, ready) PROVE InstInv'
  <2>1. Wanted(repo, coreOnly, ready) \subseteq File
    BY VersionsShip DEF Wanted, InstallTyped, Version
  <2>2. PICK i : i = [at |-> "copying", wanted |-> Wanted(repo, coreOnly, ready), done |-> {}]
    OBVIOUS
  <2>3. /\ i \in [at : {"none", "copying", "merged", "reaped"}, wanted : SUBSET File, done : SUBSET File]
        /\ i.done = {} /\ i.at = "copying"
    BY <2>1, <2>2
  <2>4. install' = i /\ install.done = {} /\ install.at = "none"
        /\ UNCHANGED <<repo, homeFile, backups, owned, settings, settingsOwned, strays>>
    BY <1>1, <2>2 DEF Start, InstallTyped
  <2>5. InstallTyped'
    BY <2>3, <2>4 DEF InstallTyped
  <2> QED BY <2>3, <2>4, <2>5 DEF Covered, OnceRegistered
<1>2. ASSUME NEW f \in File, Copies(f) PROVE InstInv'
  <2>1. PICK i : i = [install EXCEPT !.done = install.done \cup {f}]
    OBVIOUS
  <2>2. /\ i \in [at : {"none", "copying", "merged", "reaped"}, wanted : SUBSET File, done : SUBSET File]
        /\ i.done = install.done \cup {f} /\ i.at = "copying" /\ i.wanted = install.wanted
    BY <1>2, <2>1 DEF Copies, InstallTyped
  <2>3. /\ install' = i /\ f \in install.wanted /\ install.at = "copying"
        /\ homeFile' = [homeFile EXCEPT ![f] = repo]
        /\ backups' \subseteq backups \cup {f}
        /\ UNCHANGED <<repo, owned, settings, settingsOwned, strays>>
    BY <1>2, <2>1 DEF Copies
  <2>4. InstallTyped'
    BY <2>2, <2>3 DEF InstallTyped
  <2>5. Covered'
    BY <2>2, <2>3 DEF Covered, InstallTyped
  <2> QED BY <2>3, <2>4, <2>5 DEF OnceRegistered
<1>3. CASE MergesHooks
  <2>1. PICK i : i = [install EXCEPT !.at = "merged"]
    OBVIOUS
  <2>2. /\ i \in [at : {"none", "copying", "merged", "reaped"}, wanted : SUBSET File, done : SUBSET File]
        /\ i.done = install.done /\ i.at = "merged" /\ i.wanted = install.wanted
    BY <1>3, <2>1 DEF MergesHooks, InstallTyped
  <2>3. PICK place : place = PlaceOf[repo]
    OBVIOUS
  <2>9. PICK new : new = Missing(Ships[repo] \cap Registered, place)
    OBVIOUS
  <2>10. \A h \in Registered : place[h] \in Place
    BY <2>3, HooksHavePlaces DEF InstallTyped, Version
  <2>4. \A x \in new : \E h \in Registered, p \in Place :
          x = <<h, p, "home">> /\ \A form \in Form : <<h, p, form>> \notin settings
    BY <2>9, <2>10 DEF Missing
  <2>5. /\ install' = i /\ install.at = "copying" /\ settings' = settings \cup new
        /\ UNCHANGED <<repo, homeFile, backups, owned, settingsOwned, strays>>
    BY <1>3, <2>1, <2>3, <2>9 DEF MergesHooks
  <2>6. new \subseteq Registration
    <3>1. \A h \in Registered, p \in Place : <<h, p, "home">> \in Registration
      BY DEF Form, Registration
    <3>2. ASSUME NEW x \in new PROVE x \in Registration
      BY <2>4, <3>1
    <3> QED BY <3>2
  <2>7. InstallTyped'
    BY <2>2, <2>5, <2>6 DEF InstallTyped
  <2>8. OnceRegistered'
    BY <2>4, <2>5 DEF OnceRegistered, Form
  <2> QED BY <2>2, <2>5, <2>7, <2>8 DEF Covered
<1>4. ASSUME NEW kept \in SUBSET File, Reaps(kept) PROVE InstInv'
  <2>1. PICK i : i = [install EXCEPT !.at = "reaped"]
    OBVIOUS
  <2>2. /\ i \in [at : {"none", "copying", "merged", "reaped"}, wanted : SUBSET File, done : SUBSET File]
        /\ i.done = install.done /\ i.at = "reaped" /\ i.wanted = install.wanted
    BY <1>4, <2>1 DEF Reaps, InstallTyped
  <2>3. PICK old : old = {f \in owned \ install.done : homeFile[f] # Absent} \ kept
    OBVIOUS
  <2>4. /\ install' = i /\ install.at = "merged"
        /\ homeFile' = [f \in File |-> IF f \in old THEN Absent ELSE homeFile[f]]
        /\ strays' = strays \cup kept
        /\ UNCHANGED <<repo, backups, owned, settings, settingsOwned>>
    BY <1>4, <2>1, <2>3 DEF Reaps, Stale, Without
  <2>5. InstallTyped'
    BY <2>2, <2>4 DEF InstallTyped
  <2>6. Covered'
    BY <2>2, <2>3, <2>4 DEF Covered, InstallTyped
  <2> QED BY <2>4, <2>5, <2>6 DEF OnceRegistered
<1>5. /\ NoInstall \in [at : {"none", "copying", "merged", "reaped"}, wanted : SUBSET File, done : SUBSET File]
      /\ NoInstall.at = "none" /\ NoInstall.done = {} /\ NoInstall.wanted = {}
  BY DEF NoInstall
<1>6. CASE WritesManifest
  BY <1>5, <1>6 DEF WritesManifest, InstallTyped, Covered, OnceRegistered
<1>7. CASE Interrupted
  BY <1>5, <1>7 DEF Interrupted, InstallTyped, Covered, OnceRegistered
<1>8. CASE Uninstalls
  <2>1. InstallTyped'
    BY <1>8 DEF Uninstalls, InstallTyped, Without
  <2>2. Covered'
    BY <1>8 DEF Uninstalls, Covered, InstallTyped, Without
  <2>3. OnceRegistered'
    BY <1>8 DEF Uninstalls, OnceRegistered
  <2> QED BY <2>1, <2>2, <2>3
<1>9. ASSUME NEW v \in Version, Pulls(v) PROVE InstInv'
  BY <1>9 DEF Pulls, InstallTyped, Covered, OnceRegistered
<1>10. ASSUME NEW f \in File, UserEdits(f) PROVE InstInv'
  BY <1>0, <1>10 DEF UserEdits, InstallTyped, Covered, OnceRegistered
<1>11. ASSUME NEW h \in Registered, NEW p \in Place, UserRewritesHook(h, p) PROVE InstInv'
  <2>1. settings' = (settings \ {<<h, p, "home">>}) \cup {<<h, p, "absolute">>}
        /\ UNCHANGED <<repo, homeFile, backups, owned, settingsOwned, install, strays>>
    BY <1>11 DEF UserRewritesHook
  <2>2. <<h, p, "absolute">> \in Registration
    BY DEF Form, Registration
  <2>3. InstallTyped'
    BY <2>1, <2>2 DEF InstallTyped
  <2>4. OnceRegistered'
    BY <2>1 DEF OnceRegistered
  <2> QED BY <2>1, <2>3, <2>4 DEF Covered
<1>13. ASSUME NEW some \in SUBSET File, UninstallStops(some) PROVE InstInv'
  <2>1. /\ homeFile' = [f \in File |-> IF f \in some THEN Absent ELSE homeFile[f]]
        /\ UNCHANGED <<repo, backups, owned, settings, settingsOwned, install, strays>>
    BY <1>13 DEF UninstallStops, Without
  <2>2. InstallTyped'
    BY <2>1 DEF InstallTyped
  <2>3. Covered'
    BY <2>1 DEF Covered, InstallTyped
  <2> QED BY <2>1, <2>2, <2>3 DEF OnceRegistered
<1>12. CASE UNCHANGED instVars
  BY <1>12 DEF instVars, InstallTyped, Covered, OnceRegistered
<1> HIDE DEF InstInv
<1> QED
  BY <1>1, <1>2, <1>3, <1>4, <1>6, <1>7, <1>8, <1>9, <1>10, <1>11, <1>12, <1>13 DEF InstNext

(* So the manifest covers what is installed, and no hook is there twice.    *)
LEMMA InstInvIsSafe == InstInv => InstTypeOK /\ ManifestCoversHome /\ NoDuplicateHooks
<1> SUFFICES ASSUME InstInv PROVE InstTypeOK /\ ManifestCoversHome /\ NoDuplicateHooks
  OBVIOUS
<1>1. InstTypeOK /\ ManifestCoversHome
  BY DEF InstInv, InstallTyped, Covered, InstTypeOK, ManifestCoversHome, Registration
<1>2. ASSUME NEW h \in Registered, NEW p \in Place
      PROVE  Cardinality({form \in Form : <<h, p, form>> \in settings}) <= 1
  <2>1. PICK S : S = {form \in Form : <<h, p, form>> \in settings}
    OBVIOUS
  <2>2. S = {} \/ S = {"home"} \/ S = {"absolute"}
    BY <2>1 DEF InstInv, OnceRegistered, Form
  <2>3. Cardinality(S) \in {0, 1}
    BY <2>2, FS_EmptySet, FS_Singleton
  <2> QED BY <2>1, <2>3
<1>3. NoDuplicateHooks
  BY <1>2 DEF NoDuplicateHooks
<1> QED BY <1>1, <1>3

(* An edited file changes only with a backup, or is removed.                *)
LEMMA EditsStay ==
  ASSUME InstInv, [InstNext]_instVars, NEW f \in File, homeFile[f] = Edited, homeFile'[f] # Edited
  PROVE  f \in backups' \/ homeFile'[f] = Absent
<1>1. homeFile' # homeFile /\ homeFile \in [File -> Version \cup {Absent, Edited}]
  BY DEF InstInv, InstallTyped
<1>2. Edited \notin Version
  BY VersionsShip DEF Version, Edited
<1>3. \/ \E g \in File : Copies(g) \/ UserEdits(g)
      \/ \E some \in SUBSET File : Reaps(some) \/ UninstallStops(some)
      \/ Uninstalls
  BY <1>1 DEF InstNext, instVars, Start, MergesHooks, WritesManifest, Interrupted, Pulls, UserRewritesHook
<1>4. ASSUME NEW g \in File, Copies(g) PROVE f \in backups'
  BY <1>1, <1>4 DEF Copies
<1>5. ASSUME NEW g \in File, UserEdits(g) PROVE FALSE
  BY <1>1, <1>2, <1>5 DEF UserEdits
<1>6. ASSUME NEW gone, homeFile' = Without(gone) PROVE homeFile'[f] = Absent
  BY <1>1, <1>6 DEF Without
<1>7. (\E some \in SUBSET File : Reaps(some) \/ UninstallStops(some)) \/ Uninstalls
        => \E gone : homeFile' = Without(gone)
  BY DEF Reaps, UninstallStops, Uninstalls
<1> QED BY <1>3, <1>4, <1>5, <1>6, <1>7

(* Installs, installs cut short, pulls, user edits and uninstalls in any    *)
(* order, for any files and versions, and whatever cannot be removed: no    *)
(* edit is lost without a backup, no hook is registered twice in one place, *)
(* in whatever form, and the manifest lists every file that came from the   *)
(* repository but those of an install cut short and those that a reap could *)
(* not remove (install-apply.js, uninstall.js).                             *)
THEOREM InstallerCorrectHolds == InstSpec => InstallerCorrect
<1>1. InstInv /\ [InstNext]_instVars =>
        [\A f \in File : homeFile[f] = Edited /\ homeFile'[f] # Edited
           => f \in backups' \/ homeFile'[f] = Absent]_instVars
  BY EditsStay
<1> QED BY <1>1, InstallStarts, InstallStepKeeps, InstInvIsSafe, PTL
        DEF InstSpec, InstallerCorrect, EditsRecoverable
-----------------------------------------------------------------------------
(* The edit guards: what a call has been told holds of a read in the past,  *)
(* and sentinels, calls that have one of their own and Writes are counted   *)
(* together.                                                                *)

ReadPlace == {"expiring", "recording"}
EditPlace == {"judging", "disarming", "permitted"}
ReadCall == [at : ReadPlace, key : Key, path : Path]
EditCall == [at : EditPlace, key : Key, path : Path, shrinks : BOOLEAN, existed : BOOLEAN,
             shares : BOOLEAN]
Call == {NoToolCall} \cup ReadCall \cup EditCall

EditTyped ==
  /\ tracked \in [Key -> SUBSET Path] /\ stale \in [Key -> BOOLEAN]
  /\ everRead \in [Key -> SUBSET Path]
  /\ onDisk \subseteq Path /\ sentinel \subseteq Path /\ IsFiniteSet(sentinel)
  /\ toolCall \in [ToolCall -> Call]
  /\ allowed \in Nat /\ shrunk \in Nat

(* What is tracked, or about to be, was read; and so was the file that an   *)
(* edit under way found.                                                    *)
WasRead(r) == r.path \in everRead[r.key]
CallWasRead(r) == (r.at \in ReadPlace => WasRead(r)) /\ (r.at \in EditPlace /\ r.existed => WasRead(r))
TrackedWasRead ==
  /\ \A k \in Key : tracked[k] \subseteq everRead[k]
  /\ \A c \in ToolCall : CallWasRead(toolCall[c])

Disarms1(r) == r.at = "disarming"
Sole1(r) == (r.at = "disarming" \/ (r.at = "permitted" /\ r.shrinks)) /\ ~r.shares

(* The calls that have a sentinel of their own, and the sentinels that no   *)
(* call has found yet and that could still be removed.                      *)
Sole == {c \in ToolCall : Sole1(toolCall[c])}
Free == {p \in sentinel \ standing :
           \A c \in ToolCall : ~(Disarms1(toolCall[c]) /\ toolCall[c].path = p)}

(* Every sentinel ever made is free, has a call of its own or was used up   *)
(* by a Write, if it did not go otherwise.                                  *)
Accounted == IsFiniteSet(Sole) /\ shrunk + Cardinality(Sole) + Cardinality(Free) <= allowed

EditInv == EditTyped /\ TrackedWasRead /\ Accounted /\ ~blind

(* The place of a call tells whether it is a read or an edit.               *)
LEMMA CallKinds ==
  ASSUME NEW r \in Call
  PROVE  /\ r.at \in ReadPlace => r \in ReadCall
         /\ r.at \in EditPlace => r \in EditCall
BY DEF Call, NoToolCall, ReadCall, EditCall, ReadPlace, EditPlace

(* No call is neither.                                                      *)
LEMMA IdleCall ==
  /\ NoToolCall \in Call /\ NoToolCall.at = "idle" /\ ~Disarms1(NoToolCall) /\ ~Sole1(NoToolCall)
BY DEF Call, NoToolCall, Disarms1, Sole1

(* No file is tracked and no call is under way.                             *)
LEMMA EditStarts == EditInit => EditInv
<1> SUFFICES ASSUME EditInit PROVE EditInv
  OBVIOUS
<1>1. EditTyped
  BY IdleCall, FS_EmptySet DEF EditInit, EditTyped
<1>2. TrackedWasRead
  BY IdleCall DEF EditInit, TrackedWasRead, CallWasRead, ReadPlace, EditPlace
<1>3. Sole = {} /\ Free = {}
  BY IdleCall DEF EditInit, Sole, Free
<1>4. Cardinality(Sole) = 0 /\ Cardinality(Free) = 0 /\ IsFiniteSet(Sole)
  BY <1>3, FS_EmptySet
<1>5. Accounted
  BY <1>4 DEF EditInit, Accounted
<1> QED BY <1>1, <1>2, <1>5 DEF EditInit, EditInv

(* Never more than there were.                                              *)
LEMMA NoMoreCounted ==
  ASSUME EditInv, Sole' \subseteq Sole, Free' \subseteq Free, UNCHANGED <<shrunk, allowed>>
  PROVE  Accounted'
<1>1. IsFiniteSet(Sole) /\ IsFiniteSet(Free) /\ Free \subseteq sentinel
  BY FS_Subset DEF EditInv, EditTyped, Accounted, Free
<1>2. /\ IsFiniteSet(Sole') /\ Cardinality(Sole') <= Cardinality(Sole)
      /\ IsFiniteSet(Free') /\ Cardinality(Free') <= Cardinality(Free)
  BY <1>1, FS_Subset
<1>3. /\ Cardinality(Sole) \in Nat /\ Cardinality(Free) \in Nat
      /\ Cardinality(Sole') \in Nat /\ Cardinality(Free') \in Nat
  BY <1>1, <1>2, FS_CardinalityType
<1> QED BY <1>2, <1>3 DEF EditInv, EditTyped, Accounted

(* A call moves on: what becomes of the calls, and of those that have a     *)
(* sentinel of their own.                                                   *)
LEMMA CallMoves ==
  ASSUME EditTyped, NEW c \in ToolCall, NEW r \in Call, toolCall' = [toolCall EXCEPT ![c] = r]
  PROVE  /\ toolCall' \in [ToolCall -> Call] /\ toolCall'[c] = r
         /\ \A d \in ToolCall \ {c} : toolCall'[d] = toolCall[d]
         /\ Sole' = IF Sole1(r) THEN Sole \cup {c} ELSE Sole \ {c}
<1>1. toolCall \in [ToolCall -> Call]
  BY DEF EditTyped
<1>2. toolCall' \in [ToolCall -> Call]
  BY <1>1
<1>3. toolCall'[c] = r
  BY <1>1
<1>4. \A d \in ToolCall \ {c} : toolCall'[d] = toolCall[d]
  BY <1>1
<1>5. \A d \in ToolCall : Sole1(toolCall'[d]) = IF d = c THEN Sole1(r) ELSE Sole1(toolCall[d])
  BY <1>3, <1>4
<1>6. Sole' = IF Sole1(r) THEN Sole \cup {c} ELSE Sole \ {c}
  BY <1>5 DEF Sole, Sole1
<1> QED BY <1>2, <1>3, <1>4, <1>6

(* Where a call that had found no sentinel moves on, no sentinel is set     *)
(* free.                                                                    *)
LEMMA NoneSetFree ==
  ASSUME EditTyped, NEW c \in ToolCall, NEW r \in Call, toolCall' = [toolCall EXCEPT ![c] = r],
         ~Disarms1(toolCall[c]), UNCHANGED <<sentinel, standing>>
  PROVE  Free' \subseteq Free
<1>1. \A d \in ToolCall \ {c} : toolCall'[d] = toolCall[d]
  BY CallMoves
<1>2. ASSUME NEW p \in Free', NEW d \in ToolCall
      PROVE  ~(Disarms1(toolCall[d]) /\ toolCall[d].path = p)
  BY <1>1, <1>2 DEF Free, Disarms1
<1> QED BY <1>2 DEF Free

(* A call that has no sentinel before and after.                            *)
LEMMA QuietMove ==
  ASSUME EditInv, NEW c \in ToolCall, NEW r \in Call, toolCall' = [toolCall EXCEPT ![c] = r],
         ~Sole1(r), ~Disarms1(toolCall[c]), UNCHANGED <<sentinel, allowed, shrunk, standing>>
  PROVE  Accounted'
<1>1. EditTyped
  BY DEF EditInv
<1>2. Sole' = Sole \ {c} /\ Free' \subseteq Free
  BY <1>1, CallMoves, NoneSetFree
<1> QED BY <1>2, NoMoreCounted

(* The tracking file changes, and the call of a read goes on.               *)
LEMMA TracksReadKeeps ==
  ASSUME EditInv, NEW c \in ToolCall, NEW k \in Key, NEW p \in Path, TracksRead(c, k, p) PROVE EditInv'
<1>1. PICK r : r = Reading(IF stale[k] /\ tracked[k] # {} THEN "expiring" ELSE "recording", k, p)
  OBVIOUS
<1>2. r \in ReadCall /\ r.key = k /\ r.path = p /\ r.at \in ReadPlace
  BY <1>1 DEF Reading, ReadCall, ReadPlace
<1>3. r \in Call /\ ~Sole1(r) /\ r.at \notin EditPlace
  BY <1>2 DEF Call, ReadPlace, EditPlace, Sole1
<1>4. /\ toolCall' = [toolCall EXCEPT ![c] = r] /\ toolCall[c].at = "idle"
      /\ everRead' = [everRead EXCEPT ![k] = everRead[k] \cup {p}]
      /\ UNCHANGED <<tracked, stale, onDisk, sentinel, allowed, shrunk, blind, standing>>
  BY <1>1 DEF TracksRead, Moves
<1>5. EditTyped
  BY DEF EditInv
<1>6. /\ toolCall' \in [ToolCall -> Call] /\ toolCall'[c] = r
      /\ \A d \in ToolCall \ {c} : toolCall'[d] = toolCall[d]
  BY <1>3, <1>4, <1>5, CallMoves
<1>7. Accounted'
  BY <1>3, <1>4, QuietMove DEF Disarms1, Sole1
<1>8. EditTyped'
  BY <1>4, <1>5, <1>6 DEF EditTyped
<1>9. \A j \in Key : everRead[j] \subseteq everRead'[j] /\ p \in everRead'[k]
  BY <1>4, <1>5 DEF EditTyped
<1>10. ASSUME NEW d \in ToolCall PROVE CallWasRead(toolCall[d])'
  <2>1. CASE d = c
    BY <1>2, <1>3, <1>6, <1>9, <2>1 DEF CallWasRead, WasRead
  <2>2. CASE d # c
    <3>1. PICK s \in Call : s = toolCall[d]
      BY <1>5 DEF EditTyped
    <3>2. CallWasRead(s) /\ toolCall'[d] = s
      BY <1>6, <2>2, <3>1 DEF EditInv, TrackedWasRead
    <3>3. s.at \in ReadPlace \cup EditPlace => s.key \in Key
      BY CallKinds DEF ReadCall, EditCall
    <3> QED BY <1>9, <3>2, <3>3 DEF CallWasRead, WasRead
  <2> QED BY <2>1, <2>2
<1>11. TrackedWasRead'
  BY <1>4, <1>9, <1>10 DEF EditInv, TrackedWasRead
<1> QED BY <1>4, <1>7, <1>8, <1>11 DEF EditInv

(* The hook of a read moves on, and what it tracks was read.                *)
LEMMA ReadCallGoes ==
  ASSUME EditInv, NEW c \in ToolCall, toolCall[c].at \in ReadPlace,
         NEW r \in {NoToolCall, [toolCall[c] EXCEPT !.at = "recording"]},
         toolCall' = [toolCall EXCEPT ![c] = r],
         UNCHANGED <<onDisk, sentinel, everRead, allowed, shrunk, blind, standing>>,
         tracked' \in [Key -> SUBSET Path], stale' \in [Key -> BOOLEAN],
         \A k \in Key : tracked'[k] \subseteq everRead[k]
  PROVE  EditInv'
<1>1. EditTyped
  BY DEF EditInv
<1>2. PICK s \in ReadCall : s = toolCall[c] /\ CallWasRead(s)
  BY <1>1, CallKinds DEF EditTyped, EditInv, TrackedWasRead
<1>3. WasRead(s)
  BY <1>2 DEF CallWasRead
<1>4. r = NoToolCall \/ r = [s EXCEPT !.at = "recording"]
  BY <1>2
<1>5. r \in Call /\ ~Sole1(r) /\ CallWasRead(r)
  <2>1. CASE r = NoToolCall
    BY <2>1, IdleCall DEF CallWasRead, ReadPlace, EditPlace
  <2>2. CASE r = [s EXCEPT !.at = "recording"]
    <3>1. r \in ReadCall /\ r.at = "recording" /\ r.key = s.key /\ r.path = s.path
      BY <2>2 DEF ReadCall, ReadPlace
    <3> QED BY <1>3, <3>1 DEF CallWasRead, WasRead, Call, Sole1, EditPlace
  <2> QED BY <1>4, <2>1, <2>2
<1>6. /\ toolCall' \in [ToolCall -> Call] /\ toolCall'[c] = r
      /\ \A d \in ToolCall \ {c} : toolCall'[d] = toolCall[d]
  BY <1>1, <1>5, CallMoves
<1>7. ~Disarms1(toolCall[c])
  BY DEF ReadPlace, Disarms1
<1>8. Accounted'
  BY <1>5, <1>7, QuietMove
<1>9. EditTyped'
  BY <1>1, <1>6 DEF EditTyped
<1>10. ASSUME NEW d \in ToolCall PROVE CallWasRead(toolCall[d])'
  <2>1. CASE d = c
    BY <1>5, <1>6, <2>1 DEF CallWasRead, WasRead
  <2>2. CASE d # c
    BY <1>6, <2>2 DEF EditInv, TrackedWasRead, CallWasRead, WasRead
  <2> QED BY <2>1, <2>2
<1>11. TrackedWasRead'
  BY <1>10 DEF TrackedWasRead
<1> QED BY <1>8, <1>9, <1>11 DEF EditInv

(* The tracking file is removed, by this instance or by another before it.  *)
LEMMA ExpiresKeeps == ASSUME EditInv, NEW c \in ToolCall, Expires(c) PROVE EditInv'
<1>1. PICK r : r = IF tracked[toolCall[c].key] = {} THEN NoToolCall ELSE [toolCall[c] EXCEPT !.at = "recording"]
  OBVIOUS
<1>2. PICK k : k = toolCall[c].key
  OBVIOUS
<1>3. /\ toolCall[c].at = "expiring" /\ toolCall' = [toolCall EXCEPT ![c] = r]
      /\ tracked' = [tracked EXCEPT ![k] = {}] /\ stale' = [stale EXCEPT ![k] = FALSE]
      /\ UNCHANGED <<onDisk, sentinel, everRead, allowed, shrunk, blind, standing>>
  BY <1>1, <1>2 DEF Expires, Moves
<1>4. tracked \in [Key -> SUBSET Path] /\ stale \in [Key -> BOOLEAN] /\ \A j \in Key : tracked[j] \subseteq everRead[j]
  BY DEF EditInv, EditTyped, TrackedWasRead
<1>5. tracked' \in [Key -> SUBSET Path] /\ \A j \in Key : tracked'[j] \subseteq everRead[j]
  BY <1>3, <1>4
<1>6. stale' \in [Key -> BOOLEAN]
  BY <1>3, <1>4
<1>7. toolCall[c].at \in ReadPlace /\ r \in {NoToolCall, [toolCall[c] EXCEPT !.at = "recording"]}
  BY <1>1, <1>3 DEF ReadPlace
<1> QED BY <1>3, <1>5, <1>6, <1>7, ReadCallGoes

(* The path is added to the tracking file.                                  *)
LEMMA RecordsKeeps == ASSUME EditInv, NEW c \in ToolCall, Records(c) PROVE EditInv'
<1>1. PICK s : s = toolCall[c]
  OBVIOUS
<1>2. /\ s.at = "recording" /\ toolCall' = [toolCall EXCEPT ![c] = NoToolCall]
      /\ tracked' = [tracked EXCEPT ![s.key] = tracked[s.key] \cup {s.path}]
      /\ stale' = [stale EXCEPT ![s.key] = FALSE]
      /\ UNCHANGED <<onDisk, sentinel, everRead, allowed, shrunk, blind, standing>>
  BY <1>1 DEF Records, Moves
<1>3. s.at \in ReadPlace
  BY <1>2 DEF ReadPlace
<1>4. s \in ReadCall /\ WasRead(s)
  BY <1>1, <1>3, CallKinds DEF EditInv, EditTyped, TrackedWasRead, CallWasRead
<1>5. s.key \in Key /\ s.path \in Path /\ s.path \in everRead[s.key]
  BY <1>4 DEF ReadCall, WasRead
<1>6. tracked \in [Key -> SUBSET Path] /\ stale \in [Key -> BOOLEAN] /\ \A j \in Key : tracked[j] \subseteq everRead[j]
  BY DEF EditInv, EditTyped, TrackedWasRead
<1>7. tracked' \in [Key -> SUBSET Path] /\ \A j \in Key : tracked'[j] \subseteq everRead[j]
  BY <1>2, <1>5, <1>6
<1>8. stale' \in [Key -> BOOLEAN]
  BY <1>2, <1>6
<1> QED BY <1>1, <1>2, <1>3, <1>7, <1>8, ReadCallGoes

(* Time changes only the age of the file.                                   *)
LEMMA FourHoursKeep == ASSUME EditInv, NEW k \in Key, FourHoursPass(k) PROVE EditInv'
BY DEF FourHoursPass, EditInv, EditTyped, TrackedWasRead, CallWasRead, WasRead, Accounted,
       Sole, Free, Disarms1, Sole1

-----------------------------------------------------------------------------
(* Edits: the call of an edit goes on, and the other calls stay.            *)
LEMMA EditCallGoes ==
  ASSUME EditInv, NEW c \in ToolCall, NEW r \in Call, CallWasRead(r),
         toolCall' = [toolCall EXCEPT ![c] = r],
         onDisk' \subseteq Path, sentinel' \subseteq sentinel, shrunk' \in Nat, ~blind',
         UNCHANGED <<tracked, stale, everRead, allowed>>
  PROVE  EditTyped' /\ TrackedWasRead' /\ ~blind'
<1>1. EditTyped
  BY DEF EditInv
<1>2. /\ toolCall' \in [ToolCall -> Call] /\ toolCall'[c] = r
      /\ \A d \in ToolCall \ {c} : toolCall'[d] = toolCall[d]
  BY <1>1, CallMoves
<1>3. IsFiniteSet(sentinel')
  BY <1>1, FS_Subset DEF EditTyped
<1>4. EditTyped'
  BY <1>1, <1>2, <1>3 DEF EditTyped
<1>5. ASSUME NEW d \in ToolCall PROVE CallWasRead(toolCall[d])'
  <2>1. CASE d = c
    BY <1>2, <2>1 DEF CallWasRead, WasRead
  <2>2. CASE d # c
    BY <1>2, <2>2 DEF EditInv, TrackedWasRead, CallWasRead, WasRead
  <2> QED BY <2>1, <2>2
<1> QED BY <1>4, <1>5 DEF EditInv, TrackedWasRead

(* A call is let through only for a file that is new or was read.           *)
LEMMA AsksToEditKeeps ==
  ASSUME EditInv, NEW c \in ToolCall, NEW k \in Key, NEW p \in Path, NEW shrinks \in BOOLEAN,
         AsksToEdit(c, k, p, shrinks)
  PROVE  EditInv'
<1>1. PICK b \in BOOLEAN : b = (shrinks /\ p \in onDisk)
  OBVIOUS
<1>2. PICK e \in BOOLEAN : e = (p \in onDisk)
  <2>1. (p \in onDisk) \in BOOLEAN
    OBVIOUS
  <2> QED BY <2>1, Zenon
<1>3. PICK a \in EditPlace : a = IF b THEN "judging" ELSE "permitted"
  BY DEF EditPlace
<1>4. PICK r : r = [at |-> a, key |-> k, path |-> p, shrinks |-> b, existed |-> e, shares |-> FALSE]
  OBVIOUS
<1>5. r \in EditCall /\ r.at = a /\ r.key = k /\ r.path = p /\ r.shrinks = b /\ r.existed = e
  BY <1>4 DEF EditCall
<1>6. r \in Call /\ ~Sole1(r)
  BY <1>3, <1>5 DEF Call, Sole1
<1>7. /\ toolCall[c].at = "idle" /\ MayEdit(k, p) /\ toolCall' = [toolCall EXCEPT ![c] = r]
      /\ UNCHANGED <<tracked, stale, onDisk, sentinel, everRead, allowed, shrunk, blind, standing>>
  BY <1>1, <1>2, <1>3, <1>4 DEF AsksToEdit, Moves, Editing
<1>8. e => p \in everRead[k]
  BY <1>2, <1>7 DEF MayEdit, EditInv, TrackedWasRead
<1>9. CallWasRead(r)
  BY <1>5, <1>8 DEF CallWasRead, WasRead, ReadPlace, EditPlace
<1>10. onDisk' \subseteq Path /\ shrunk' \in Nat /\ ~blind' /\ sentinel' \subseteq sentinel
  BY <1>7 DEF EditInv, EditTyped
<1>11. EditTyped' /\ TrackedWasRead' /\ ~blind'
  BY <1>6, <1>7, <1>9, <1>10, EditCallGoes
<1>12. Accounted'
  BY <1>6, <1>7, QuietMove DEF Disarms1, Sole1
<1> QED BY <1>11, <1>12 DEF EditInv

(* The file of an edit under way was read, wherever the call stands.        *)
LEMMA EditGoesTo ==
  ASSUME EditInv, NEW c \in ToolCall, NEW s \in EditCall, s = toolCall[c],
         NEW r \in EditCall, r.path = s.path, r.key = s.key, r.existed = s.existed
  PROVE  r \in Call /\ CallWasRead(r)
<1>1. CallWasRead(s) /\ s.at \in EditPlace /\ r.at \in EditPlace /\ r.at \notin ReadPlace
  BY DEF EditInv, TrackedWasRead, ReadPlace, EditPlace, EditCall
<1> QED BY <1>1 DEF CallWasRead, WasRead, Call

(* The sentinel that a call finds is its own, if the call does not share    *)
(* it.                                                                      *)
LEMMA JudgesShrinkKeeps == ASSUME EditInv, NEW c \in ToolCall, JudgesShrink(c) PROVE EditInv'
<1>1. /\ toolCall[c].at = "judging"
      /\ UNCHANGED <<tracked, stale, onDisk, sentinel, everRead, allowed, shrunk, blind, standing>>
  BY DEF JudgesShrink
<1>2. onDisk' \subseteq Path /\ shrunk' \in Nat /\ ~blind' /\ sentinel' \subseteq sentinel /\ EditTyped
  BY <1>1 DEF EditInv, EditTyped
<1>3. ~Disarms1(toolCall[c]) /\ c \notin Sole
  BY <1>1 DEF Disarms1, Sole1, Sole
<1>4. CASE toolCall[c].path \in sentinel
  <2>1. PICK b \in BOOLEAN : b = Shares(c)
    <3>1. Shares(c) \in BOOLEAN
      BY DEF Shares
    <3> QED BY <3>1, Zenon
  <2>10. PICK s \in EditCall : s = toolCall[c]
    BY <1>1, CallKinds DEF EditInv, EditTyped, EditPlace
  <2>2. PICK r : r = [s EXCEPT !.at = "disarming", !.shares = b]
    OBVIOUS
  <2>11. /\ r \in EditCall /\ r.at = "disarming" /\ r.path = s.path /\ r.key = s.key
         /\ r.existed = s.existed /\ r.shares = b
    BY <2>2 DEF EditCall, EditPlace
  <2>3. /\ r \in Call /\ r.at = "disarming" /\ r.path = toolCall[c].path
        /\ r.shares = b /\ CallWasRead(r)
    BY <2>10, <2>11, EditGoesTo
  <2>4. toolCall' = [toolCall EXCEPT ![c] = r]
    BY <1>4, <2>1, <2>2, <2>10 DEF JudgesShrink, Moves
  <2>5. EditTyped' /\ TrackedWasRead' /\ ~blind'
    BY <1>1, <1>2, <2>3, <2>4, EditCallGoes
  <2>6. /\ toolCall'[c] = r /\ \A d \in ToolCall \ {c} : toolCall'[d] = toolCall[d]
        /\ Sole' = IF Sole1(r) THEN Sole \cup {c} ELSE Sole \ {c}
    BY <1>2, <2>3, <2>4, CallMoves
  <2>7. Free' \subseteq Free
    BY <1>1, <1>2, <1>3, <2>3, <2>4, NoneSetFree
  <2>8. CASE b
    <3>1. ~Sole1(r)
      BY <2>3, <2>8 DEF Sole1
    <3>2. Sole' \subseteq Sole
      BY <2>6, <3>1
    <3>3. Accounted'
      BY <1>1, <2>7, <3>2, NoMoreCounted
    <3> QED BY <2>5, <3>3 DEF EditInv
  <2>9. CASE ~b
    <3>1. PICK p : p = toolCall[c].path
      OBVIOUS
    <3>2. p \in sentinel \ standing /\ \A d \in ToolCall : ~(Disarms1(toolCall[d]) /\ toolCall[d].path = p)
      BY <1>3, <1>4, <2>1, <2>9, <3>1 DEF Shares, Disarms1
    <3>3. p \in Free
      BY <3>2 DEF Free
    <3>4. p \notin Free'
      BY <2>3, <2>6, <3>1 DEF Free, Disarms1
    <3>5. Sole1(r)
      BY <2>3, <2>9 DEF Sole1
    <3>6. /\ IsFiniteSet(Sole) /\ IsFiniteSet(Free) /\ shrunk \in Nat /\ allowed \in Nat
          /\ shrunk + Cardinality(Sole) + Cardinality(Free) <= allowed
      <4>1. Free \subseteq sentinel
        BY DEF Free
      <4> QED BY <4>1, FS_Subset DEF EditInv, EditTyped, Accounted
    <3>7. /\ IsFiniteSet(Free \ {p}) /\ Cardinality(Free \ {p}) = Cardinality(Free) - 1
      BY <3>3, <3>6, FS_RemoveElement
    <3>8. IsFiniteSet(Free') /\ Cardinality(Free') <= Cardinality(Free \ {p})
      <4>1. Free' \subseteq Free \ {p}
        BY <2>7, <3>4
      <4> QED BY <3>7, <4>1, FS_Subset
    <3>9. IsFiniteSet(Sole') /\ Cardinality(Sole') = Cardinality(Sole) + 1
      <4>1. Sole' = Sole \cup {c}
        BY <2>6, <3>5
      <4> QED BY <1>3, <3>6, <4>1, FS_AddElement
    <3>10. /\ Cardinality(Sole) \in Nat /\ Cardinality(Free) \in Nat
           /\ Cardinality(Free \ {p}) \in Nat /\ Cardinality(Free') \in Nat
      BY <3>6, <3>7, <3>8, FS_CardinalityType
    <3>11. Accounted'
      BY <1>1, <3>6, <3>7, <3>8, <3>9, <3>10 DEF Accounted
    <3> QED BY <2>5, <3>11 DEF EditInv
  <2> QED BY <2>8, <2>9
<1>5. CASE toolCall[c].path \notin sentinel
  <2>1. toolCall' = [toolCall EXCEPT ![c] = NoToolCall]
    BY <1>5 DEF JudgesShrink, Moves
  <2>2. NoToolCall \in Call /\ CallWasRead(NoToolCall) /\ ~Sole1(NoToolCall)
    BY IdleCall DEF CallWasRead, ReadPlace, EditPlace
  <2>3. EditTyped' /\ TrackedWasRead' /\ ~blind'
    BY <1>1, <1>2, <2>1, <2>2, EditCallGoes
  <2>4. Accounted'
    BY <1>1, <1>3, <2>1, <2>2, QuietMove
  <2> QED BY <2>3, <2>4 DEF EditInv
<1> QED BY <1>4, <1>5

(* The sentinel is used up, or cannot be removed, and the Write may shrink  *)
(* the file.                                                                *)
LEMMA SentinelGoes ==
  ASSUME EditInv, NEW c \in ToolCall, toolCall[c].at = "disarming",
         toolCall' = [toolCall EXCEPT ![c] = [toolCall[c] EXCEPT !.at = "permitted"]],
         sentinel' \subseteq sentinel,
         sentinel' \ standing' \subseteq (sentinel \ standing) \ {toolCall[c].path},
         UNCHANGED <<tracked, stale, onDisk, everRead, allowed, shrunk, blind>>
  PROVE  EditInv'
<1>1. onDisk' \subseteq Path /\ shrunk' \in Nat /\ ~blind' /\ EditTyped
  BY DEF EditInv, EditTyped
<1>2. toolCall[c].at \in EditPlace
  BY DEF EditPlace
<1>3. PICK s \in EditCall : s = toolCall[c]
  BY <1>2, CallKinds DEF EditInv, EditTyped
<1>4. PICK r : r = [s EXCEPT !.at = "permitted"]
  OBVIOUS
<1>5. /\ r \in EditCall /\ r.at = "permitted" /\ r.path = s.path /\ r.key = s.key
      /\ r.existed = s.existed /\ r.shares = s.shares
  BY <1>4 DEF EditCall, EditPlace
<1>7. /\ r \in Call /\ r.at = "permitted" /\ r.path = s.path /\ r.shares = s.shares /\ CallWasRead(r)
  BY <1>3, <1>5, EditGoesTo
<1>8. toolCall' = [toolCall EXCEPT ![c] = r]
  BY <1>3, <1>4
<1>9. EditTyped' /\ TrackedWasRead' /\ ~blind'
  BY <1>1, <1>7, <1>8, EditCallGoes
<1>10. /\ toolCall'[c] = r /\ \A d \in ToolCall \ {c} : toolCall'[d] = toolCall[d]
       /\ Sole' = IF Sole1(r) THEN Sole \cup {c} ELSE Sole \ {c}
  BY <1>1, <1>7, <1>8, CallMoves
<1>11. Sole' \subseteq Sole
  <2>1. Sole1(r) => c \in Sole
    BY <1>3, <1>7 DEF Sole1, Sole
  <2> QED BY <1>10, <2>1
<1>12. Free' \subseteq Free
  <2>1. ASSUME NEW p \in Free', NEW d \in ToolCall
        PROVE  ~(Disarms1(toolCall[d]) /\ toolCall[d].path = p)
    <3>1. p \in sentinel' \ standing' /\ ~(Disarms1(toolCall'[d]) /\ toolCall'[d].path = p)
      BY <2>1 DEF Free, Disarms1
    <3> QED BY <1>10, <3>1
  <2> QED BY <2>1 DEF Free
<1>13. Accounted'
  BY <1>11, <1>12, NoMoreCounted
<1> QED BY <1>9, <1>13 DEF EditInv

(* It is gone,                                                              *)
LEMMA DisarmsKeeps == ASSUME EditInv, NEW c \in ToolCall, Disarms(c) PROVE EditInv'
<1>1. /\ toolCall[c].at = "disarming" /\ sentinel' = sentinel \ {toolCall[c].path}
      /\ standing' = standing \ {toolCall[c].path}
      /\ toolCall' = [toolCall EXCEPT ![c] = [toolCall[c] EXCEPT !.at = "permitted"]]
      /\ UNCHANGED <<tracked, stale, onDisk, everRead, allowed, shrunk, blind>>
  BY DEF Disarms, Moves
<1> QED BY <1>1, SentinelGoes

(* or stays for good.                                                       *)
LEMMA CannotDisarmKeeps == ASSUME EditInv, NEW c \in ToolCall, CannotDisarm(c) PROVE EditInv'
<1>1. /\ toolCall[c].at = "disarming" /\ standing' = standing \cup {toolCall[c].path}
      /\ toolCall' = [toolCall EXCEPT ![c] = [toolCall[c] EXCEPT !.at = "permitted"]]
      /\ UNCHANGED <<tracked, stale, onDisk, sentinel, everRead, allowed, shrunk, blind>>
  BY DEF CannotDisarm, Moves
<1> QED BY <1>1, SentinelGoes

(* The Write counts, and the call is over.                                  *)
LEMMA EditsKeeps == ASSUME EditInv, NEW c \in ToolCall, Edits(c) PROVE EditInv'
<1>1. PICK s : s = toolCall[c]
  OBVIOUS
<1>2. /\ s.at = "permitted" /\ blind' = (blind \/ (s.existed /\ s.path \notin everRead[s.key]))
      /\ shrunk' = IF s.shrinks /\ ~s.shares /\ shrunk <= MaxSentinels THEN shrunk + 1 ELSE shrunk
      /\ onDisk' = onDisk \cup {s.path} /\ toolCall' = [toolCall EXCEPT ![c] = NoToolCall]
      /\ UNCHANGED <<tracked, stale, sentinel, everRead, allowed, standing>>
  BY <1>1 DEF Edits, Moves
<1>3. s.at \in EditPlace /\ s \in Call
  BY <1>1, <1>2 DEF EditPlace, EditInv, EditTyped
<1>4. s \in EditCall /\ CallWasRead(s) /\ EditTyped
  BY <1>1, <1>3, CallKinds DEF EditInv, TrackedWasRead
<1>5. ~blind'
  BY <1>2, <1>3, <1>4 DEF EditInv, CallWasRead, WasRead
<1>6. onDisk' \subseteq Path /\ shrunk' \in Nat /\ sentinel' \subseteq sentinel
  BY <1>2, <1>4 DEF EditTyped, EditCall
<1>7. NoToolCall \in Call /\ CallWasRead(NoToolCall) /\ ~Sole1(NoToolCall)
  BY IdleCall DEF CallWasRead, ReadPlace, EditPlace
<1>8. EditTyped' /\ TrackedWasRead' /\ ~blind'
  BY <1>2, <1>5, <1>6, <1>7, EditCallGoes
<1>9. ~Disarms1(toolCall[c])
  BY <1>1, <1>2 DEF Disarms1
<1>10. Sole' = Sole \ {c} /\ Free' \subseteq Free
  BY <1>2, <1>4, <1>7, <1>9, CallMoves, NoneSetFree
<1>11. CASE s.shrinks /\ ~s.shares
  <2>1. c \in Sole
    BY <1>1, <1>2, <1>11 DEF Sole, Sole1
  <2>2. /\ IsFiniteSet(Sole) /\ IsFiniteSet(Free) /\ shrunk \in Nat /\ allowed \in Nat
        /\ shrunk + Cardinality(Sole) + Cardinality(Free) <= allowed
    <3>1. Free \subseteq sentinel
      BY DEF Free
    <3> QED BY <3>1, FS_Subset DEF EditInv, EditTyped, Accounted
  <2>3. IsFiniteSet(Sole') /\ Cardinality(Sole') = Cardinality(Sole) - 1
    BY <1>10, <2>1, <2>2, FS_RemoveElement
  <2>4. IsFiniteSet(Free') /\ Cardinality(Free') <= Cardinality(Free)
    BY <1>10, <2>2, FS_Subset
  <2>5. /\ Cardinality(Sole) \in Nat /\ Cardinality(Free) \in Nat /\ Cardinality(Free') \in Nat
    BY <2>2, <2>4, FS_CardinalityType
  <2>6. shrunk' <= shrunk + 1
    BY <1>2, <2>2
  <2>7. Accounted'
    BY <1>2, <1>6, <2>2, <2>3, <2>4, <2>5, <2>6 DEF Accounted
  <2> QED BY <1>8, <2>7 DEF EditInv
<1>12. CASE ~(s.shrinks /\ ~s.shares)
  <2>1. shrunk' = shrunk
    BY <1>2, <1>12
  <2>2. Accounted'
    BY <1>2, <1>10, <2>1, NoMoreCounted
  <2> QED BY <1>8, <2>2 DEF EditInv
<1> QED BY <1>11, <1>12

(* A sentinel that was made is one more to be used up.                      *)
LEMMA UserAllowsKeeps == ASSUME EditInv, NEW p \in Path, UserAllowsShrink(p) PROVE EditInv'
<1>1. /\ p \notin sentinel /\ sentinel' = sentinel \cup {p} /\ allowed' = allowed + 1
      /\ UNCHANGED <<tracked, stale, onDisk, toolCall, everRead, shrunk, blind, standing>>
  BY DEF UserAllowsShrink
<1>2. /\ IsFiniteSet(sentinel) /\ IsFiniteSet(Sole) /\ IsFiniteSet(Free)
      /\ shrunk \in Nat /\ allowed \in Nat
      /\ shrunk + Cardinality(Sole) + Cardinality(Free) <= allowed
  <2>1. Free \subseteq sentinel
    BY DEF Free
  <2> QED BY <2>1, FS_Subset DEF EditInv, EditTyped, Accounted
<1>3. IsFiniteSet(sentinel')
  BY <1>1, <1>2, FS_AddElement
<1>4. EditTyped' /\ TrackedWasRead'
  BY <1>1, <1>2, <1>3 DEF EditInv, EditTyped, TrackedWasRead, CallWasRead, WasRead
<1>5. Sole' = Sole
  BY <1>1 DEF Sole, Sole1
<1>6. Free' \subseteq Free \cup {p}
  BY <1>1 DEF Free, Disarms1
<1>7. p \notin Free
  BY <1>1 DEF Free
<1>8. IsFiniteSet(Free \cup {p}) /\ Cardinality(Free \cup {p}) = Cardinality(Free) + 1
  BY <1>2, <1>7, FS_AddElement
<1>9. IsFiniteSet(Free') /\ Cardinality(Free') <= Cardinality(Free \cup {p})
  BY <1>6, <1>8, FS_Subset
<1>10. /\ Cardinality(Sole) \in Nat /\ Cardinality(Free) \in Nat
       /\ Cardinality(Free \cup {p}) \in Nat /\ Cardinality(Free') \in Nat
  BY <1>2, <1>8, <1>9, FS_CardinalityType
<1>11. Accounted'
  BY <1>1, <1>2, <1>5, <1>8, <1>9, <1>10 DEF Accounted
<1> QED BY <1>1, <1>4, <1>11 DEF EditInv

(* So no Write shrinks a file without a sentinel of its own, or one that it *)
(* shares.                                                                  *)
LEMMA EditInvIsSafe == EditInv => EditGuardsSafe
<1> SUFFICES ASSUME EditInv PROVE EditGuardsSafe
  OBVIOUS
<1>1. ASSUME NEW c \in ToolCall
      PROVE  toolCall[c].at \in {"idle", "expiring", "recording", "judging", "disarming", "permitted"}
  BY DEF EditInv, EditTyped, Call, ReadCall, EditCall, NoToolCall, ReadPlace, EditPlace
<1>2. EditTypeOK /\ NoBlindEdit
  BY <1>1 DEF EditInv, EditTyped, EditTypeOK, NoBlindEdit
<1>3. shrunk <= allowed
  <2>1. Free \subseteq sentinel
    BY DEF Free
  <2>2. IsFiniteSet(Sole) /\ IsFiniteSet(Free)
    BY <2>1, FS_Subset DEF EditInv, EditTyped, Accounted
  <2>3. Cardinality(Sole) \in Nat /\ Cardinality(Free) \in Nat
    BY <2>2, FS_CardinalityType
  <2> QED BY <2>3 DEF EditInv, EditTyped, Accounted
<1> QED BY <1>2, <1>3 DEF EditGuardsSafe, SentinelIsConsumedOnce

(* Any number of tool calls in parallel, of sessions that may share a key:  *)
(* none edits a file that existed and was not read under that key, and no   *)
(* more Writes shrink a file than sentinels were made, but for those judged *)
(* while another was using up the same sentinel, or after one that could    *)
(* not be removed (gateguard-pre-edit.js, gateguard-track-read.js, write-   *)
(* shrink-guard.js).                                                        *)
THEOREM EditGuardsSafeHolds == EditSpec => []EditGuardsSafe
<1>1. EditInv /\ [EditNext]_editVars => EditInv'
  <2> SUFFICES ASSUME EditInv, [EditNext]_editVars PROVE EditInv'
    OBVIOUS
  <2>1. CASE EditNext
    BY <2>1, TracksReadKeeps, AsksToEditKeeps, ExpiresKeeps, RecordsKeeps, JudgesShrinkKeeps,
       DisarmsKeeps, CannotDisarmKeeps, EditsKeeps, FourHoursKeep, UserAllowsKeeps DEF EditNext
  <2>2. CASE UNCHANGED editVars
    BY <2>2 DEF editVars, EditInv, EditTyped, TrackedWasRead, CallWasRead, WasRead, Accounted,
                Sole, Free, Disarms1, Sole1
  <2> QED BY <2>1, <2>2
<1> QED BY <1>1, EditStarts, EditInvIsSafe, PTL DEF EditSpec
-----------------------------------------------------------------------------
(* The ship gate and the stop verifier.                                     *)

(* Only a manifest holds a vulnerable dependency.                           *)
Tree == {t \in [Class -> Flaw \cup {NoFlaw}] : \A f \in Class : t[f] = "vulnerable" => f = "manifest"}

ShipInv ==
  /\ commits \in Seq(Tree)
  /\ commits # <<>> /\ {remoteHas, local} \subseteq 0..Len(commits)
  /\ {upstream, origin} \subseteq 0..remoteHas
  /\ PushedTipIsScanned

(* Numbers in place of lengths.                                             *)
LEMMA ShipNumbers ==
  ASSUME ShipInv
  PROVE  \E n \in Nat, h \in Nat, u \in Nat, o \in Nat, l \in Nat :
           /\ n = Len(commits) /\ n >= 1 /\ h = remoteHas /\ u = upstream /\ o = origin /\ l = local
           /\ h <= n /\ u <= h /\ o <= h /\ l <= n
<1>1. PICK n \in Nat : n = Len(commits) /\ n >= 1
  <2>1. Len(commits) \in Nat /\ (Len(commits) = 0 => commits = <<>>)
    BY LenProperties, EmptySeq DEF ShipInv
  <2> QED BY <2>1 DEF ShipInv
<1>2. remoteHas \in 0..n /\ local \in 0..n
  BY <1>1 DEF ShipInv
<1>3. upstream \in 0..remoteHas /\ origin \in 0..remoteHas
  BY DEF ShipInv
<1> QED BY <1>1, <1>2, <1>3

(* The branch after one more commit.                                        *)
LEMMA CommitAppended ==
  ASSUME ShipInv, NEW f \in Class, NEW flaw \in Flaw \cup {NoFlaw}, Grows(f, flaw),
         flaw = NoFlaw \/ CanHold(f, flaw), NEW n \in Nat, n = Len(commits), n >= 1
  PROVE  /\ commits' \in Seq(Tree) /\ Len(commits') = n + 1 /\ commits' # <<>>
         /\ local' \in 0..(n + 1)
<1>1. n \in 1..n
  OBVIOUS
<1>2. HeadCommit \in Tree
  BY <1>1, ElementOfSeq DEF HeadCommit, ShipInv
<1>3. [HeadCommit EXCEPT ![f] = flaw] \in Tree
  BY <1>2 DEF Tree, CanHold, NoFlaw
<1>4. commits' \in Seq(Tree) /\ Len(commits') = n + 1
  BY <1>3, AppendProperties DEF ShipInv, Grows
<1>5. commits' # <<>>
  BY <1>4, EmptySeq
<1>6. local \in 0..n
  BY DEF ShipInv
<1>7. local' = n + 1 \/ local' = local
  BY DEF Grows
<1> QED BY <1>4, <1>5, <1>6, <1>7

(* The remote has all of what was pushed, whatever the branches say then.   *)
LEMMA PublishedRefs ==
  ASSUME ShipInv, NEW branch, NEW n \in Nat, n = Len(branch), Publishes(branch), remoteHas <= n
  PROVE  remoteHas' = n /\ {upstream', origin'} \subseteq 0..n
<1>1. PICK h \in Nat : h = remoteHas
  BY ShipNumbers
<1>2. upstream \in 0..h /\ origin \in 0..h /\ h <= n
  BY <1>1 DEF ShipInv
<1>3. upstream' \in {upstream, n} /\ origin' \in {origin, n} /\ remoteHas' = n
  BY DEF Publishes
<1> QED BY <1>2, <1>3

(* The gate that knows a branch of the remote looks at all that a push of   *)
(* the branch adds, for that base is one the remote has.                    *)
LEMMA GateSeesAll ==
  ASSUME ShipInv, NEW audits \in BOOLEAN, GatePasses(audits), ~NoRemoteBranch,
         NEW leak \in Adds(commits)
  PROVE  leak = <<"vulnerable", "manifest">> /\ ~audits
<1>1. PICK n \in Nat, h \in Nat, u \in Nat, o \in Nat, l \in Nat :
        /\ n = Len(commits) /\ n >= 1 /\ h = remoteHas /\ u = upstream /\ o = origin /\ l = local
        /\ h <= n /\ u <= h /\ o <= h /\ l <= n
  BY ShipNumbers
<1>2. PICK b \in Nat : b = OutgoingBase
  BY <1>1 DEF OutgoingBase, NoRemoteBranch
<1>3. b \in 1..h
  BY <1>1, <1>2 DEF OutgoingBase, NoRemoteBranch
<1>4. PICK tip : tip = commits[n]
  OBVIOUS
<1>5. PICK f \in Class : /\ tip[f] # NoFlaw /\ \A i \in 1..h : commits[i][f] # tip[f]
                         /\ tip[f] \in Rules(f) \/ tip[f] = "vulnerable"
                         /\ leak = <<tip[f], f>>
  BY <1>1, <1>4 DEF Adds
<1>6. commits[b][f] # tip[f]
  BY <1>3, <1>5
<1>7. HeadCommit = tip
  BY <1>1, <1>4 DEF HeadCommit
<1>8. tip[f] \notin Rules(f)
  <2>1. tip[f] \in Rules(f) => <<tip[f], f>> \in Findings(commits[b], tip)
    BY <1>5, <1>6 DEF Findings
  <2> QED BY <1>2, <1>7, <2>1 DEF GatePasses
<1>9. tip[f] = "vulnerable"
  BY <1>5, <1>8
<1>10. f = "manifest"
  <2>1. n \in 1..n
    BY <1>1
  <2>2. tip \in Tree
    BY <1>1, <1>4, <2>1, ElementOfSeq DEF ShipInv
  <2> QED BY <1>9, <2>2 DEF Tree
<1>11. ~audits
  BY <1>2, <1>6, <1>7, <1>9, <1>10 DEF GatePasses, Vulnerable
<1> QED BY <1>5, <1>9, <1>10, <1>11

(* A push of the branch as it was looked at, and of what else there is.     *)
LEMMA GitPushKeeps == ASSUME ShipInv, NEW audits \in BOOLEAN, GitPush(audits) PROVE ShipInv'
<1>1. /\ GatePasses(audits) /\ Publishes(commits) /\ excuses' = Excuses(audits)
      /\ leaked' = Adds(commits) /\ UNCHANGED <<commits, local, onTrunk>>
  BY DEF GitPush, Publishes
<1>2. PICK n \in Nat, h \in Nat, u \in Nat, o \in Nat, l \in Nat :
        /\ n = Len(commits) /\ n >= 1 /\ h = remoteHas /\ u = upstream /\ o = origin /\ l = local
        /\ h <= n /\ u <= h /\ o <= h /\ l <= n
  BY ShipNumbers
<1>3. remoteHas' = n /\ {upstream', origin'} \subseteq 0..n
  BY <1>1, <1>2, PublishedRefs
<1>4. commits' \in Seq(Tree) /\ Len(commits') = n /\ commits' # <<>>
  BY <1>1, <1>2 DEF ShipInv
<1>5. remoteHas' \in 0..n /\ local' \in 0..n
  BY <1>1, <1>2, <1>3
<1>6. PushedTipIsScanned'
  <2>1. CASE NoRemoteBranch
    BY <1>1, <2>1 DEF PushedTipIsScanned, Excuses
  <2>2. CASE ~NoRemoteBranch
    <3>1. \A leak \in Adds(commits) : leak = <<"vulnerable", "manifest">> /\ ~audits
      BY <1>1, <2>2, GateSeesAll
    <3>2. ~audits => "no audit" \in excuses'
      BY <1>1 DEF Excuses
    <3> QED BY <1>1, <3>1, <3>2 DEF PushedTipIsScanned
  <2> QED BY <2>1, <2>2
<1> QED BY <1>3, <1>4, <1>5, <1>6 DEF ShipInv

(* A push of a commit that the gate could not see.                          *)
LEMMA CommitAndPushKeeps ==
  ASSUME ShipInv, NEW f \in Class, NEW flaw \in Flaw, NEW audits \in BOOLEAN,
         CommitAndPush(f, flaw, audits)
  PROVE  ShipInv'
<1>1. /\ Grows(f, flaw) /\ Publishes(commits') /\ CanHold(f, flaw) /\ "compound" \in excuses'
  BY DEF CommitAndPush
<1>2. PICK n \in Nat, h \in Nat, u \in Nat, o \in Nat, l \in Nat :
        /\ n = Len(commits) /\ n >= 1 /\ h = remoteHas /\ u = upstream /\ o = origin /\ l = local
        /\ h <= n /\ u <= h /\ o <= h /\ l <= n
  BY ShipNumbers
<1>3. /\ commits' \in Seq(Tree) /\ Len(commits') = n + 1 /\ commits' # <<>>
      /\ local' \in 0..(n + 1)
  BY <1>1, <1>2, CommitAppended
<1>4. remoteHas' = n + 1 /\ {upstream', origin'} \subseteq 0..(n + 1)
  <2>1. remoteHas <= n + 1 /\ n + 1 \in Nat
    BY <1>2
  <2> QED BY <1>1, <1>3, <2>1, PublishedRefs
<1>5. PushedTipIsScanned'
  BY <1>1 DEF PushedTipIsScanned
<1>6. remoteHas' \in 0..(n + 1)
  BY <1>4
<1> QED BY <1>3, <1>4, <1>5, <1>6 DEF ShipInv

(* A push that the gate lets through adds nothing that the rules forbid.    *)
LEMMA ShipStepKeeps == ShipInv /\ [ShipNext]_shipVars => ShipInv'
<1> SUFFICES ASSUME ShipInv, [ShipNext]_shipVars PROVE ShipInv'
  OBVIOUS
<1>1. PICK n \in Nat, h \in Nat, u \in Nat, o \in Nat, l \in Nat :
        /\ n = Len(commits) /\ n >= 1 /\ h = remoteHas /\ u = upstream /\ o = origin /\ l = local
        /\ h <= n /\ u <= h /\ o <= h /\ l <= n
  BY ShipNumbers
<1>2. ASSUME NEW f \in Class, NEW flaw \in Flaw \cup {NoFlaw}, Commits(f, flaw) PROVE ShipInv'
  <2>1. /\ flaw = NoFlaw \/ CanHold(f, flaw)
        /\ Grows(f, flaw) /\ UNCHANGED <<remoteHas, upstream, origin, onTrunk, excuses, leaked>>
    BY <1>2 DEF Commits
  <2>2. /\ commits' \in Seq(Tree) /\ Len(commits') = n + 1 /\ commits' # <<>>
        /\ local' \in 0..(n + 1)
    BY <1>1, <2>1, CommitAppended
  <2>3. remoteHas' \in 0..(n + 1)
    BY <1>1, <2>1
  <2>4. {upstream', origin'} \subseteq 0..remoteHas'
    BY <2>1 DEF ShipInv
  <2> QED BY <2>1, <2>2, <2>3, <2>4 DEF ShipInv, PushedTipIsScanned
<1>3. CASE Branches
  <2>1. upstream' = 0 /\ UNCHANGED <<commits, remoteHas, origin, local, excuses, leaked>>
    BY <1>3 DEF Branches
  <2>2. {upstream', origin'} \subseteq 0..remoteHas'
    BY <1>1, <2>1
  <2> QED BY <2>1, <2>2 DEF ShipInv, PushedTipIsScanned
<1>4. ASSUME NEW audits \in BOOLEAN, GitPush(audits) PROVE ShipInv'
  BY <1>4, GitPushKeeps
<1>5. ASSUME NEW f \in Class, NEW flaw \in Flaw, NEW audits \in BOOLEAN, CommitAndPush(f, flaw, audits)
      PROVE  ShipInv'
  BY <1>5, CommitAndPushKeeps
<1>6. CASE UNCHANGED shipVars
  BY <1>6 DEF shipVars, ShipInv, PushedTipIsScanned
<1> QED BY <1>2, <1>3, <1>4, <1>5, <1>6 DEF ShipNext

(* For a branch of any length, whichever branches the hook knows: as long   *)
(* as it knows one of the remote, what a push adds to the remote was        *)
(* scanned, all of it, unless the same command made the commit, and was     *)
(* audited unless the audit did not run (ship-gate.js).                     *)
THEOREM ShipGateSafeHolds == ShipSpec => []ShipGateSafe
<1>1. ShipInit => ShipInv
  <2> SUFFICES ASSUME ShipInit PROVE ShipInv
    OBVIOUS
  <2>1. CleanTree \in Tree
    BY DEF CleanTree, Tree, NoFlaw
  <2>2. <<CleanTree>> \in Seq(Tree) /\ Len(<<CleanTree>>) = 1 /\ <<CleanTree>> # <<>>
    BY <2>1
  <2>3. PICK c : c = <<CleanTree>>
    OBVIOUS
  <2>4. commits = c /\ c \in Seq(Tree) /\ Len(c) = 1 /\ c # <<>>
    BY <2>2, <2>3 DEF ShipInit
  <2>5. remoteHas \in {0, 1} /\ local \in {0, 1} /\ upstream \in {0, remoteHas} /\ origin \in {0, remoteHas}
    BY DEF ShipInit
  <2>6. {remoteHas, local} \subseteq 0..1 /\ {upstream, origin} \subseteq 0..remoteHas
    BY <2>5
  <2>7. PushedTipIsScanned
    BY DEF ShipInit, PushedTipIsScanned
  <2> QED BY <2>4, <2>6, <2>7 DEF ShipInv
<1>2. ShipInv => ShipGateSafe
  <2> SUFFICES ASSUME ShipInv PROVE ShipGateSafe
    OBVIOUS
  <2>1. PICK n \in Nat, h \in Nat, u \in Nat, o \in Nat, l \in Nat :
          /\ n = Len(commits) /\ n >= 1 /\ h = remoteHas /\ u = upstream /\ o = origin /\ l = local
          /\ h <= n /\ u <= h /\ o <= h /\ l <= n
    BY ShipNumbers
  <2>2. {remoteHas, upstream, origin, local} \subseteq 0..n
    BY <2>1
  <2>3. \A i \in 1..n : commits[i] \in Tree
    BY <2>1, ElementOfSeq DEF ShipInv
  <2>4. \A i \in 1..n : commits[i] \in [Class -> Flaw \cup {NoFlaw}]
    BY <2>3 DEF Tree
  <2> QED BY <2>1, <2>2, <2>4 DEF ShipInv, ShipGateSafe, ShipTypeOK
<1> QED BY <1>1, <1>2, ShipStepKeeps, PTL DEF ShipSpec

-----------------------------------------------------------------------------
StopInv ==
  /\ modified \subseteq inGit /\ inGit \subseteq Script
  /\ missing \subseteq Script /\ missing \cap inGit \subseteq modified
  /\ byBash \subseteq Script /\ editedBy \in [Editor -> SUBSET Script]
  /\ fails \in [Script -> SUBSET Tool]
  /\ verdict \in Tool \cup {"none", "passed", "skipped"}

(* The verifier decides.                                                    *)
LEMMA FirstFailureIsAVerdict ==
  ASSUME NEW changed, NEW installed PROVE FirstFailure(changed, installed) \in Tool \cup {"passed"}
BY DEF FirstFailure, Tool

(* What differs from HEAD is in git, and what git misses differs.           *)
LEMMA StopStepKeeps == StopInv /\ [StopNext]_stopVars => StopInv'
<1> SUFFICES ASSUME StopInv, [StopNext]_stopVars PROVE StopInv'
  OBVIOUS
<1> USE DEF StopInv
<1>1. ASSUME NEW e \in Editor, NEW f \in Script, NEW T \in SUBSET Tool, NEW bash \in BOOLEAN,
             EditsScript(e, f, T, bash)
      PROVE  StopInv'
  <2>1. /\ inGit' = inGit /\ missing' = missing \ {f} /\ verdict' = verdict
        /\ modified' = IF f \in inGit THEN modified \cup {f} ELSE modified
        /\ fails' = [fails EXCEPT ![f] = T]
    BY <1>1 DEF EditsScript, Touched
  <2>2. byBash' \in {byBash, byBash \cup {f}}
    BY <1>1 DEF EditsScript
  <2>3. editedBy' = editedBy \/ editedBy' = [editedBy EXCEPT ![e] = editedBy[e] \cup {f}]
    BY <1>1 DEF EditsScript
  <2>4. editedBy' \in [Editor -> SUBSET Script]
    BY <2>3
  <2>5. fails' \in [Script -> SUBSET Tool]
    BY <2>1
  <2> QED BY <2>1, <2>2, <2>4, <2>5
<1>2. ASSUME NEW f \in Script, DeletesScript(f) PROVE StopInv'
  <2>1. /\ inGit' = inGit /\ missing' = missing \cup {f} /\ verdict' = verdict
        /\ modified' = IF f \in inGit THEN modified \cup {f} ELSE modified
        /\ fails' = [fails EXCEPT ![f] = {}] /\ byBash' = byBash \cup {f} /\ editedBy' = editedBy
    BY <1>2 DEF DeletesScript, Touched
  <2>2. fails' \in [Script -> SUBSET Tool]
    BY <2>1
  <2> QED BY <2>1, <2>2
<1>8. ASSUME NEW f \in Script, GitAdds(f) \/ GitCommits(f) PROVE StopInv'
  BY <1>8 DEF GitAdds, GitCommits
<1>3. ASSUME NEW e \in Editor, NEW readable, NEW installed, Stop(e, readable, installed) PROVE StopInv'
  <2>1. PICK v : v = IF Changed(e, readable) = {} THEN "skipped" ELSE FirstFailure(Changed(e, readable), installed)
    OBVIOUS
  <2>2. v \in Tool \cup {"none", "passed", "skipped"}
    BY <2>1, FirstFailureIsAVerdict
  <2> QED BY <1>3, <2>1, <2>2 DEF Stop
<1>4. {{}, Tool} \cup {{t} : t \in Tool} \subseteq SUBSET Tool
  OBVIOUS
<1>5. CASE UNCHANGED stopVars
  BY <1>5 DEF stopVars
<1>6. ASSUME NEW e \in Editor, NEW f \in Script, NEW T \in {{}, Tool} \cup {{t} : t \in Tool},
             NEW bash \in BOOLEAN, EditsScript(e, f, T, bash)
      PROVE  StopInv'
  <2>1. T \in SUBSET Tool
    BY <1>4
  <2>2. EditsScript(e, f, T, bash)
    BY <1>6
  <2> HIDE DEF StopInv
  <2> QED BY <1>1, <2>1, <2>2
<1>7. CASE StopNext
  <2> HIDE DEF StopInv
  <2>1. CASE \E e \in Editor, f \in Script, T \in {{}, Tool} \cup {{t} : t \in Tool}, bash \in BOOLEAN :
               EditsScript(e, f, T, bash)
    BY <1>6, <2>1, Zenon
  <2>2. CASE \E e \in Editor, readable \in BOOLEAN, installed \in {Tool, {"mypy"}, {}} :
               Stop(e, readable, installed)
    BY <1>3, <2>2
  <2>3. CASE \E f \in Script : DeletesScript(f) \/ GitAdds(f) \/ GitCommits(f)
    BY <1>2, <1>8, <2>3
  <2> QED BY <1>7, <2>1, <2>2, <2>3, Zenon DEF StopNext
<1> QED BY <1>5, <1>7

(* With all tools installed, a failure of ruff or mypy is never passed      *)
(* over.                                                                    *)
LEMMA FailureDecides ==
  ASSUME NEW changed, Failing("ruff", changed) \/ Failing("mypy", changed)
  PROVE  FirstFailure(changed, Tool) \in Tool
<1>1. Failing("ruff", changed) \in BOOLEAN /\ Failing("mypy", changed) \in BOOLEAN
  BY DEF Failing
<1> QED BY <1>1 DEF FirstFailure, Tool

(* The own failures of a session are among those looked at.                 *)
LEMMA OwnFailureSeen ==
  ASSUME StopInv, NEW e \in Editor, NEW readable \in BOOLEAN, Stop(e, readable, Tool),
         NEW f \in (IF readable THEN editedBy[e] ELSE editedBy[e] \cup byBash) \cap (modified \ missing),
         fails[f] \cap {"ruff", "mypy"} # {}
  PROVE  verdict' \in Tool
<1>1. f \in Changed(e, readable) /\ f \in Script /\ f \notin missing
  BY DEF Changed, StopInv
<1>2. Failing("ruff", Changed(e, readable)) \/ Failing("mypy", Changed(e, readable))
  <2>1. CASE "ruff" \in fails[f]
    BY <1>1, <2>1 DEF Failing, Targets
  <2>2. CASE "mypy" \in fails[f]
    BY <1>1, <2>2 DEF Failing, Targets
  <2> QED BY <2>1, <2>2
<1>3. FirstFailure(Changed(e, readable), Tool) \in Tool
  BY <1>2, FailureDecides
<1>4. verdict' = FirstFailure(Changed(e, readable), Tool)
  BY <1>1 DEF Stop
<1> QED BY <1>3, <1>4

(* Alone, mypy fails only for a file that it was run over.                  *)
LEMMA OnlyMypyFailure ==
  ASSUME NEW changed, FirstFailure(changed, {"mypy"}) = "mypy"
  PROVE  Failing("mypy", changed)
BY DEF FirstFailure

(* Those files are the ones of the session.                                 *)
LEMMA MypyBlame ==
  ASSUME StopInv, NEW e \in Editor, Stop(e, TRUE, {"mypy"}), verdict' = "mypy"
  PROVE  \E f \in editedBy[e] : "mypy" \in fails[f]
<1>1. PICK v : v = IF Changed(e, TRUE) = {} THEN "skipped" ELSE FirstFailure(Changed(e, TRUE), {"mypy"})
  OBVIOUS
<1>2. verdict' = v
  BY <1>1 DEF Stop
<1>3. v = "mypy"
  BY <1>2
<1>4. Failing("mypy", Changed(e, TRUE))
  BY <1>1, <1>3, OnlyMypyFailure
<1> QED BY <1>4 DEF Failing, Targets, Changed

(* Any number of sessions in one tree, editing, adding and committing any   *)
(* files: a session that leaves a failure of ruff or mypy in an uncommitted *)
(* edit of a tracked file is sent back, and mypy alone sends back no        *)
(* session for the file of another (stop-verify.js).                        *)
THEOREM StopsBlameRightHolds == StopSpec => StopsBlameRight
<1>1. StopInit => StopInv
  BY DEF StopInit, StopInv, Tool
<1>2. StopInv => StopTypeOK
  BY DEF StopInv, StopTypeOK
<1>3. StopInv /\ [StopNext]_stopVars =>
        [\A e \in Editor, readable \in BOOLEAN :
           /\ Stop(e, readable, Tool)
           /\ \E f \in (IF readable THEN editedBy[e] ELSE editedBy[e] \cup byBash) \cap (modified \ missing) :
                fails[f] \cap {"ruff", "mypy"} # {}
           => verdict' \in Tool]_stopVars
  BY OwnFailureSeen
<1>4. StopInv /\ [StopNext]_stopVars =>
        [\A e \in Editor : Stop(e, TRUE, {"mypy"}) /\ verdict' = "mypy" =>
           \E f \in editedBy[e] : "mypy" \in fails[f]]_stopVars
  BY MypyBlame
<1> QED BY <1>1, <1>2, <1>3, <1>4, StopStepKeeps, PTL
        DEF StopSpec, StopsBlameRight, OwnFailuresAreSeen, MypyBlamesTheEditor
-----------------------------------------------------------------------------
(***************************************************************************)
(* ralph-loop.js halts a loop at the circuit breaker only when three runs  *)
(* reported the very note, for any numbers of sessions, notes and kills.   *)
(*                                                                         *)
(* Overlapping runs write back lists of hashes that others have extended   *)
(* since, so the invariant must speak of the ledger of every run as well   *)
(* as of the file: however often a note stands in a list, it was reported  *)
(* at least so many times.                                                 *)
(***************************************************************************)
AnyNote == Note \cup {Empty}
Hashes == {h \in Seq(AnyNote) : Len(h) \in 0..3}
Ledgers == [iteration : 0..LoopBudget, hashes : Hashes, exit : BOOLEAN,
            reason : {"none", "done_keyword", "max_iterations", "circuit_breaker"}]

RunLedgers == [at : {"idle", "decided", "truncated"}, ledger : Ledgers]

Reported(h) ==
  \A n \in Note :
    /\ \A i \in 1..Len(h) : h[i] = n => reports[n] >= 1
    /\ \A i, j \in 1..Len(h) : i < j /\ h[i] = n /\ h[j] = n => reports[n] >= 2
    /\ Len(h) = 3 /\ h[1] = n /\ h[2] = n /\ h[3] = n => reports[n] >= 3

HasCause(l) ==
  /\ l.exit <=> l.reason # "none"
  /\ l.reason = "circuit_breaker" =>
       \E n \in Note : Len(l.hashes) > 0 /\ l.hashes[Len(l.hashes)] = n /\ reports[n] = 3

SoundLedger(l) == Reported(l.hashes) /\ HasCause(l)

LoopInv ==
  /\ loopFile = NoFile \/ (loopFile \in Ledgers /\ SoundLedger(loopFile))
  /\ hookRun \in [Session -> RunLedgers]
  /\ \A s \in Session : SoundLedger(hookRun[s].ledger)
  /\ reports \in [Note -> 0..3]
  /\ killed \in 0..MaxHookKills

(* The ledger that buildDefaultLedger makes is sound.                       *)
LEMMA DefaultIsSound == DefaultLedger \in Ledgers /\ SoundLedger(DefaultLedger)
<1>1. DefaultLedger.hashes = <<>> /\ <<>> \in Hashes /\ Len(<<>>) = 0
  BY DEF DefaultLedger, Hashes
<1>2. 0 \in 0..LoopBudget
  BY BudgetIsNat
<1> QED BY <1>1, <1>2 DEF DefaultLedger, Ledgers, SoundLedger, Reported, HasCause

(* The hashes with one more: the last is the new one, the others keep their *)
(* order, and at most three are left.                                       *)
LEMMA WithHashKeeps ==
  ASSUME NEW l \in Ledgers, NEW n \in AnyNote
  PROVE  LET h == l.hashes  r == WithHash(l, n) IN
         /\ r \in Hashes /\ Len(r) >= 1 /\ r[Len(r)] = n
         /\ \/ /\ Len(r) = Len(h) + 1
               /\ \A i \in 1..Len(h) : r[i] = h[i]
            \/ /\ Len(h) = 3 /\ Len(r) = 3
               /\ r[1] = h[2] /\ r[2] = h[3]
<1>1. PICK h \in Seq(AnyNote) : h = l.hashes /\ Len(h) \in 0..3
  BY DEF Ledgers, Hashes
<1>2. PICK all : all = Append(h, n)
  OBVIOUS
<1>3. PICK k \in Nat :
        /\ all \in Seq(AnyNote) /\ all # <<>> /\ k = Len(h) /\ Len(all) = k + 1
        /\ \A i \in 1..k : all[i] = h[i]
        /\ all[k + 1] = n
  BY <1>2, AppendProperties, LenProperties
<1>4. PICK r : r = WithHash(l, n)
  OBVIOUS
<1>5. k \in 0..3 /\ r = IF k + 1 > 3 THEN Tail(all) ELSE all
  <2>1. k \in 0..3
    BY <1>1, <1>3
  <2> QED BY <2>1, <1>1, <1>2, <1>3, <1>4 DEF WithHash
<1>6. CASE k = 3
  <2>1. r = Tail(all)
    BY <1>5, <1>6
  <2>2. /\ r \in Seq(AnyNote) /\ Len(r) = (k + 1) - 1
        /\ \A i \in 1..((k + 1) - 1) : r[i] = all[i + 1]
    <3>1. Tail(all) \in Seq(AnyNote) /\ Len(Tail(all)) = Len(all) - 1
          /\ \A i \in 1..Len(Tail(all)) : Tail(all)[i] = all[i + 1]
      BY <1>3, HeadTailProperties
    <3> QED BY <3>1, <2>1, <1>3
  <2>3. Len(r) = 3 /\ r[1] = all[1 + 1] /\ r[2] = all[2 + 1] /\ r[3] = all[3 + 1]
    BY <2>2, <1>6
  <2>4. r \in Hashes
    <3>1. 3 \in 0..3
      OBVIOUS
    <3> QED BY <3>1, <2>2, <2>3 DEF Hashes
  <2>5. all[2] = h[2] /\ all[3] = h[3] /\ all[3 + 1] = n
    BY <1>3, <1>6
  <2>6. r[1] = h[2] /\ r[2] = h[3] /\ r[Len(r)] = n /\ Len(r) >= 1
    BY <2>3, <2>5
  <2>7. Len(h) = 3 /\ Len(r) = 3
    BY <1>3, <1>6, <2>3
  <2> QED BY <1>1, <1>4, <2>4, <2>6, <2>7
<1>7. CASE k # 3
  <2>1. r = all /\ k + 1 <= 3
    BY <1>5, <1>7
  <2>2. all \in Hashes
    <3>1. k + 1 \in 0..3
      BY <2>1
    <3> QED BY <3>1, <1>3 DEF Hashes
  <2>3. Len(r) = Len(h) + 1 /\ \A i \in 1..Len(h) : r[i] = h[i]
    BY <1>3, <2>1
  <2>4. Len(r) >= 1 /\ r[Len(r)] = n
    <3>1. k + 1 >= 1
      OBVIOUS
    <3> QED BY <3>1, <1>3, <2>1
  <2> QED BY <1>1, <1>4, <2>1, <2>2, <2>3, <2>4
<1> QED BY <1>6, <1>7

(* Three hashes with one value are equal to one another.                    *)
LEMMA OneValue ==
  ASSUME NEW h \in Seq(AnyNote), Len(h) = 3, Cardinality(ToSet(h)) = 1
  PROVE  h[1] = h[3] /\ h[2] = h[3]
<1>1. ToSet(h) = (({} \cup {h[1]}) \cup {h[2]}) \cup {h[3]}
  BY DEF ToSet
<1>2. IsFiniteSet(ToSet(h))
  <2>1. IsFiniteSet({} \cup {h[1]})
    BY FS_EmptySet, FS_AddElement
  <2>2. IsFiniteSet(({} \cup {h[1]}) \cup {h[2]})
    BY <2>1, FS_AddElement
  <2>3. IsFiniteSet((({} \cup {h[1]}) \cup {h[2]}) \cup {h[3]})
    BY <2>2, FS_AddElement
  <2> QED BY <1>1, <2>3
<1>3. PICK x : ToSet(h) = {x}
  BY <1>2, FS_Singleton
<1> QED BY <1>1, <1>3

(* Counting one more report of n takes nothing from any note.               *)
LEMMA CountedGrows ==
  ASSUME reports \in [Note -> 0..3], NEW n \in AnyNote, reports' = Counted(n)
  PROVE  /\ reports' \in [Note -> 0..3]
         /\ \A m \in Note : reports'[m] >= reports[m]
         /\ n \in Note => reports'[n] = 3 \/ reports'[n] = reports[n] + 1
BY DEF Counted, AnyNote

(* What was sound stays sound when reports only grow.                       *)
LEMMA SoundStays ==
  ASSUME NEW l \in Ledgers, SoundLedger(l), reports \in [Note -> 0..3], reports' \in [Note -> 0..3],
         \A m \in Note : reports'[m] >= reports[m]
  PROVE  SoundLedger(l)'
<1>1. \A m \in Note : reports[m] \in 0..3 /\ reports'[m] \in 0..3 /\ reports'[m] >= reports[m]
  OBVIOUS
<1>2. Reported(l.hashes)'
  BY <1>1 DEF SoundLedger, Reported
<1>3. HasCause(l)'
  BY <1>1 DEF SoundLedger, HasCause
<1> QED BY <1>2, <1>3 DEF SoundLedger

(* With the new hash counted, the hashes are accounted for again.           *)
LEMMA NewHashIsReported ==
  ASSUME NEW l \in Ledgers, SoundLedger(l), reports \in [Note -> 0..3],
         NEW n \in AnyNote, reports' = Counted(n)
  PROVE  Reported(WithHash(l, n))'
<1> DEFINE h == l.hashes
<1>1. PICK r : r = WithHash(l, n)
  OBVIOUS
<1>2. /\ r \in Hashes /\ Len(r) >= 1 /\ r[Len(r)] = n
      /\ \/ Len(r) = Len(h) + 1 /\ \A i \in 1..Len(h) : r[i] = h[i]
         \/ Len(h) = 3 /\ Len(r) = 3 /\ r[1] = h[2] /\ r[2] = h[3]
  BY <1>1, WithHashKeeps
<1>3. PICK a \in 0..3, b \in 0..3 : a = Len(h) /\ b = Len(r)
  <2>1. h \in Hashes /\ r \in Hashes
    BY <1>2 DEF Ledgers
  <2>2. h \in Seq(AnyNote) /\ r \in Seq(AnyNote) /\ Len(h) \in 0..3 /\ Len(r) \in 0..3
    BY <2>1 DEF Hashes
  <2>3. Len(h) \in Nat /\ Len(r) \in Nat
    BY <2>2, LenProperties
  <2>4. PICK a \in Nat, b \in Nat : a = Len(h) /\ b = Len(r)
    BY <2>3
  <2>5. a \in 0..3 /\ b \in 0..3
    BY <2>2, <2>4
  <2> QED BY <2>4, <2>5
<1>4. /\ \A m \in Note : reports[m] \in 0..3 /\ reports'[m] \in 0..3 /\ reports'[m] >= reports[m]
      /\ n \in Note => reports'[n] = 3 \/ reports'[n] = reports[n] + 1
  BY CountedGrows
<1>5. Reported(h)
  BY DEF SoundLedger
<1> HIDE DEF h
<1>6. Reported(r)'
  <2> SUFFICES ASSUME NEW m \in Note
               PROVE  /\ \A i \in 1..Len(r) : r[i] = m => reports'[m] >= 1
                      /\ \A i, j \in 1..Len(r) : i < j /\ r[i] = m /\ r[j] = m => reports'[m] >= 2
                      /\ Len(r) = 3 /\ r[1] = m /\ r[2] = m /\ r[3] = m => reports'[m] >= 3
    BY DEF Reported
  <2>1. /\ \A i \in 1..Len(h) : h[i] = m => reports[m] >= 1
        /\ \A i, j \in 1..Len(h) : i < j /\ h[i] = m /\ h[j] = m => reports[m] >= 2
        /\ Len(h) = 3 /\ h[1] = m /\ h[2] = m /\ h[3] = m => reports[m] >= 3
    BY <1>5 DEF Reported
  <2>2. CASE Len(r) = Len(h) + 1 /\ \A i \in 1..Len(h) : r[i] = h[i]
    BY <2>1, <2>2, <1>2, <1>3, <1>4
  <2>3. CASE Len(h) = 3 /\ Len(r) = 3 /\ r[1] = h[2] /\ r[2] = h[3]
    BY <2>1, <2>3, <1>2, <1>3, <1>4
  <2> QED BY <1>2, <2>2, <2>3
<1> QED BY <1>1, <1>6

(* The gates turn a sound ledger into a sound one.                          *)
LEMMA GatesAreSound ==
  ASSUME NEW l \in Ledgers, SoundLedger(l), ~l.exit, reports \in [Note -> 0..3],
         NEW n \in AnyNote, NEW done \in BOOLEAN, reports' = Counted(n)
  PROVE  Gates(l, n, done) \in Ledgers /\ SoundLedger(Gates(l, n, done))'
<1>1. PICK r : r = WithHash(l, n)
  OBVIOUS
<1>2. /\ r \in Hashes /\ Len(r) >= 1 /\ r[Len(r)] = n
  BY <1>1, WithHashKeeps
<1>3. Reported(r)'
  BY <1>1, NewHashIsReported
<1>4. l.iteration \in 0..LoopBudget /\ l.reason = "none"
  BY DEF SoundLedger, HasCause, Ledgers
<1>5. ASSUME NEW why \in {"done_keyword", "max_iterations", "circuit_breaker"}, NEW to,
             to = Ends(l, n, why)
      PROVE  to \in Ledgers /\ to.hashes = r /\ (to.exit <=> TRUE) /\ to.reason = why
  BY <1>1, <1>2, <1>5 DEF Ends, Ledgers
<1>6. CASE done
  <2>1. PICK to : to = Ends(l, n, "done_keyword")
    OBVIOUS
  <2>2. to \in Ledgers /\ to.hashes = r /\ (to.exit <=> TRUE) /\ to.reason = "done_keyword"
    BY <1>5, <2>1
  <2>3. SoundLedger(to)'
    BY <2>2, <1>3 DEF SoundLedger, HasCause
  <2> QED BY <1>6, <2>1, <2>2, <2>3 DEF Gates
<1>7. CASE ~done /\ l.iteration >= LoopBudget
  <2>1. PICK to : to = Ends(l, n, "max_iterations")
    OBVIOUS
  <2>2. to \in Ledgers /\ to.hashes = r /\ (to.exit <=> TRUE) /\ to.reason = "max_iterations"
    BY <1>5, <2>1
  <2>3. SoundLedger(to)'
    BY <2>2, <1>3 DEF SoundLedger, HasCause
  <2> QED BY <1>7, <2>1, <2>2, <2>3 DEF Gates
<1>8. CASE ~done /\ ~(l.iteration >= LoopBudget) /\ CircuitBreakerFired(r, n)
  <2>1. PICK to : to = Ends(l, n, "circuit_breaker")
    OBVIOUS
  <2>2. to \in Ledgers /\ to.hashes = r /\ (to.exit <=> TRUE) /\ to.reason = "circuit_breaker"
    BY <1>5, <2>1
  <2>3. n \in Note /\ Len(r) = 3 /\ r \in Seq(AnyNote) /\ Cardinality(ToSet(r)) = 1
    BY <1>2, <1>8 DEF CircuitBreakerFired, Hashes, AnyNote
  <2>4. r[1] = n /\ r[2] = n /\ r[3] = n
    BY <2>3, <1>2, OneValue
  <2>5. reports'[n] = 3
    <3>1. reports'[n] >= 3
      BY <1>3, <2>3, <2>4 DEF Reported
    <3>2. reports'[n] \in 0..3
      BY <2>3, CountedGrows
    <3> QED BY <3>1, <3>2
  <2>6. SoundLedger(to)'
    BY <2>2, <2>3, <2>5, <1>2, <1>3 DEF SoundLedger, HasCause
  <2> QED BY <1>8, <1>1, <2>1, <2>2, <2>6 DEF Gates
<1>9. CASE ~done /\ ~(l.iteration >= LoopBudget) /\ ~CircuitBreakerFired(r, n)
  <2>1. PICK to : to = [l EXCEPT !.iteration = @ + 1, !.hashes = WithHash(l, n)]
    OBVIOUS
  <2>2. l.iteration + 1 \in 0..LoopBudget
    BY <1>4, <1>9, BudgetIsNat
  <2>3. to \in Ledgers /\ to.hashes = r /\ (to.exit <=> FALSE) /\ to.reason = "none"
    BY <1>1, <1>2, <1>4, <2>1, <2>2 DEF Ledgers
  <2>4. SoundLedger(to)'
    BY <2>3, <1>3 DEF SoundLedger, HasCause
  <2> QED BY <1>9, <1>1, <2>1, <2>3, <2>4 DEF Gates
<1> QED BY <1>6, <1>7, <1>8, <1>9

(* A stop decides from the ledger it reads, the default one if there is     *)
(* none.                                                                    *)
LEMMA StopsKeeps ==
  ASSUME LoopInv, NEW s \in Session, NEW n \in AnyNote, NEW done \in BOOLEAN, Stops(s, n, done)
  PROVE  LoopInv'
<1>1. PICK l : l = ReadLoopFile
  OBVIOUS
<1>2. l \in Ledgers /\ SoundLedger(l) /\ ~l.exit
  BY <1>1, DefaultIsSound DEF LoopInv, ReadLoopFile, Stops
<1>3. PICK to : to = Gates(l, n, done)
  OBVIOUS
<1>4. reports \in [Note -> 0..3] /\ reports' = Counted(n)
  BY DEF LoopInv, Stops
<1>5. to \in Ledgers /\ SoundLedger(to)'
  BY <1>2, <1>3, <1>4, GatesAreSound
<1>6. reports' \in [Note -> 0..3] /\ \A m \in Note : reports'[m] >= reports[m]
  BY <1>4, CountedGrows
<1>7. hookRun' = [hookRun EXCEPT ![s] = [at |-> "decided", ledger |-> to]]
  BY <1>1, <1>3 DEF Stops
<1>8. hookRun \in [Session -> RunLedgers] /\ \A t \in Session : SoundLedger(hookRun[t].ledger)
  BY DEF LoopInv
<1>9. [at |-> "decided", ledger |-> to] \in RunLedgers
  BY <1>5 DEF RunLedgers
<1>10. hookRun' \in [Session -> RunLedgers]
  BY <1>7, <1>8, <1>9
<1>11. ASSUME NEW t \in Session PROVE SoundLedger(hookRun[t].ledger)'
  <2>1. CASE t = s
    <3>1. hookRun'[t].ledger = to
      BY <1>7, <1>8, <2>1
    <3> QED BY <3>1, <1>5 DEF SoundLedger, Reported, HasCause
  <2>2. CASE t # s
    <3>1. PICK k \in Ledgers : k = hookRun[t].ledger
      BY <1>8 DEF RunLedgers
    <3>2. hookRun'[t].ledger = k
      BY <1>7, <1>8, <2>2, <3>1
    <3>3. SoundLedger(k)'
      BY <3>1, <1>4, <1>6, <1>8, SoundStays
    <3> QED BY <3>2, <3>3 DEF SoundLedger, Reported, HasCause
  <2> QED BY <2>1, <2>2
<1>12. loopFile' = loopFile /\ killed' = killed
  BY DEF Stops
<1>13. loopFile' = NoFile \/ (loopFile' \in Ledgers /\ SoundLedger(loopFile)')
  <2>1. CASE loopFile = NoFile
    BY <2>1, <1>12
  <2>2. CASE loopFile # NoFile
    <3>1. PICK k \in Ledgers : k = loopFile /\ SoundLedger(k)
      BY <2>2 DEF LoopInv
    <3>2. SoundLedger(k)'
      BY <3>1, <1>4, <1>6, SoundStays
    <3> QED BY <3>1, <3>2, <1>12 DEF SoundLedger, Reported, HasCause
  <2> QED BY <2>1, <2>2
<1> QED BY <1>6, <1>10, <1>11, <1>12, <1>13 DEF LoopInv

(* The other steps move a sound ledger to the file, or drop one.            *)
LEMMA WritesKeep ==
  ASSUME LoopInv, NEW s \in Session,
         \/ TruncatesLoopFile(s) \/ WritesLoopFile(s) \/ KillsHook(s)
  PROVE  LoopInv'
<1>1. /\ hookRun \in [Session -> RunLedgers] /\ \A t \in Session : SoundLedger(hookRun[t].ledger)
      /\ reports' = reports /\ reports \in [Note -> 0..3] /\ killed \in 0..MaxHookKills
  BY DEF LoopInv, RunLedgers, TruncatesLoopFile, WritesLoopFile, KillsHook
<1>2. PICK held \in Ledgers : held = hookRun[s].ledger
  BY <1>1 DEF RunLedgers
<1>3. PICK to \in RunLedgers :
        /\ hookRun' = [hookRun EXCEPT ![s] = to]
        /\ to.ledger = held \/ to.ledger = DefaultLedger
  <2>1. CASE TruncatesLoopFile(s)
    <3>1. hookRun' = [hookRun EXCEPT ![s] = [at |-> "truncated", ledger |-> held]]
      <4>1. PICK was \in RunLedgers : was = hookRun[s]
        BY <1>1
      <4>2. hookRun' = [hookRun EXCEPT ![s] = [was EXCEPT !.at = "truncated"]]
        BY <2>1, <4>1 DEF TruncatesLoopFile
      <4>3. [was EXCEPT !.at = "truncated"] = [at |-> "truncated", ledger |-> held]
        BY <1>2, <4>1 DEF RunLedgers
      <4> QED BY <4>2, <4>3
    <3>2. [at |-> "truncated", ledger |-> held] \in RunLedgers
      BY <1>2 DEF RunLedgers
    <3> QED BY <3>1, <3>2
  <2>2. CASE WritesLoopFile(s) \/ KillsHook(s)
    <3>1. Resting \in RunLedgers /\ Resting.ledger = DefaultLedger
      BY DefaultIsSound DEF Resting, RunLedgers
    <3> QED BY <2>2, <3>1 DEF WritesLoopFile, KillsHook
  <2> QED BY <2>1, <2>2
<1>4. SoundLedger(held)' /\ SoundLedger(DefaultLedger)'
  BY <1>1, <1>2, DefaultIsSound DEF SoundLedger, Reported, HasCause
<1>5. hookRun' \in [Session -> RunLedgers]
  BY <1>1, <1>3
<1>6. ASSUME NEW t \in Session PROVE SoundLedger(hookRun[t].ledger)'
  <2>1. CASE t = s
    <3>1. hookRun'[t].ledger = held \/ hookRun'[t].ledger = DefaultLedger
      BY <1>1, <1>3, <2>1
    <3> QED BY <3>1, <1>4 DEF SoundLedger, Reported, HasCause
  <2>2. CASE t # s
    <3>1. hookRun'[t].ledger = hookRun[t].ledger /\ SoundLedger(hookRun[t].ledger)
      BY <1>1, <1>3, <2>2
    <3> QED BY <3>1, <1>1 DEF SoundLedger, Reported, HasCause
  <2> QED BY <2>1, <2>2
<1>7. loopFile' = NoFile \/ (loopFile' \in Ledgers /\ SoundLedger(loopFile)')
  <2>1. CASE TruncatesLoopFile(s)
    BY <2>1 DEF TruncatesLoopFile
  <2>2. CASE WritesLoopFile(s)
    <3>1. loopFile' = held
      BY <1>2, <2>2 DEF WritesLoopFile
    <3> QED BY <3>1, <1>4 DEF SoundLedger, Reported, HasCause
  <2>3. CASE KillsHook(s)
    <3>1. loopFile' = loopFile
      BY <2>3 DEF KillsHook
    <3> QED BY <3>1, <1>1 DEF LoopInv, SoundLedger, Reported, HasCause
  <2> QED BY <2>1, <2>2, <2>3
<1>8. killed' \in 0..MaxHookKills
  BY <1>1, BudgetIsNat DEF TruncatesLoopFile, WritesLoopFile, KillsHook
<1> QED BY <1>1, <1>5, <1>6, <1>7, <1>8 DEF LoopInv

(* LoopInv is inductive.                                                    *)
LEMMA LoopInvNext == LoopInv /\ [LoopNext]_loopVars => LoopInv'
<1>1. SUFFICES ASSUME LoopInv, [LoopNext]_loopVars PROVE LoopInv'
  OBVIOUS
<1>2. CASE UNCHANGED loopVars
  <2>1. loopFile' = loopFile /\ hookRun' = hookRun /\ reports' = reports /\ killed' = killed
    BY <1>2 DEF loopVars
  <2> QED BY <1>1, <2>1 DEF LoopInv, SoundLedger, Reported, HasCause
<1>3. ASSUME NEW s \in Session, SessionStops(s) PROVE LoopInv'
  BY <1>1, <1>3, StopsKeeps DEF SessionStops, AnyNote
<1>4. ASSUME NEW s \in Session, TruncatesLoopFile(s) \/ WritesLoopFile(s) \/ KillsHook(s) PROVE LoopInv'
  BY <1>1, <1>4, WritesKeep
<1> QED BY <1>1, <1>2, <1>3, <1>4 DEF LoopNext

(* The hook never ran: the invariant holds.                                 *)
LEMMA LoopInvInit == LoopInit => LoopInv
<1>1. SUFFICES ASSUME LoopInit PROVE LoopInv
  OBVIOUS
<1>2. Resting \in RunLedgers /\ Resting.ledger = DefaultLedger
  BY DefaultIsSound DEF Resting, RunLedgers
<1>3. /\ hookRun \in [Session -> RunLedgers]
      /\ \A s \in Session : hookRun[s].ledger = DefaultLedger
  BY <1>1, <1>2 DEF LoopInit
<1>4. reports \in [Note -> 0..3] /\ killed \in 0..MaxHookKills
  BY <1>1, BudgetIsNat DEF LoopInit
<1> QED BY <1>1, <1>3, <1>4, DefaultIsSound DEF LoopInit, LoopInv, RunLedgers

(* The breaker needs three reports, by what the file's own ledger says.     *)
LEMMA LoopInvIsSafe == LoopInv => LoopTypeOK /\ BreakerNeedsThree
<1>1. SUFFICES ASSUME LoopInv PROVE LoopTypeOK /\ BreakerNeedsThree
  OBVIOUS
<1>2. ASSUME NEW h \in Hashes PROVE h \in SeqOf(Note \cup {Empty}, 3)
  <2>1. h \in Seq(AnyNote) /\ Len(h) \in 0..3
    BY DEF Hashes
  <2>2. PICK k \in Nat : k = Len(h) /\ h \in [1..k -> AnyNote]
    BY <2>1, LenProperties
  <2>3. k \in 0..3
    BY <2>1, <2>2
  <2> QED BY <2>2, <2>3 DEF SeqOf, AnyNote
<1>3. hookRun \in [Session -> RunLedgers]
  BY <1>1 DEF LoopInv
<1>4. \A s \in Session : hookRun[s].at \in {"idle", "decided", "truncated"} /\ hookRun[s].ledger.hashes \in Hashes
  BY <1>3 DEF RunLedgers, Ledgers
<1>5. LoopTypeOK
  BY <1>1, <1>2, <1>4 DEF LoopTypeOK, LoopInv, Ledgers
<1>6. BreakerNeedsThree
  BY <1>1 DEF BreakerNeedsThree, LoopInv, SoundLedger, HasCause, Last
<1> QED BY <1>5, <1>6

(* With no run under way and EXIT_SIGNAL set, no step changes the file.     *)
LEMMA LoopEndStays == [LoopNext]_loopVars => (LoopEnded => LoopEnded')
<1>1. SUFFICES ASSUME [LoopNext]_loopVars, LoopEnded PROVE LoopEnded'
  OBVIOUS
<1>2. CASE UNCHANGED loopVars
  BY <1>1, <1>2 DEF LoopEnded, loopVars
<1>3. ASSUME NEW s \in Session, SessionStops(s) PROVE FALSE
  BY <1>1, <1>3 DEF SessionStops, Stops, ReadLoopFile, LoopEnded
<1>4. ASSUME NEW s \in Session, TruncatesLoopFile(s) \/ WritesLoopFile(s) \/ KillsHook(s) PROVE FALSE
  BY <1>1, <1>4 DEF TruncatesLoopFile, WritesLoopFile, KillsHook, LoopEnded
<1> QED BY <1>1, <1>2, <1>3, <1>4 DEF LoopNext

(* ralph-loop.js halts a loop at the circuit breaker only for a note that   *)
(* three runs reported, and what has ended stays ended.                     *)
THEOREM RalphSafeHolds == RalphSpec => RalphSafe
<1>1. LoopInit => LoopInv
  BY LoopInvInit
<1>2. LoopInv /\ [LoopNext]_loopVars => LoopInv'
  BY LoopInvNext
<1>3. LoopInv => LoopTypeOK /\ BreakerNeedsThree
  BY LoopInvIsSafe
<1>4. [LoopNext]_loopVars => (LoopEnded => LoopEnded')
  BY LoopEndStays
<1> QED BY <1>1, <1>2, <1>3, <1>4, PTL DEF RalphSpec, RalphSafe, EndIsFinal
-----------------------------------------------------------------------------
(***************************************************************************)
(* What session-end.js and pre-compact.js write is what session-start.js   *)
(* tells the next session of the right working tree, for any numbers of    *)
(* trees, projects, days, notes and compactions.                           *)
(*                                                                         *)
(* The invariant: a day and a project have at most one file, a file names  *)
(* the tree whose summary it holds, and the last checkpoint kept for a     *)
(* project is that of its last compaction.                                 *)
(***************************************************************************)
Bodies == {"summary", "placeholder", "other", "empty"}
NoteFiles == [date : Nat, project : ProjectName, tree : Worktree, written : Nat, marked : BOOLEAN,
              body : Bodies, of : Worktree \cup {Nobody}]

Holds(note) == note.of # Nobody <=> note.body = "summary"
SameName(a, b) == a.date = b.date /\ a.project = b.project

SoundNotes(ns) ==
  /\ ns \in Seq(NoteFiles)
  /\ \A i \in 1..Len(ns) : Holds(ns[i])
  /\ \A i, j \in 1..Len(ns) : SameName(ns[i], ns[j]) => i = j

KeepsLast(p) ==
  /\ Len(checkpoints[p]) \in 0..KeepCheckpoints
  /\ checkpoints[p] # <<>> => checkpoints[p][Len(checkpoints[p])] = lastCompaction[p]

SessionNotesInv ==
  /\ day \in 1..MaxDays /\ compactions \in 0..MaxCompactions
  /\ SoundNotes(notes)
  /\ checkpoints \in [ProjectName -> Seq(Nat)] /\ lastCompaction \in [ProjectName -> Nat]
  /\ \A p \in ProjectName : KeepsLast(p)

(* A file with a name of its own can be added.                              *)
LEMMA AddsNote ==
  ASSUME NEW ns, SoundNotes(ns), NEW new \in NoteFiles, Holds(new),
         \A i \in 1..Len(ns) : ~SameName(ns[i], new)
  PROVE  SoundNotes(Append(ns, new))
<1>1. PICK n \in Nat : n = Len(ns) /\ ns \in Seq(NoteFiles)
  BY LenProperties DEF SoundNotes
<1>2. PICK all : all = Append(ns, new)
  OBVIOUS
<1>3. /\ all \in Seq(NoteFiles) /\ Len(all) = n + 1
      /\ \A i \in 1..n : all[i] = ns[i]
      /\ all[n + 1] = new
  BY <1>1, <1>2, AppendProperties
<1>4. /\ \A i \in 1..n : Holds(ns[i]) /\ ~SameName(ns[i], new) /\ ~SameName(new, ns[i])
      /\ \A i, j \in 1..n : SameName(ns[i], ns[j]) => i = j
  BY <1>1 DEF SoundNotes, SameName
<1>5. ASSUME NEW i \in 1..(n + 1) PROVE Holds(all[i])
  <2>1. CASE i \in 1..n
    BY <1>3, <1>4, <2>1
  <2>2. CASE i = n + 1
    BY <1>3, <2>2
  <2> QED BY <2>1, <2>2
<1>6. ASSUME NEW i \in 1..(n + 1), NEW j \in 1..(n + 1), SameName(all[i], all[j]) PROVE i = j
  <2>1. CASE i \in 1..n /\ j \in 1..n
    BY <1>3, <1>4, <1>6, <2>1
  <2>2. CASE i \in 1..n /\ j = n + 1
    BY <1>3, <1>4, <1>6, <2>2
  <2>3. CASE i = n + 1 /\ j \in 1..n
    BY <1>3, <1>4, <1>6, <2>3
  <2>4. CASE i = n + 1 /\ j = n + 1
    BY <2>4
  <2> QED BY <2>1, <2>2, <2>3, <2>4
<1> QED BY <1>2, <1>3, <1>5, <1>6 DEF SoundNotes

(* A list without one of its files keeps the names of the others.           *)
LEMMA DropsNote ==
  ASSUME NEW ns, SoundNotes(ns), NEW n \in Nat, n = Len(ns), NEW i \in 1..n,
         NEW rest \in Seq(NoteFiles), Len(rest) = n - 1,
         \A j \in 1..(n - 1) : rest[j] = ns[IF j < i THEN j ELSE j + 1]
  PROVE  SoundNotes(rest) /\ \A j \in 1..Len(rest) : ~SameName(rest[j], ns[i])
<1> DEFINE to(j) == IF j < i THEN j ELSE j + 1
<1>1. ASSUME NEW j \in 1..(n - 1) PROVE to(j) \in 1..n /\ to(j) # i /\ rest[j] = ns[to(j)]
  OBVIOUS
<1>2. ASSUME NEW j \in 1..(n - 1), NEW k \in 1..(n - 1), to(j) = to(k) PROVE j = k
  BY <1>2
<1>3. /\ \A j \in 1..n : Holds(ns[j])
      /\ \A j, k \in 1..n : SameName(ns[j], ns[k]) => j = k
  BY DEF SoundNotes
<1> HIDE DEF to
<1>4. \A j \in 1..(n - 1) : Holds(rest[j]) /\ ~SameName(rest[j], ns[i])
  BY <1>1, <1>3
<1>5. \A j, k \in 1..(n - 1) : SameName(rest[j], rest[k]) => j = k
  BY <1>1, <1>2, <1>3
<1> QED BY <1>4, <1>5 DEF SoundNotes

(* The list without its i-th file.                                          *)
LEMMA RemoveAtIs ==
  ASSUME NEW ns \in Seq(NoteFiles), NEW n \in Nat, n = Len(ns), NEW i \in 1..n
  PROVE  /\ RemoveAt(ns, i) \in Seq(NoteFiles) /\ Len(RemoveAt(ns, i)) = n - 1
         /\ \A j \in 1..(n - 1) : RemoveAt(ns, i)[j] = ns[IF j < i THEN j ELSE j + 1]
<1>1. \A j \in 1..n : ns[j] \in NoteFiles
  BY ElementOfSeq
<1>2. PICK a : a = SubSeq(ns, 1, i - 1)
  OBVIOUS
<1>3. PICK b : b = SubSeq(ns, i + 1, n)
  OBVIOUS
<1>4. /\ a \in Seq(NoteFiles) /\ Len(a) = i - 1 /\ \A j \in 1..(i - 1) : a[j] = ns[j]
  <2>1. i - 1 \in Int /\ \A j \in 1..(i - 1) : ns[j] \in NoteFiles
    BY <1>1
  <2>2. /\ a \in Seq(NoteFiles)
        /\ Len(a) = IF 1 <= i - 1 THEN (i - 1) - 1 + 1 ELSE 0
        /\ \A j \in 1..((i - 1) - 1 + 1) : a[j] = ns[1 + j - 1]
    BY <1>2, <2>1, SubSeqProperties
  <2>3. Len(a) = i - 1
    <3>1. IF 1 <= i - 1 THEN (i - 1) - 1 + 1 = i - 1 ELSE 0 = i - 1
      OBVIOUS
    <3> QED BY <2>2, <3>1
  <2>4. ASSUME NEW j \in 1..(i - 1) PROVE a[j] = ns[j]
    <3>1. j \in 1..((i - 1) - 1 + 1) /\ 1 + j - 1 = j
      OBVIOUS
    <3> QED BY <2>2, <3>1
  <2> QED BY <2>2, <2>3, <2>4
<1>5. /\ b \in Seq(NoteFiles) /\ Len(b) = n - i /\ \A j \in 1..(n - i) : b[j] = ns[i + j]
  <2>1. i + 1 \in Int /\ \A j \in (i + 1)..n : ns[j] \in NoteFiles
    BY <1>1
  <2>2. /\ b \in Seq(NoteFiles)
        /\ Len(b) = IF i + 1 <= n THEN n - (i + 1) + 1 ELSE 0
        /\ \A j \in 1..(n - (i + 1) + 1) : b[j] = ns[(i + 1) + j - 1]
    BY <1>3, <2>1, SubSeqProperties
  <2>3. Len(b) = n - i
    <3>1. IF i + 1 <= n THEN n - (i + 1) + 1 = n - i ELSE 0 = n - i
      OBVIOUS
    <3> QED BY <2>2, <3>1
  <2>4. ASSUME NEW j \in 1..(n - i) PROVE b[j] = ns[i + j]
    <3>1. j \in 1..(n - (i + 1) + 1) /\ (i + 1) + j - 1 = i + j
      OBVIOUS
    <3> QED BY <2>2, <3>1
  <2> QED BY <2>2, <2>3, <2>4
<1>6. PICK r : r = RemoveAt(ns, i)
  OBVIOUS
<1>7. r = a \o b
  BY <1>2, <1>3, <1>6 DEF RemoveAt
<1>8. /\ r \in Seq(NoteFiles) /\ Len(r) = Len(a) + Len(b)
      /\ \A j \in 1..(Len(a) + Len(b)) : r[j] = IF j <= Len(a) THEN a[j] ELSE b[j - Len(a)]
  BY <1>4, <1>5, <1>7, ConcatProperties
<1>9. \A j \in 1..(n - 1) : r[j] = IF j <= i - 1 THEN a[j] ELSE b[j - (i - 1)]
  BY <1>4, <1>5, <1>8
<1>10. \A j \in 1..(n - 1) : r[j] = ns[IF j < i THEN j ELSE j + 1]
  <2>1. SUFFICES ASSUME NEW j \in 1..(n - 1) PROVE r[j] = ns[IF j < i THEN j ELSE j + 1]
    OBVIOUS
  <2>2. CASE j < i
    BY <2>2, <1>9, <1>4
  <2>3. CASE ~(j < i)
    <3>1. j - (i - 1) \in 1..(n - i) /\ ~(j <= i - 1) /\ i + (j - (i - 1)) = j + 1
      BY <2>3
    <3>2. r[j] = b[j - (i - 1)]
      BY <3>1, <1>9
    <3> QED BY <2>3, <3>1, <3>2, <1>5
  <2> QED BY <2>2, <2>3
<1>11. Len(r) = n - 1
  BY <1>4, <1>5, <1>8
<1> QED BY <1>6, <1>8, <1>10, <1>11

(* The list without its last file.                                          *)
LEMMA FrontIs ==
  ASSUME NEW ns \in Seq(NoteFiles), NEW n \in Nat \ {0}, n = Len(ns)
  PROVE  /\ Front(ns) \in Seq(NoteFiles) /\ Len(Front(ns)) = n - 1
         /\ \A j \in 1..(n - 1) : Front(ns)[j] = ns[IF j < n THEN j ELSE j + 1]
<1>1. n - 1 \in Int /\ \A j \in 1..(n - 1) : ns[j] \in NoteFiles
  <2>1. \A j \in 1..n : ns[j] \in NoteFiles
    BY ElementOfSeq
  <2> QED BY <2>1
<1>2. PICK a : a = SubSeq(ns, 1, n - 1)
  OBVIOUS
<1>3. /\ a \in Seq(NoteFiles)
      /\ Len(a) = IF 1 <= n - 1 THEN (n - 1) - 1 + 1 ELSE 0
      /\ \A j \in 1..((n - 1) - 1 + 1) : a[j] = ns[1 + j - 1]
  BY <1>1, <1>2, SubSeqProperties
<1>4. Len(a) = n - 1 /\ \A j \in 1..(n - 1) : a[j] = ns[IF j < n THEN j ELSE j + 1]
  BY <1>3
<1>5. Front(ns) = a
  BY <1>2 DEF Front
<1> QED BY <1>3, <1>4, <1>5

(* A file that keeps its name can be rewritten: it is then the last one.    *)
LEMMA RewritesNote ==
  ASSUME NEW ns, SoundNotes(ns), NEW i \in 1..Len(ns), NEW new \in NoteFiles, Holds(new),
         SameName(ns[i], new)
  PROVE  /\ SoundNotes(Append(RemoveAt(ns, i), new))
         /\ i = Len(ns) => SoundNotes(Append(Front(ns), new))
<1>1. PICK n \in Nat : n = Len(ns) /\ ns \in Seq(NoteFiles)
  BY LenProperties DEF SoundNotes
<1>2. i \in 1..n
  BY <1>1
<1>3. ASSUME NEW rest \in Seq(NoteFiles), Len(rest) = n - 1,
             \A j \in 1..(n - 1) : rest[j] = ns[IF j < i THEN j ELSE j + 1]
      PROVE  SoundNotes(Append(rest, new))
  <2>1. SoundNotes(rest) /\ \A j \in 1..Len(rest) : ~SameName(rest[j], ns[i])
    BY <1>1, <1>2, <1>3, DropsNote
  <2>2. \A j \in 1..Len(rest) : ~SameName(rest[j], new)
    BY <2>1 DEF SameName
  <2> QED BY <2>1, <2>2, AddsNote
<1>4. SoundNotes(Append(RemoveAt(ns, i), new))
  <2>1. PICK rest : rest = RemoveAt(ns, i)
    OBVIOUS
  <2>2. /\ rest \in Seq(NoteFiles) /\ Len(rest) = n - 1
        /\ \A j \in 1..(n - 1) : rest[j] = ns[IF j < i THEN j ELSE j + 1]
    BY <1>1, <1>2, <2>1, RemoveAtIs
  <2> QED BY <1>3, <2>1, <2>2
<1>5. ASSUME i = n PROVE SoundNotes(Append(Front(ns), new))
  <2>1. PICK rest : rest = Front(ns)
    OBVIOUS
  <2>2. n \in Nat \ {0}
    BY <1>2
  <2>3. /\ rest \in Seq(NoteFiles) /\ Len(rest) = n - 1
        /\ \A j \in 1..(n - 1) : rest[j] = ns[IF j < i THEN j ELSE j + 1]
    BY <1>1, <1>5, <2>1, <2>2, FrontIs
  <2> QED BY <1>3, <2>1, <2>3
<1> QED BY <1>1, <1>4, <1>5

(* The fields of a file that is there.                                      *)
LEMMA NoteFields ==
  ASSUME SoundNotes(notes), NEW i \in DOMAIN notes
  PROVE  i \in 1..Len(notes) /\ notes[i] \in NoteFiles /\ Holds(notes[i])
<1>1. notes \in Seq(NoteFiles) /\ DOMAIN notes = 1..Len(notes)
  BY LenProperties DEF SoundNotes
<1>2. i \in 1..Len(notes)
  BY <1>1
<1>3. notes[i] \in NoteFiles
  BY <1>1, <1>2, ElementOfSeq
<1> QED BY <1>2, <1>3 DEF SoundNotes

(* What session-end.js writes over a file keeps the name of the file.       *)
LEMMA EndedKeepsName ==
  ASSUME NEW n \in NoteFiles, Holds(n), day \in Nat, NEW w \in Worktree, NEW summary \in BOOLEAN
  PROVE  /\ Ended(n, w, summary) \in NoteFiles /\ Holds(Ended(n, w, summary))
         /\ SameName(n, Ended(n, w, summary))
         /\ summary /\ n.body \in {"summary", "placeholder"} => Ended(n, w, summary).of = w
<1>1. PICK h : h = Reheaded(n, w)
  OBVIOUS
<1>2. h \in NoteFiles /\ Holds(h) /\ SameName(n, h) /\ h.body = n.body
  BY <1>1 DEF Reheaded, NoteFiles, Holds, SameName
<1>3. PICK s : s = Summarised(h, w)
  OBVIOUS
<1>4. w # Nobody
  BY WorktreeAssumption
<1>5. s \in NoteFiles /\ Holds(s) /\ SameName(n, s) /\ (n.body \in {"summary", "placeholder"} => s.of = w)
  <2>1. CASE h.body = "summary"
    BY <1>2, <1>3, <1>4, <2>1 DEF Summarised, NoteFiles, Holds, SameName
  <2>2. CASE h.body = "placeholder"
    BY <1>2, <1>3, <1>4, <2>2 DEF Summarised, NoteFiles, Holds, SameName, Bodies
  <2>3. CASE h.body \notin {"summary", "placeholder"}
    BY <1>2, <1>3, <2>3 DEF Summarised
  <2> QED BY <2>1, <2>2, <2>3
<1>6. CASE n.body = "empty"
  BY <1>6 DEF Ended, SameName
<1>7. CASE n.body # "empty" /\ summary
  <2>1. Ended(n, w, summary) = s
    BY <1>1, <1>3, <1>7 DEF Ended
  <2> QED BY <2>1, <1>5
<1>8. CASE n.body # "empty" /\ ~summary
  <2>1. Ended(n, w, summary) = h
    BY <1>1, <1>8 DEF Ended
  <2> QED BY <2>1, <1>2, <1>8
<1> QED BY <1>6, <1>7, <1>8

(* session-end.js leaves at most one file of the day for a project.         *)
LEMMA SessionEndsKeeps ==
  ASSUME SessionNotesInv, NEW w \in Worktree, NEW summary \in BOOLEAN, SessionEnds(w, summary)
  PROVE  SoundNotes(notes')
<1>1. SoundNotes(notes) /\ day \in Nat
  BY NotesBounds DEF SessionNotesInv
<1>2. CASE (\A i \in DOMAIN notes : ~IsTodays(notes[i], w)) /\ notes' = Append(notes, NewNote(w, summary))
  <2>1. PICK new : new = NewNote(w, summary)
    OBVIOUS
  <2>2. ProjectOf[w] \in ProjectName
    BY DEF ProjectName
  <2>3. new \in NoteFiles /\ Holds(new) /\ new.date = day /\ new.project = ProjectOf[w]
    BY <1>1, <2>1, <2>2, WorktreeAssumption DEF NewNote, NoteFiles, Holds, Bodies
  <2>4. DOMAIN notes = 1..Len(notes)
    BY <1>1, LenProperties DEF SoundNotes
  <2>5. \A i \in 1..Len(notes) : ~SameName(notes[i], new)
    BY <1>2, <2>3, <2>4 DEF IsTodays, SameName
  <2> QED BY <1>1, <1>2, <2>1, <2>3, <2>5, AddsNote
<1>3. ASSUME NEW i \in DOMAIN notes,
             notes' = IF notes[i].body = "empty" THEN notes
                      ELSE Append(RemoveAt(notes, i), Ended(notes[i], w, summary))
      PROVE  SoundNotes(notes')
  <2>1. i \in 1..Len(notes) /\ notes[i] \in NoteFiles /\ Holds(notes[i])
    BY <1>1, NoteFields
  <2>2. CASE notes[i].body = "empty"
    BY <1>1, <1>3, <2>2
  <2>3. CASE notes[i].body # "empty"
    <3>1. PICK new : new = Ended(notes[i], w, summary)
      OBVIOUS
    <3>2. new \in NoteFiles /\ Holds(new) /\ SameName(notes[i], new)
      BY <1>1, <2>1, <3>1, EndedKeepsName
    <3>3. notes' = Append(RemoveAt(notes, i), new)
      BY <1>3, <2>3, <3>1
    <3> QED BY <1>1, <2>1, <3>2, <3>3, RewritesNote
  <2> QED BY <2>2, <2>3
<1> QED BY <1>2, <1>3 DEF SessionEnds

(* Pruning leaves the newest checkpoint and at most KeepCheckpoints.        *)
LEMMA PrunedKeepsLast ==
  ASSUME NEW s \in Seq(Nat), Len(s) \in 0..KeepCheckpoints, NEW c \in Nat
  PROVE  LET t == Pruned(Append(s, c)) IN
         t \in Seq(Nat) /\ Len(t) \in 0..KeepCheckpoints /\ t[Len(t)] = c
<1>1. PICK n \in Nat : n = Len(s)
  BY LenProperties
<1>2. n \in 0..KeepCheckpoints /\ KeepCheckpoints \in Nat /\ KeepCheckpoints >= 1
  BY <1>1, NotesBounds
<1>3. PICK all : all = Append(s, c)
  OBVIOUS
<1>4. all \in Seq(Nat) /\ all # <<>> /\ Len(all) = n + 1 /\ all[n + 1] = c
  BY <1>1, <1>3, AppendProperties
<1>5. PICK t : t = Pruned(all)
  OBVIOUS
<1>6. CASE n = KeepCheckpoints
  <2>1. n + 1 > KeepCheckpoints
    BY <1>2, <1>6
  <2>2. t = Tail(all)
    BY <1>4, <1>5, <2>1 DEF Pruned
  <2>3. t \in Seq(Nat) /\ Len(t) = (n + 1) - 1 /\ \A i \in 1..((n + 1) - 1) : t[i] = all[i + 1]
    <3>1. /\ Tail(all) \in Seq(Nat) /\ Len(Tail(all)) = Len(all) - 1
          /\ \A i \in 1..Len(Tail(all)) : Tail(all)[i] = all[i + 1]
      BY <1>4, HeadTailProperties
    <3> QED BY <3>1, <2>2, <1>4
  <2>4. Len(t) = n /\ t[n] = c
    BY <1>2, <1>4, <1>6, <2>3
  <2> QED BY <1>2, <1>3, <1>5, <2>3, <2>4
<1>7. CASE n # KeepCheckpoints
  <2>1. ~(n + 1 > KeepCheckpoints) /\ n + 1 \in 0..KeepCheckpoints
    BY <1>2, <1>7
  <2>2. t = all
    BY <1>4, <1>5, <2>1 DEF Pruned
  <2> QED BY <1>3, <1>4, <1>5, <2>1, <2>2
<1> QED BY <1>6, <1>7

(* pre-compact.js marks the last file and saves a checkpoint.               *)
LEMMA CompactsKeeps == ASSUME SessionNotesInv, NEW w \in Worktree, Compacts(w) PROVE SessionNotesInv'
<1>1. SoundNotes(notes) /\ day \in Nat /\ compactions \in 0..MaxCompactions /\ day' = day /\ day \in 1..MaxDays
  BY NotesBounds DEF SessionNotesInv, Compacts
<1>2. SoundNotes(notes')
  <2>1. PICK n \in Nat : n = Len(notes) /\ notes \in Seq(NoteFiles) /\ DOMAIN notes = 1..n
    BY <1>1, LenProperties DEF SoundNotes
  <2>2. CASE notes = <<>>
    BY <1>1, <2>2 DEF Compacts
  <2>3. CASE notes # <<>>
    <3>1. n # 0 /\ n \in 1..n
      BY <2>1, <2>3, EmptySeq
    <3>2. PICK was \in NoteFiles : was = notes[n] /\ Holds(was)
      BY <1>1, <2>1, <3>1, NoteFields
    <3>3. PICK new : new = [was EXCEPT !.marked = TRUE, !.written = day,
                                       !.body = IF @ = "empty" THEN "other" ELSE @]
      OBVIOUS
    <3>4. new \in NoteFiles /\ Holds(new) /\ SameName(was, new)
      BY <1>1, <3>2, <3>3 DEF NoteFiles, Holds, SameName, Bodies
    <3>5. notes' = Append(Front(notes), new)
      BY <2>1, <2>3, <3>2, <3>3 DEF Compacts, Last
    <3> QED BY <1>1, <2>1, <3>1, <3>2, <3>4, <3>5, RewritesNote
  <2> QED BY <2>2, <2>3
<1>3. PICK c \in Nat : c = compactions + 1 /\ c \in 0..MaxCompactions
  BY <1>1, NotesBounds DEF Compacts
<1>4. PICK p \in ProjectName : p = ProjectOf[w]
  BY DEF ProjectName
<1>5. /\ checkpoints \in [ProjectName -> Seq(Nat)] /\ lastCompaction \in [ProjectName -> Nat]
      /\ \A q \in ProjectName : KeepsLast(q)
  BY DEF SessionNotesInv
<1>6. PICK s \in Seq(Nat) : s = checkpoints[p] /\ Len(s) \in 0..KeepCheckpoints
  BY <1>4, <1>5 DEF KeepsLast
<1>7. PICK t \in Seq(Nat) : t = Pruned(Append(s, c)) /\ Len(t) \in 0..KeepCheckpoints /\ t[Len(t)] = c
  BY <1>3, <1>6, PrunedKeepsLast
<1>8. /\ checkpoints' = [checkpoints EXCEPT ![p] = t] /\ lastCompaction' = [lastCompaction EXCEPT ![p] = c]
      /\ compactions' = c
  BY <1>3, <1>4, <1>6, <1>7 DEF Compacts
<1>9. checkpoints' \in [ProjectName -> Seq(Nat)] /\ lastCompaction' \in [ProjectName -> Nat]
  BY <1>5, <1>8
<1>10. ASSUME NEW q \in ProjectName PROVE KeepsLast(q)'
  <2>1. CASE q = p
    <3>1. checkpoints'[q] = t /\ lastCompaction'[q] = c
      BY <1>5, <1>8, <2>1
    <3> QED BY <3>1, <1>7 DEF KeepsLast
  <2>2. CASE q # p
    <3>1. checkpoints'[q] = checkpoints[q] /\ lastCompaction'[q] = lastCompaction[q]
      BY <1>5, <1>8, <2>2
    <3> QED BY <3>1, <1>5 DEF KeepsLast
  <2> QED BY <2>1, <2>2
<1> QED BY <1>1, <1>2, <1>3, <1>8, <1>9, <1>10 DEF SessionNotesInv, SoundNotes, Holds, SameName

(* A user who edits a file keeps its name.                                  *)
LEMMA UserKeeps ==
  ASSUME SessionNotesInv, NEW i \in DOMAIN notes, NEW body \in {"other", "empty"},
         UserEmptiesOrRewrites(i, body)
  PROVE  SoundNotes(notes')
<1>1. SoundNotes(notes) /\ day \in Nat
  BY NotesBounds DEF SessionNotesInv
<1>2. i \in 1..Len(notes) /\ notes[i] \in NoteFiles /\ Holds(notes[i])
  BY <1>1, NoteFields
<1>3. PICK was \in NoteFiles : was = notes[i]
  BY <1>2
<1>4. PICK new : new = [was EXCEPT !.body = body, !.of = Nobody, !.marked = FALSE, !.written = day]
  OBVIOUS
<1>5. new \in NoteFiles /\ Holds(new) /\ SameName(was, new)
  BY <1>1, <1>4 DEF NoteFiles, Holds, SameName, Bodies
<1>6. notes' = Append(RemoveAt(notes, i), new)
  BY <1>3, <1>4 DEF UserEmptiesOrRewrites
<1> QED BY <1>1, <1>2, <1>3, <1>5, <1>6, RewritesNote

(* The invariant speaks of these variables only.                            *)
LEMMA NotesFrame ==
  ASSUME SessionNotesInv, SoundNotes(notes'), day' \in 1..MaxDays,
         UNCHANGED <<checkpoints, compactions, lastCompaction>>
  PROVE  SessionNotesInv'
<1>1. checkpoints' = checkpoints /\ compactions' = compactions /\ lastCompaction' = lastCompaction
  OBVIOUS
<1>2. \A p \in ProjectName : KeepsLast(p)'
  BY <1>1 DEF SessionNotesInv, KeepsLast
<1> QED BY <1>1, <1>2 DEF SessionNotesInv, SoundNotes, Holds, SameName

(* SessionNotesInv is inductive.                                            *)
LEMMA NotesInvNext == SessionNotesInv /\ [NotesNext]_notesVars => SessionNotesInv'
<1>1. SUFFICES ASSUME SessionNotesInv, [NotesNext]_notesVars PROVE SessionNotesInv'
  OBVIOUS
<1>2. SoundNotes(notes) /\ day \in 1..MaxDays
  BY <1>1 DEF SessionNotesInv
<1>3. CASE UNCHANGED notesVars
  <2>1. notes' = notes /\ day' = day /\ UNCHANGED <<checkpoints, compactions, lastCompaction>>
    BY <1>3 DEF notesVars
  <2> QED BY <1>1, <1>2, <2>1, NotesFrame
<1>4. ASSUME NEW w \in Worktree, Compacts(w) PROVE SessionNotesInv'
  BY <1>1, <1>4, CompactsKeeps
<1>5. ASSUME NEW w \in Worktree, NEW summary \in BOOLEAN, SessionEnds(w, summary) PROVE SessionNotesInv'
  <2>1. SoundNotes(notes')
    BY <1>1, <1>5, SessionEndsKeeps
  <2>2. day' = day /\ UNCHANGED <<checkpoints, compactions, lastCompaction>>
    BY <1>5 DEF SessionEnds
  <2> QED BY <1>1, <1>2, <2>1, <2>2, NotesFrame
<1>6. ASSUME NEW w \in Worktree, SessionStarts(w) PROVE SessionNotesInv'
  <2>1. notes' = notes /\ day' = day /\ UNCHANGED <<checkpoints, compactions, lastCompaction>>
    BY <1>6 DEF SessionStarts
  <2> QED BY <1>1, <1>2, <2>1, NotesFrame
<1>7. ASSUME NEW i \in DOMAIN notes, NEW body \in {"other", "empty"}, UserEmptiesOrRewrites(i, body)
      PROVE  SessionNotesInv'
  <2>1. SoundNotes(notes')
    BY <1>1, <1>7, UserKeeps
  <2>2. day' = day /\ UNCHANGED <<checkpoints, compactions, lastCompaction>>
    BY <1>7 DEF UserEmptiesOrRewrites
  <2> QED BY <1>1, <1>2, <2>1, <2>2, NotesFrame
<1>8. CASE TwoHoursPass
  <2>1. notes' = notes /\ day' = day /\ UNCHANGED <<checkpoints, compactions, lastCompaction>>
    BY <1>8 DEF TwoHoursPass
  <2> QED BY <1>1, <1>2, <2>1, NotesFrame
<1>9. CASE DayPasses
  <2>1. notes' = notes /\ day' \in 1..MaxDays /\ UNCHANGED <<checkpoints, compactions, lastCompaction>>
    BY <1>2, <1>9, NotesBounds DEF DayPasses
  <2> QED BY <1>1, <1>2, <2>1, NotesFrame
<1> QED BY <1>1, <1>3, <1>4, <1>5, <1>6, <1>7, <1>8, <1>9 DEF NotesNext

(* No session has run: the invariant holds.                                 *)
LEMMA NotesInvInit == NotesInit => SessionNotesInv
<1>1. SUFFICES ASSUME NotesInit PROVE SessionNotesInv
  OBVIOUS
<1>2. <<>> \in Seq(NoteFiles) /\ <<>> \in Seq(Nat) /\ Len(<<>>) = 0
  BY EmptySeq
<1>3. SoundNotes(notes)
  BY <1>1, <1>2 DEF NotesInit, SoundNotes
<1>4. 0 \in 0..KeepCheckpoints /\ 0 \in 0..MaxCompactions /\ 1 \in 1..MaxDays
  BY NotesBounds
<1>5. \A p \in ProjectName : KeepsLast(p)
  BY <1>1, <1>2, <1>4 DEF NotesInit, KeepsLast
<1> QED BY <1>1, <1>2, <1>3, <1>4, <1>5 DEF NotesInit, SessionNotesInv

(* The invariant has the types and the one file of a day and project.       *)
LEMMA NotesInvTypes == SessionNotesInv => NotesTypeOK
<1>1. SUFFICES ASSUME SessionNotesInv PROVE NotesTypeOK
  OBVIOUS
<1>2. SoundNotes(notes) /\ DOMAIN notes = 1..Len(notes)
  BY <1>1, LenProperties DEF SessionNotesInv, SoundNotes
<1>3. ASSUME NEW i \in DOMAIN notes
      PROVE  /\ notes[i].body \in Bodies
             /\ (notes[i].of # Nobody) = (notes[i].body = "summary")
             /\ \A j \in DOMAIN notes :
                  notes[i].date = notes[j].date /\ notes[i].project = notes[j].project => i = j
  <2>1. notes[i] \in NoteFiles /\ Holds(notes[i])
    BY <1>2, NoteFields
  <2>2. notes[i].body \in Bodies
    BY <2>1 DEF NoteFiles
  <2>3. (notes[i].of # Nobody) = (notes[i].body = "summary")
    BY <2>1 DEF Holds
  <2> QED BY <1>2, <2>2, <2>3 DEF SoundNotes, SameName
<1>4. ASSUME NEW p \in ProjectName PROVE Len(checkpoints[p]) <= KeepCheckpoints
  <2>1. PICK n \in 0..KeepCheckpoints : n = Len(checkpoints[p])
    BY <1>1 DEF SessionNotesInv, KeepsLast
  <2>2. n <= KeepCheckpoints
    BY <2>1, NotesBounds
  <2> QED BY <2>1, <2>2
<1> QED BY <1>1, <1>3, <1>4 DEF SessionNotesInv, NotesTypeOK, Bodies

(* Indices have a last one.                                                 *)
LEMMA LastIndexExists ==
  ASSUME NEW n \in Nat, NEW I, I \subseteq 1..n, I # {}
  PROVE  \E i \in I : \A j \in I : j <= i
<1> DEFINE After == {n - i : i \in I}
<1>1. After \subseteq Nat /\ After # {}
  <2>1. ASSUME NEW i \in I PROVE n - i \in Nat
    <3>1. i \in 1..n
      OBVIOUS
    <3> QED BY <3>1
  <2>2. PICK i \in I : TRUE
    OBVIOUS
  <2> QED BY <2>1, <2>2
<1>2. PICK m \in After : \A k \in After : ~(<<k, m>> \in OpToRel(<, Nat))
  <2> HIDE DEF After
  <2> QED BY <1>1, NatLessThanWellFounded, WFMin
<1>3. PICK i \in I : m = n - i
  OBVIOUS
<1>4. ASSUME NEW j \in I, j > i PROVE FALSE
  <2>1. n - j \in After /\ n - j \in Nat /\ n - i \in Nat /\ n - j < n - i
    BY <1>4
  <2>2. <<n - j, n - i>> \in Nat \X Nat /\ <<n - j, n - i>>[1] < <<n - j, n - i>>[2]
    BY <2>1
  <2>3. <<n - j, n - i>> \in OpToRel(<, Nat)
    BY <2>2 DEF OpToRel
  <2> QED BY <1>2, <1>3, <2>1, <2>3
<1>5. \A j \in I : j <= i
  BY <1>4
<1> QED BY <1>5

(* The file chosen is of the own tree as soon as one recent file is.        *)
LEMMA OwnTreeIsChosen ==
  ASSUME SessionNotesInv, NEW w \in Worktree, SessionStarts(w), OfTree(w) # {}
  PROVE  given'.note = <<>> \/ given'.note[1].tree = w
<1>1. PICK I : I = OfTree(w)
  OBVIOUS
<1>2. I # {} /\ I \subseteq DOMAIN notes /\ \A i \in I : notes[i].tree = w
  BY <1>1 DEF OfTree, Recent
<1>3. PICK n \in Nat : DOMAIN notes = 1..n
  BY LenProperties DEF SessionNotesInv, SoundNotes
<1>4. \E i \in I : \A j \in I : j <= i
  <2>1. I \subseteq 1..n
    BY <1>2, <1>3
  <2> QED BY <1>2, <2>1, LastIndexExists
<1>5. PICK k \in I : Chosen(w) = <<notes[k]>>
  <2>1. PICK k : k = CHOOSE i \in I : \A j \in I : j <= i
    OBVIOUS
  <2>2. k \in I
    BY <1>4, <2>1
  <2>3. Chosen(w) = <<notes[k]>>
    BY <1>1, <1>2, <2>1 DEF Chosen, LastOf
  <2> QED BY <2>2, <2>3
<1>6. given'.note = <<>> \/ given'.note = <<notes[k]>>
  BY <1>5 DEF SessionStarts
<1> QED BY <1>2, <1>6

(* The checkpoint recovered is the last one saved for the project.          *)
LEMMA NewestIsRecovered ==
  ASSUME SessionNotesInv, NEW w \in Worktree, SessionStarts(w), given'.checkpoint # 0
  PROVE  given'.checkpoint = lastCompaction[ProjectOf[w]]
<1>1. PICK p \in ProjectName : p = ProjectOf[w]
  BY DEF ProjectName
<1>2. given'.checkpoint = Recovered(p)
  BY <1>1 DEF SessionStarts
<1>3. checkpoints[p] # <<>> /\ Recovered(p) = checkpoints[p][Len(checkpoints[p])]
  BY <1>2 DEF Recovered, Last
<1> QED BY <1>1, <1>2, <1>3 DEF SessionNotesInv, KeepsLast

(* A summary is in the last file, unless a user took its place away.        *)
LEMMA SummaryIsLast ==
  ASSUME SessionNotesInv, NEW w \in Worktree, SessionEnds(w, TRUE),
         ~(\E i \in DOMAIN notes : IsTodays(notes[i], w) /\ notes[i].body \in {"other", "empty"})
  PROVE  Last(notes').of = w
<1>1. SoundNotes(notes) /\ day \in Nat
  BY NotesBounds DEF SessionNotesInv
<1>2. notes \in Seq(NoteFiles)
  BY <1>1 DEF SoundNotes
<1>3. ASSUME NEW ns \in Seq(NoteFiles), NEW new \in NoteFiles, notes' = Append(ns, new)
      PROVE  Last(notes') = new
  <2>1. PICK n \in Nat : n = Len(ns)
    BY LenProperties
  <2>2. Len(notes') = n + 1 /\ notes'[n + 1] = new
    BY <1>3, <2>1, AppendProperties
  <2> QED BY <2>2 DEF Last
<1>4. CASE (\A i \in DOMAIN notes : ~IsTodays(notes[i], w)) /\ notes' = Append(notes, NewNote(w, TRUE))
  <2>1. PICK new : new = NewNote(w, TRUE)
    OBVIOUS
  <2>2. ProjectOf[w] \in ProjectName
    BY DEF ProjectName
  <2>3. new \in NoteFiles /\ new.of = w
    BY <1>1, <2>1, <2>2 DEF NewNote, NoteFiles, Bodies
  <2> QED BY <1>2, <1>3, <1>4, <2>1, <2>3
<1>5. ASSUME NEW i \in DOMAIN notes, IsTodays(notes[i], w),
             notes' = IF notes[i].body = "empty" THEN notes
                      ELSE Append(RemoveAt(notes, i), Ended(notes[i], w, TRUE))
      PROVE  Last(notes').of = w
  <2>1. i \in 1..Len(notes) /\ notes[i] \in NoteFiles /\ Holds(notes[i])
    BY <1>1, NoteFields
  <2>2. notes[i].body \in {"summary", "placeholder"}
    BY <1>5, <2>1 DEF NoteFiles, Bodies
  <2>3. PICK new : new = Ended(notes[i], w, TRUE)
    OBVIOUS
  <2>4. new \in NoteFiles /\ new.of = w
    BY <1>1, <2>1, <2>2, <2>3, EndedKeepsName
  <2>5. PICK rest : rest = RemoveAt(notes, i)
    OBVIOUS
  <2>6. rest \in Seq(NoteFiles)
    <3>1. PICK n \in Nat : n = Len(notes)
      BY <1>2, LenProperties
    <3> QED BY <1>2, <2>1, <2>5, <3>1, RemoveAtIs
  <2>7. notes' = Append(rest, new)
    BY <1>5, <2>2, <2>3, <2>5
  <2> QED BY <1>3, <2>4, <2>6, <2>7
<1> QED BY <1>4, <1>5 DEF SessionEnds

(* What the hooks leave for the next session of a working tree is what it   *)
(* is told.                                                                 *)
THEOREM NotesCorrectHolds == NotesSpec => NotesCorrect
<1>1. NotesInit => SessionNotesInv
  BY NotesInvInit
<1>2. SessionNotesInv /\ [NotesNext]_notesVars => SessionNotesInv'
  BY NotesInvNext
<1>3. SessionNotesInv => NotesTypeOK
  BY NotesInvTypes
<1>4. SessionNotesInv =>
        (\A w \in Worktree : SessionStarts(w) /\ (\E i \in OfTree(w) : notes[i].body # "placeholder")
           => given'.note = <<>> \/ given'.note[1].tree = w)
  BY OwnTreeIsChosen
<1>5. SessionNotesInv =>
        (\A w \in Worktree : SessionStarts(w) /\ given'.checkpoint # 0 =>
           given'.checkpoint = lastCompaction[ProjectOf[w]])
  BY NewestIsRecovered
<1>6. SessionNotesInv =>
        (\A w \in Worktree :
           SessionEnds(w, TRUE) /\ ~(\E i \in DOMAIN notes : IsTodays(notes[i], w) /\ notes[i].body \in {"other", "empty"})
             => Last(notes').of = w)
  BY SummaryIsLast
<1> QED BY <1>1, <1>2, <1>3, <1>4, <1>5, <1>6, PTL
        DEF NotesSpec, NotesCorrect, StartsFromOwnTree, RecoversTheNewest, SummaryIsSaved
=============================================================================
