---------------------------- MODULE EgressLedger ----------------------------
(***************************************************************************)
(* The ledger of egress receipts (lib/egress-receipt.ts): processes append *)
(* lines that carry the hash of the line before, inside a lock that is a   *)
(* directory. A line's hash is modelled by its place among all the lines   *)
(* ever written; a waiter whose budget is spent removes an old lock.       *)
(***************************************************************************)
EXTENDS Naturals, Sequences

CONSTANTS Writer, MaxLines, MaxCrashes

ASSUME LedgerBounded == MaxLines \in Nat

VARIABLES wr,      \* per writer: where it is, the last line it read, its mkdir
          lock,    \* the directory: Free, or the number of the mkdir that made it
          old,     \* the lock is older than ten seconds
          ledger,  \* the lines
          mkdirs,  \* mkdirs that succeeded so far
          crashes,
          stolen   \* a lock was removed under a live owner

ledgerVars == <<wr, lock, old, ledger, mkdirs, crashes, stolen>>

Free == 0
Start == 0  \* the hash of no line
Away == [at |-> "away", last |-> Start, lock |-> Free]

LedgerInit ==
  /\ wr = [w \in Writer |-> Away]
  /\ lock = Free /\ old = FALSE /\ ledger = <<>> /\ mkdirs = 0 /\ crashes = 0 /\ stolen = FALSE

GoesOn(w, to) == wr' = [wr EXCEPT ![w] = to]
Holders == {w \in Writer : wr[w].at \in {"locked", "read", "wrote"}}

Asks(w) ==
  /\ wr[w].at = "away"
  /\ GoesOn(w, [Away EXCEPT !.at = "spinning"])
  /\ UNCHANGED <<lock, old, ledger, mkdirs, crashes, stolen>>

(* Variants named ...Without... are plausible mistakes in the definition    *)
(* that follows them; no specification uses them.                           *)

MakesLockWithoutExclusion(w) ==
  /\ wr[w].at = "spinning" /\ mkdirs < MaxLines
  /\ mkdirs' = mkdirs + 1 /\ lock' = mkdirs + 1 /\ old' = FALSE
  /\ GoesOn(w, [wr[w] EXCEPT !.at = "locked", !.lock = mkdirs + 1])
  /\ UNCHANGED <<ledger, crashes, stolen>>

(* mkdir                                                                    *)
MakesLock(w) ==
  /\ wr[w].at = "spinning" /\ lock = Free
  /\ mkdirs < MaxLines
  /\ mkdirs' = mkdirs + 1 /\ lock' = mkdirs + 1 /\ old' = FALSE
  /\ GoesOn(w, [wr[w] EXCEPT !.at = "locked", !.lock = mkdirs + 1])
  /\ UNCHANGED <<ledger, crashes, stolen>>

(* The budget is spent: an old lock will be removed, a young one refuses    *)
(* the receipt                                                              *)
StatsLock(w) ==
  /\ wr[w].at = "spinning" /\ lock # Free
  /\ GoesOn(w, IF old THEN [wr[w] EXCEPT !.at = "reclaiming"] ELSE Away)
  /\ UNCHANGED <<lock, old, ledger, mkdirs, crashes, stolen>>

RemovesLock ==
  /\ stolen' = (stolen \/ \E v \in Holders : wr[v].lock = lock)
  /\ lock' = Free /\ old' = FALSE

(* rmdir removes whatever lock is there now                                 *)
Reclaims(w) ==
  /\ wr[w].at = "reclaiming"
  /\ RemovesLock
  /\ GoesOn(w, [wr[w] EXCEPT !.at = "spinning"])
  /\ UNCHANGED <<ledger, mkdirs, crashes>>

Hash(lines) == Len(lines)

ReadsLast(w) ==
  /\ wr[w].at = "locked"
  /\ GoesOn(w, [wr[w] EXCEPT !.at = "read", !.last = Hash(ledger)])
  /\ UNCHANGED <<lock, old, ledger, mkdirs, crashes, stolen>>

AppendsByRewriting(w) ==
  /\ wr[w].at = "read"
  /\ ledger' = Append(SubSeq(ledger, 1, wr[w].last), [by |-> w, prev |-> wr[w].last])
  /\ GoesOn(w, [wr[w] EXCEPT !.at = "wrote"])
  /\ UNCHANGED <<lock, old, mkdirs, crashes, stolen>>

Appends(w) ==
  /\ wr[w].at = "read"
  /\ ledger' = Append(ledger, [by |-> w, prev |-> wr[w].last])
  /\ GoesOn(w, [wr[w] EXCEPT !.at = "wrote"])
  /\ UNCHANGED <<lock, old, mkdirs, crashes, stolen>>

(* The finally of withLedgerLock: rmdir of whatever lock is there           *)
Unlocks(w) ==
  /\ wr[w].at = "wrote"
  /\ stolen' = (stolen \/ \E v \in Holders \ {w} : wr[v].lock = lock)
  /\ lock' = Free /\ old' = FALSE
  /\ GoesOn(w, Away)
  /\ UNCHANGED <<ledger, mkdirs, crashes>>

WriterDies(w) ==
  /\ crashes < MaxCrashes /\ wr[w].at # "away"
  /\ GoesOn(w, Away) /\ crashes' = crashes + 1
  /\ UNCHANGED <<lock, old, ledger, mkdirs, stolen>>

(* Ten seconds pass; an append takes milliseconds                           *)
LockAges ==
  /\ lock # Free /\ ~old /\ ~\E w \in Holders : wr[w].lock = lock
  /\ old' = TRUE
  /\ UNCHANGED <<wr, lock, ledger, mkdirs, crashes, stolen>>

WriterStep(w) ==
  \/ Asks(w) \/ MakesLock(w) \/ StatsLock(w) \/ Reclaims(w)
  \/ ReadsLast(w) \/ Appends(w) \/ Unlocks(w) \/ WriterDies(w)

LedgerNext == (\E w \in Writer : WriterStep(w)) \/ LockAges
LedgerSpec == LedgerInit /\ [][LedgerNext]_ledgerVars
-----------------------------------------------------------------------------
(* verifyLedger: the first line whose prev is not the hash of the line      *)
(* before; Len + 1 when there is none                                       *)
BrokenLines == {i \in 1..Len(ledger) : ledger[i].prev # i - 1}
Verified == IF BrokenLines = {} THEN ledger
            ELSE SubSeq(ledger, 1, (CHOOSE i \in BrokenLines : \A j \in BrokenLines : i <= j) - 1)

LedgerTypeOK ==
  /\ \A w \in Writer : wr[w].at \in {"away", "spinning", "reclaiming", "locked", "read", "wrote"}
  /\ lock \in 0..mkdirs /\ Len(ledger) <= mkdirs

(* Whatever writers crash, the chain stays one chain: as long as no lock    *)
(* was removed under a live owner, every line carries the hash of the line  *)
(* before it, so that verify reports tampering only when there was some.    *)
ChainHolds == ~stolen => BrokenLines = {}

(* What verify accepts is only ever appended to (EgressLog), even after the *)
(* chain has forked.                                                        *)
Log == INSTANCE EgressLog
         WITH Receipt <- [by : Writer, prev : 0..MaxLines], log <- Verified
LedgerImplementsLog == Log!LogSpec

(* appendReceipt by several processes keeps one chain, and implements a log *)
(* that only grows.                                                         *)
LedgerCorrect ==
  [](LedgerTypeOK /\ ChainHolds) /\ LedgerImplementsLog
=============================================================================
