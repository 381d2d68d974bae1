----------------------------- MODULE EgressLog ------------------------------
(***************************************************************************)
(* What the egress ledger promises: a sequence of receipts that is only    *)
(* ever appended to.                                                       *)
(***************************************************************************)
EXTENDS Sequences

CONSTANT Receipt

VARIABLE log

LogInit == log = <<>>
LogNext == log' # log /\ \E r \in Receipt : log' = Append(log, r)
LogSpec == LogInit /\ [][LogNext]_log
=============================================================================
