-------------------------------- MODULE Xvfb --------------------------------
(***************************************************************************)
(* The X server of a headed daemon without a display (xvfb.ts, server.ts,  *)
(* cli.ts): a free display is looked for, Xvfb is spawned on it and waited *)
(* for, its pid and start time go to the state file once the browser runs, *)
(* and whoever ends the daemon kills the process only if it is still that  *)
(* Xvfb.                                                                   *)
(***************************************************************************)
EXTENDS Naturals

CONSTANTS Owner, Display, MaxPids, MaxLaunches

ASSUME PidsBounded == Display \subseteq Nat /\ MaxPids \in Nat /\ MaxLaunches \in Nat

VARIABLES xd,       \* per daemon: where it is, the display and the process of its Xvfb
          serving,  \* per display, the process that serves it, or NoPid
          proc,     \* per live pid, what runs there: an Xvfb or something else, and since when
          clock,    \* start times
          record,   \* the Xvfb that the state file of the daemon names
          stray,    \* what a killed daemon had not recorded, or an unlinked file named
          launches

xvfbVars == <<xd, serving, proc, clock, record, stray, launches>>

NoPid == 0
Dead == [kind |-> "none", since |-> 0]
NoXvfb == [pid |-> NoPid, since |-> 0]
Down == [at |-> "down", display |-> 0, xvfb |-> NoXvfb]

XvfbInit ==
  /\ xd = [d \in Owner |-> Down]
  /\ serving = [n \in Display |-> NoPid]
  /\ proc = [p \in 1..MaxPids |-> Dead]
  /\ clock = 0 /\ launches = 0
  /\ record = [d \in Owner |-> NoXvfb] /\ stray = {}

IsOn(p) == proc[p].kind # "none"

(* A process ends: the display it served is free again                      *)
Ended(p) ==
  /\ proc' = [proc EXCEPT ![p] = Dead]
  /\ serving' = [n \in Display |-> IF serving[n] = p THEN NoPid ELSE serving[n]]

(* Variants named ...Without... are plausible mistakes in the definition    *)
(* that follows them; no specification uses them.                           *)

(* pickFreeDisplay: the first display that nobody serves. startServer has   *)
(* unlinked the state file of an earlier daemon                             *)
Picks(d) ==
  /\ xd[d].at = "down" /\ record[d] = NoXvfb /\ launches < MaxLaunches /\ launches' = launches + 1
  /\ \E n \in Display :
       /\ serving[n] = NoPid /\ \A m \in Display : m < n => serving[m] # NoPid
       /\ xd' = [xd EXCEPT ![d] = [Down EXCEPT !.at = "picked", !.display = n]]
  /\ UNCHANGED <<serving, proc, clock, record, stray>>

(* The new process takes the display, unless another took it meanwhile;     *)
(* then it ends by itself                                                   *)
SpawnsXvfb(d) ==
  /\ xd[d].at = "picked"
  /\ \E p \in 1..MaxPids :
       /\ ~IsOn(p)
       /\ clock' = clock + 1
       /\ proc' = [proc EXCEPT ![p] = [kind |-> "xvfb", since |-> clock + 1]]
       /\ xd' = [xd EXCEPT ![d].at = "waiting", ![d].xvfb = [pid |-> p, since |-> clock + 1]]
  /\ UNCHANGED <<serving, record, stray, launches>>

XvfbBinds(d) ==
  /\ xd[d].at = "waiting" /\ proc[xd[d].xvfb.pid].since = xd[d].xvfb.since
  /\ IF serving[xd[d].display] = NoPid
     THEN serving' = [serving EXCEPT ![xd[d].display] = xd[d].xvfb.pid] /\ UNCHANGED proc
     ELSE Ended(xd[d].xvfb.pid)
  /\ UNCHANGED <<xd, clock, record, stray, launches>>

(* The wait asks only whether the display is served; then the browser is    *)
(* launched. Or three seconds pass, and the process is killed.              *)
Ready(d) ==
  /\ xd[d].at = "waiting"
  /\ \/ /\ serving[xd[d].display] # NoPid
        /\ xd' = [xd EXCEPT ![d].at = "launching"]
        /\ UNCHANGED <<serving, proc>>
     \/ /\ serving[xd[d].display] = NoPid
        /\ xd' = [xd EXCEPT ![d] = Down]
        /\ IF proc[xd[d].xvfb.pid].since = xd[d].xvfb.since THEN Ended(xd[d].xvfb.pid)
           ELSE UNCHANGED <<serving, proc>>
  /\ UNCHANGED <<clock, record, stray, launches>>

(* With the browser up, the state file is written                           *)
RecordsXvfb(d) ==
  /\ xd[d].at = "launching"
  /\ xd' = [xd EXCEPT ![d].at = "up"] /\ record' = [record EXCEPT ![d] = xd[d].xvfb]
  /\ UNCHANGED <<serving, proc, clock, stray, launches>>

IsOurXvfbWithoutStart(x) == x.pid # NoPid /\ proc[x.pid].kind = "xvfb"

(* The binary and the start time must both match                            *)
IsOurXvfb(x) == x.pid # NoPid /\ proc[x.pid].kind = "xvfb" /\ proc[x.pid].since = x.since

CleanupXvfb(x) == IF IsOurXvfb(x) THEN Ended(x.pid) ELSE UNCHANGED <<serving, proc>>

(* The exit handler, after a failed launch too, and emergencyCleanup        *)
OwnerExits(d) ==
  /\ xd[d].at \in {"launching", "up"}
  /\ xd' = [xd EXCEPT ![d] = Down] /\ record' = [record EXCEPT ![d] = NoXvfb]
  /\ CleanupXvfb(xd[d].xvfb)
  /\ UNCHANGED <<clock, stray, launches>>

(* SIGKILL leaves the Xvfb and the state file, if it was written            *)
XvfbKilled(d) ==
  /\ xd[d].at # "down" /\ xd' = [xd EXCEPT ![d] = Down]
  /\ stray' = stray \cup (IF record[d] = xd[d].xvfb THEN {} ELSE {xd[d].xvfb})
  /\ UNCHANGED <<serving, proc, clock, record, launches>>

(* startServer, stop and connect unlink the state file, and shutdown does   *)
(* before the exit handler runs: nobody frees the Xvfb that it named        *)
Unlinks(d) ==
  /\ record[d] # NoXvfb /\ record' = [record EXCEPT ![d] = NoXvfb]
  /\ stray' = stray \cup {record[d]}
  /\ UNCHANGED <<xd, serving, proc, clock, launches>>

DisconnectsWithoutCleanup(d) ==
  /\ xd[d].at = "down" /\ record[d] # NoXvfb
  /\ record' = [record EXCEPT ![d] = NoXvfb]
  /\ UNCHANGED <<xd, serving, proc, clock, stray, launches>>

(* `disconnect` of a dead daemon                                            *)
Disconnects(d) ==
  /\ xd[d].at = "down" /\ record[d] # NoXvfb
  /\ CleanupXvfb(record[d]) /\ record' = [record EXCEPT ![d] = NoXvfb]
  /\ UNCHANGED <<xd, clock, stray, launches>>

(* Any process ends, and its pid may come back as something else            *)
ProcessEnds ==
  /\ \E p \in 1..MaxPids : IsOn(p) /\ Ended(p)
  /\ UNCHANGED <<xd, clock, record, stray, launches>>

PidReused ==
  /\ clock < 2 * MaxLaunches
  /\ \E p \in 1..MaxPids : \E kind \in {"other", "xvfb"} :
       ~IsOn(p) /\ proc' = [proc EXCEPT ![p] = [kind |-> kind, since |-> clock + 1]]
  /\ clock' = clock + 1
  /\ UNCHANGED <<xd, serving, record, stray, launches>>

XvfbNext ==
  \/ \E d \in Owner : Picks(d) \/ SpawnsXvfb(d) \/ XvfbBinds(d) \/ Ready(d) \/ RecordsXvfb(d)
                       \/ OwnerExits(d) \/ XvfbKilled(d) \/ Unlinks(d) \/ Disconnects(d)
  \/ ProcessEnds \/ PidReused

XvfbSpec == XvfbInit /\ [][XvfbNext]_xvfbVars
-----------------------------------------------------------------------------
XvfbTypeOK ==
  /\ \A d \in Owner : xd[d].at \in {"down", "picked", "waiting", "launching", "up"} /\ xd[d].xvfb.pid \in 0..MaxPids
  /\ \A n \in Display : serving[n] = NoPid \/ proc[serving[n]].kind = "xvfb"

(* Nobody's process is killed: what a daemon ends on its way out, or a      *)
(* disconnect after it, is the process it started or the file names, and no *)
(* other that got its pid.                                                  *)
OnlyOwnXvfbKilled ==
  [][\A d \in Owner : OwnerExits(d) \/ Disconnects(d) =>
       \A p \in 1..MaxPids : IsOn(p) /\ proc'[p].kind = "none"
          => [pid |-> p, since |-> proc[p].since] \in {xd[d].xvfb, record[d]}]_xvfbVars

(* An Xvfb is lost in two ways only: its daemon is killed before it has     *)
(* written the state file, or the file is unlinked by somebody other than   *)
(* disconnect or the exit of the daemon. Otherwise, whatever daemons are    *)
(* killed, a display that is served belongs to a daemon, or the state file  *)
(* names its process so that the next disconnect frees it.                  *)
Known(p) == \E d \in Owner : p \in {xd[d].xvfb.pid, record[d].pid}
DisplaysAreReturned ==
  \A n \in Display : serving[n] # NoPid =>
    Known(serving[n]) \/ [pid |-> serving[n], since |-> proc[serving[n]].since] \in stray

(* Every display that a daemon has taken and recorded can be given back,    *)
(* and giving it back ends no process but its Xvfb.                         *)
XvfbCorrect ==
  [](XvfbTypeOK /\ DisplaysAreReturned) /\ OnlyOwnXvfbKilled
=============================================================================
