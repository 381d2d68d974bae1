----------------------------- MODULE CdpLockSpec -----------------------------
(***************************************************************************)
(* What the two-tier CDP lock promises, with no promises, slots or tails:  *)
(* a request for one tab, or for the whole browser, waits for exactly the  *)
(* conflicting requests that arrived before it, and a lock is granted only *)
(* when every one of those has left.  Module CdpMutex, the promise chains  *)
(* of browser-manager.ts, implements this.                                 *)
(***************************************************************************)
CONSTANTS Request,   \* calls of acquireTabLock / acquireGlobalCdpLock
          Tab,       \* tab ids
          Browser    \* the scope of the global lock

VARIABLES scope,     \* scope[r]: what r wants (Tab or Browser); meaningful once arrived
          status,    \* idle, waiting, held, timedout or done
          ahead      \* ahead[r]: the conflicting requests that arrived before r

Scope == Tab \cup {Browser}

(* Two scopes conflict when they are the same tab or either is the browser *)
Conflict(s, t) == s = t \/ s = Browser \/ t = Browser

Gone(r) == status[r] \in {"timedout", "done"}

absVars == <<scope, status, ahead>>

AbsInit ==
  /\ scope  = [r \in Request |-> Browser]
  /\ status = [r \in Request |-> "idle"]
  /\ ahead  = [r \in Request |-> {}]

Arrive(r, s) ==
  /\ status[r] = "idle"
  /\ scope'  = [scope EXCEPT ![r] = s]
  /\ status' = [status EXCEPT ![r] = "waiting"]
  /\ ahead'  = [ahead EXCEPT ![r] =
                  {q \in Request : status[q] # "idle" /\ Conflict(scope[q], s)}]

Take(r) ==
  /\ status[r] = "waiting"
  /\ \A q \in ahead[r] : Gone(q)
  /\ status' = [status EXCEPT ![r] = "held"]
  /\ UNCHANGED <<scope, ahead>>

(* A waiter may give up, a holder lets go                                   *)
Leave(r) ==
  /\ \/ status[r] = "waiting" /\ status' = [status EXCEPT ![r] = "timedout"]
     \/ status[r] = "held"    /\ status' = [status EXCEPT ![r] = "done"]
  /\ UNCHANGED <<scope, ahead>>

AbsNext == \E r \in Request : \/ \E s \in Scope : Arrive(r, s)
                              \/ Take(r)
                              \/ Leave(r)

AbsSpec == AbsInit /\ [][AbsNext]_absVars
=============================================================================
