------------------------------ MODULE CdpMutex ------------------------------
(***************************************************************************)
(* The two-tier lock of browser-manager.ts (acquireTabLock and             *)
(* acquireGlobalCdpLock).                                                  *)
(*                                                                         *)
(* A lock is a chain of promises.  Each call reserves a slot; the slot's   *)
(* promise, `tail.then(() => next)`, resolves once the promises it waits   *)
(* for have resolved AND its own release function has run.  A tab request  *)
(* waits for the last slot of its tab and for the last global slot; a      *)
(* global request waits for the last slot of every tab and for the last    *)
(* global slot.  A request whose timer fires first releases its slot and   *)
(* throws, but the slot still resolves only after what it waits for.       *)
(*                                                                         *)
(* Promise callbacks run as microtasks: a timer never fires while one is   *)
(* pending, hence the guard Quiet of Timeout.                              *)
(***************************************************************************)
EXTENDS FiniteSets

CONSTANTS Request, Tab, Browser,
          NoSlot     \* the tail before the first slot: Promise.resolve()

ASSUME BrowserIsNoTab == Browser \notin Tab
ASSUME NoSlotIsNoRequest == NoSlot \notin Request

VARIABLES scope,       \* scope[r]: a tab, or Browser for the global lock
          status,      \* idle, waiting, held, timedout or done
          ahead,       \* history: the conflicting requests that came first
          waitsOn,     \* the slots whose promises r's `tail` collects
          released,    \* slots whose release function has run
          settled,     \* slots whose promise has resolved
          tabTail,     \* tabLocks: the last slot reserved for each tab
          globalTail   \* globalCdpLockTail

vars == <<scope, status, ahead, waitsOn, released, settled, tabTail, globalTail>>

Scope == Tab \cup {Browser}
Conflict(s, t) == s = t \/ s = Browser \/ t = Browser
SlotsWithoutFilter(S) == S
Slots(S) == S \ {NoSlot}

Init ==
  /\ scope      = [r \in Request |-> Browser]
  /\ status     = [r \in Request |-> "idle"]
  /\ ahead      = [r \in Request |-> {}]
  /\ waitsOn    = [r \in Request |-> {}]
  /\ released   = {}
  /\ settled    = {}
  /\ tabTail    = [t \in Tab |-> NoSlot]
  /\ globalTail = NoSlot

(* Variants named ...Without... are plausible mistakes in the definition    *)
(* that follows them; no specification uses them.                           *)

(* The part common to both calls: a fresh slot queued behind `slots`        *)
Reserve(r, s, slots) ==
  /\ status[r] = "idle"
  /\ scope'   = [scope EXCEPT ![r] = s]
  /\ status'  = [status EXCEPT ![r] = "waiting"]
  /\ waitsOn' = [waitsOn EXCEPT ![r] = Slots(slots)]
  /\ ahead'   = [ahead EXCEPT ![r] =
                   {q \in Request : status[q] # "idle" /\ Conflict(scope[q], s)}]
  /\ UNCHANGED <<released, settled>>

AcquireTabLockWithoutGlobalTier(r, t) ==
  /\ Reserve(r, t, {tabTail[t]})
  /\ tabTail' = [tabTail EXCEPT ![t] = r]
  /\ UNCHANGED globalTail

AcquireTabLock(r, t) ==
  /\ Reserve(r, t, {tabTail[t], globalTail})
  /\ tabTail' = [tabTail EXCEPT ![t] = r]
  /\ UNCHANGED globalTail

AcquireGlobalCdpLockWithoutTabTier(r) ==
  /\ Reserve(r, Browser, {globalTail})
  /\ globalTail' = r
  /\ UNCHANGED tabTail

AcquireGlobalCdpLock(r) ==
  /\ Reserve(r, Browser, {tabTail[t] : t \in Tab} \cup {globalTail})
  /\ globalTail' = r
  /\ UNCHANGED tabTail

(* `tail` has resolved: everything r queued behind has resolved             *)
TailResolved(r) == waitsOn[r] \subseteq settled

(* Promise.race won by the tail: the caller receives the release function   *)
Grant(r) ==
  /\ status[r] = "waiting"
  /\ TailResolved(r)
  /\ status' = [status EXCEPT ![r] = "held"]
  /\ UNCHANGED <<scope, ahead, waitsOn, released, settled, tabTail, globalTail>>

(* The slot's own promise resolves                                          *)
Settle(r) ==
  /\ r \in released \ settled
  /\ TailResolved(r)
  /\ settled' = settled \cup {r}
  /\ UNCHANGED <<scope, status, ahead, waitsOn, released, tabTail, globalTail>>

(* No promise callback is pending                                           *)
Quiet == \A r \in Request :
           TailResolved(r) => status[r] # "waiting" /\ r \notin released \ settled

(* Promise.race won by the timer: release the reserved slot and throw       *)
TimeoutWithoutRelease(r) ==
  /\ status[r] = "waiting"
  /\ Quiet
  /\ status' = [status EXCEPT ![r] = "timedout"]
  /\ UNCHANGED <<scope, ahead, waitsOn, released, settled, tabTail, globalTail>>

Timeout(r) ==
  /\ status[r] = "waiting"
  /\ Quiet
  /\ status'   = [status EXCEPT ![r] = "timedout"]
  /\ released' = released \cup {r}
  /\ UNCHANGED <<scope, ahead, waitsOn, settled, tabTail, globalTail>>

(* The `finally { release() }` of the lock holder                           *)
Release(r) ==
  /\ status[r] = "held"
  /\ status'   = [status EXCEPT ![r] = "done"]
  /\ released' = released \cup {r}
  /\ UNCHANGED <<scope, ahead, waitsOn, settled, tabTail, globalTail>>

Next == \E r \in Request :
          \/ \E t \in Tab : AcquireTabLock(r, t)
          \/ AcquireGlobalCdpLock(r)
          \/ Grant(r)
          \/ Settle(r)
          \/ Timeout(r)
          \/ Release(r)

Spec == Init /\ [][Next]_vars
-----------------------------------------------------------------------------
TypeOK ==
  /\ scope      \in [Request -> Scope]
  /\ status     \in [Request -> {"idle", "waiting", "held", "timedout", "done"}]
  /\ ahead      \in [Request -> SUBSET Request]
  /\ waitsOn    \in [Request -> SUBSET Request]
  /\ released   \subseteq Request
  /\ settled    \subseteq Request
  /\ tabTail    \in [Tab -> Request \cup {NoSlot}]
  /\ globalTail \in Request \cup {NoSlot}

(* Two holders never conflict: one holder per tab, and while the global     *)
(* lock is held nobody holds anything else (browser-manager.ts, "Two-tier   *)
(* mutex").                                                                 *)
MutualExclusion ==
  \A q, r \in Request :
    q # r /\ status[q] = "held" /\ status[r] = "held" => ~Conflict(scope[q], scope[r])

(* First come, first served across the two tiers, and no conflicting grant: *)
(* the promise chains implement the abstract lock.                          *)
Lock == INSTANCE CdpLockSpec WITH Request <- Request, Tab <- Tab, Browser <- Browser,
          scope <- scope, status <- status, ahead <- ahead
ImplementsLock == Lock!AbsSpec
=============================================================================
