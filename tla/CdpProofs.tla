------------------------------ MODULE CdpProofs ------------------------------
(***************************************************************************)
(* The two-tier lock and the CDP bridge over it, for every set of requests *)
(* and tabs; and the history of the CSS inspector.                         *)
(*                                                                         *)
(* The lock excludes conflicting holders and implements the abstract       *)
(* first-come lock.  A slot names only the last slot of each chain it      *)
(* joins, so what it excludes has to be recovered through those slots:     *)
(* every earlier conflicting request is either named directly or is ahead  *)
(* of a slot that is (Chained), and a resolved slot vouches for all that   *)
(* was ahead of it (SettledDeep).                                          *)
(*                                                                         *)
(* Every step of the bridge is a step of the lock or leaves the lock       *)
(* alone, so the lock's own invariant (IInv) holds there too and two       *)
(* conflicting calls never hold it together.  What the bridge adds is that *)
(* a call creates a session or has a command in flight only while it holds *)
(* the lock (PhasesMatch), that a lock on the target's scope was taken     *)
(* (ScopesMatch), and that whoever is creating a session has a page that   *)
(* has none (SessionsAreCached).                                           *)
(*                                                                         *)
(* The CSS inspector works over CDP without that lock.  While no entry was *)
(* dropped, no shared rule changed and no values mixed (Clean), one        *)
(* request is at work at a time (OneAtATime), and the first entry of an    *)
(* element in the history, or the element itself if it has none, shows     *)
(* what it looked like (RewindsTo).  A request at work adds what it will   *)
(* use (Agrees): the value it has read, the entry it undoes, or the        *)
(* entries a reset has gone through, of which the earliest is shown.       *)
(***************************************************************************)
EXTENDS CdpBridge, CssInspector, SequenceTheorems, WellFoundedInduction, TLAPS

Arrived(r) == status[r] # "idle"

(* A slot's release function has run exactly when its request is over, and  *)
(* a slot resolves only after that.                                         *)
ReleasedInv ==
  /\ \A r \in Request : r \in released <=> Lock!Gone(r)
  /\ settled \subseteq released

(* What a holder or a resolved slot waited for has resolved                 *)
ResolvedInv ==
  \A r \in Request : status[r] = "held" \/ r \in settled => waitsOn[r] \subseteq settled

Chained ==
  \A r \in Request : \A q \in ahead[r] :
    q \in waitsOn[r] \/ \E d \in waitsOn[r] : q \in ahead[d]

SettledDeep == \A r \in settled : ahead[r] \subseteq settled

(* Two conflicting requests are ordered, and nothing refers to a request    *)
(* that has not arrived                                                     *)
Ordered ==
  /\ \A r \in Request : \A q \in ahead[r] \cup waitsOn[r] : Arrived(q)
  /\ \A q, r \in Request :
       q # r /\ Arrived(q) /\ Arrived(r) /\ Conflict(scope[q], scope[r])
         => q \in ahead[r] \/ r \in ahead[q]

(* tail is the last arrival of scope s, and all the others are ahead of it  *)
LastOf(tail, s) ==
  /\ tail # NoSlot => Arrived(tail)
  /\ \A r \in Request : Arrived(r) /\ scope[r] = s
       => tail # NoSlot /\ (r = tail \/ r \in ahead[tail])

TailsInv == LastOf(globalTail, Browser) /\ \A t \in Tab : LastOf(tabTail[t], t)

IInv == /\ TypeOK
        /\ ReleasedInv
        /\ ResolvedInv
        /\ Chained
        /\ SettledDeep
        /\ Ordered
        /\ TailsInv
-----------------------------------------------------------------------------
(* No request holds or waits at the start.                                  *)
LEMMA InitIInv == Init => IInv
<1> SUFFICES ASSUME Init PROVE IInv
  OBVIOUS
<1> USE DEF Init
<1>1. TypeOK
  BY DEF TypeOK, Scope
<1>2. ReleasedInv /\ ResolvedInv /\ Chained /\ SettledDeep /\ Ordered
  BY DEF ReleasedInv, Lock!Gone, ResolvedInv, Chained, SettledDeep, Ordered, Arrived
<1>3. TailsInv
  BY DEF TailsInv, LastOf, Arrived
<1> QED BY <1>1, <1>2, <1>3 DEF IInv

(* What an arrival does, whichever tier it is for: the new slot waits for   *)
(* tails that are last of every scope it conflicts with.                    *)
LEMMA ReserveKeeps ==
  ASSUME IInv, NEW r \in Request, NEW s \in Scope, NEW slots \in SUBSET (Request \cup {NoSlot}),
         Reserve(r, s, slots),
         \A q \in Request : Arrived(q) /\ Conflict(scope[q], s)
           => \E d \in slots \ {NoSlot} : q = d \/ q \in ahead[d],
         \A d \in slots \ {NoSlot} : Arrived(d)
  PROVE  /\ ReleasedInv' /\ ResolvedInv' /\ Chained' /\ SettledDeep' /\ Ordered'
         /\ scope' \in [Request -> Scope]
         /\ ahead' \in [Request -> SUBSET Request]
         /\ waitsOn' \in [Request -> SUBSET Request]
         /\ status' \in [Request -> {"idle", "waiting", "held", "timedout", "done"}]
<1> USE DEF IInv, TypeOK, Reserve, Slots
<1> DEFINE new == {q \in Request : status[q] # "idle" /\ Conflict(scope[q], s)}
<1>1. /\ ~Arrived(r) /\ r \notin released /\ r \notin settled
      /\ \A q \in Request : r \notin ahead[q] /\ r \notin waitsOn[q]
  BY DEF ReleasedInv, Lock!Gone, Ordered, Arrived
<1>2. /\ \A q \in Request \ {r} : /\ ahead'[q] = ahead[q] /\ waitsOn'[q] = waitsOn[q]
                                  /\ scope'[q] = scope[q] /\ status'[q] = status[q]
      /\ ahead'[r] = new /\ waitsOn'[r] = slots \ {NoSlot}
      /\ scope'[r] = s /\ status'[r] = "waiting"
      /\ released' = released /\ settled' = settled
  OBVIOUS
<1>3. ReleasedInv' /\ SettledDeep'
  BY <1>1, <1>2 DEF ReleasedInv, Lock!Gone, SettledDeep
<1>4. ResolvedInv'
  BY <1>1, <1>2 DEF ResolvedInv
<1>5. Chained'
  <2> SUFFICES ASSUME NEW p \in Request, NEW q \in ahead'[p]
               PROVE  q \in waitsOn'[p] \/ \E d \in waitsOn'[p] : q \in ahead'[d]
    BY DEF Chained
  <2>1. CASE p = r
    <3>1. q \in Request /\ Arrived(q) /\ Conflict(scope[q], s)
      BY <2>1, <1>2 DEF Arrived
    <3>2. PICK d \in slots \ {NoSlot} : q = d \/ q \in ahead[d]
      BY <3>1
    <3>3. d \in Request /\ d # r
      BY <1>1, <3>2
    <3> QED BY <2>1, <1>2, <3>2, <3>3
  <2>2. CASE p # r
    <3>1. q \in ahead[p] /\ waitsOn'[p] = waitsOn[p]
      BY <2>2, <1>2
    <3>2. q \in waitsOn[p] \/ \E d \in waitsOn[p] : q \in ahead[d]
      BY <3>1 DEF Chained
    <3>3. \A d \in waitsOn[p] : d \in Request \ {r}
      BY <1>1
    <3> QED BY <3>1, <3>2, <3>3, <1>2
  <2> QED BY <2>1, <2>2
<1>6. Ordered'
  <2>1. \A p \in Request : \A q \in ahead'[p] \cup waitsOn'[p] : status'[q] # "idle"
    BY <1>1, <1>2 DEF Ordered, Arrived
  <2>2. ASSUME NEW p \in Request, NEW q \in Request, p # q,
               status'[p] # "idle", status'[q] # "idle", Conflict(scope'[p], scope'[q])
        PROVE  p \in ahead'[q] \/ q \in ahead'[p]
    <3>1. CASE p = r
      BY <3>1, <2>2, <1>2 DEF Conflict
    <3>2. CASE q = r
      BY <3>2, <2>2, <1>2 DEF Conflict
    <3>3. CASE p # r /\ q # r
      BY <3>3, <2>2, <1>2 DEF Ordered, Arrived
    <3> QED BY <3>1, <3>2, <3>3
  <2> QED BY <2>1, <2>2 DEF Ordered, Arrived
<1>7. /\ scope' \in [Request -> Scope]
      /\ ahead' \in [Request -> SUBSET Request]
      /\ waitsOn' \in [Request -> SUBSET Request]
      /\ status' \in [Request -> {"idle", "waiting", "held", "timedout", "done"}]
  BY NoSlotIsNoRequest
<1> QED BY <1>3, <1>4, <1>5, <1>6, <1>7

(* A new waiter of a tab is put behind that tab's last one and the last     *)
(* global one.                                                              *)
LEMMA TabArrivalKeeps ==
  ASSUME IInv, NEW r \in Request, NEW t \in Tab, AcquireTabLock(r, t)
  PROVE  IInv'
<1> USE DEF IInv, TypeOK
<1>1. t \in Scope /\ t # Browser
  BY BrowserIsNoTab DEF Scope
<1> DEFINE slots == {tabTail[t], globalTail}
<1>2. \A q \in Request : Arrived(q) /\ Conflict(scope[q], t)
        => \E d \in slots \ {NoSlot} : q = d \/ q \in ahead[d]
  BY <1>1 DEF TailsInv, LastOf, Conflict
<1>3. \A d \in slots \ {NoSlot} : Arrived(d)
  BY DEF TailsInv, LastOf
<1>4. slots \in SUBSET (Request \cup {NoSlot})
  OBVIOUS
<1>5. /\ ReleasedInv' /\ ResolvedInv' /\ Chained' /\ SettledDeep' /\ Ordered'
      /\ scope' \in [Request -> Scope] /\ ahead' \in [Request -> SUBSET Request]
      /\ waitsOn' \in [Request -> SUBSET Request]
      /\ status' \in [Request -> {"idle", "waiting", "held", "timedout", "done"}]
  BY <1>1, <1>2, <1>3, <1>4, ReserveKeeps DEF AcquireTabLock
<1>6. TypeOK'
  BY <1>5 DEF AcquireTabLock, Reserve
<1>7. TailsInv'
  <2> USE DEF AcquireTabLock, Reserve, Arrived
  <2>1. LastOf(globalTail, Browser)'
    BY <1>1 DEF TailsInv, LastOf
  <2>2. ASSUME NEW u \in Tab PROVE LastOf(tabTail[u], u)'
    <3>1. CASE u = t
      BY <3>1, <1>1, NoSlotIsNoRequest DEF LastOf, Conflict
    <3>2. CASE u # t
      BY <3>2 DEF TailsInv, LastOf
    <3> QED BY <3>1, <3>2
  <2> QED BY <2>1, <2>2 DEF TailsInv
<1> QED BY <1>5, <1>6, <1>7

(* A new global waiter is put behind the last waiter of every tab.          *)
LEMMA GlobalArrivalKeeps ==
  ASSUME IInv, NEW r \in Request, AcquireGlobalCdpLock(r)
  PROVE  IInv'
<1> USE DEF IInv, TypeOK
<1> DEFINE slots == {tabTail[t] : t \in Tab} \cup {globalTail}
<1>2. \A q \in Request : Arrived(q) /\ Conflict(scope[q], Browser)
        => \E d \in slots \ {NoSlot} : q = d \/ q \in ahead[d]
  BY DEF TailsInv, LastOf, Scope
<1>3. \A d \in slots \ {NoSlot} : Arrived(d)
  BY DEF TailsInv, LastOf
<1>4. slots \in SUBSET (Request \cup {NoSlot})
  OBVIOUS
<1>5. /\ ReleasedInv' /\ ResolvedInv' /\ Chained' /\ SettledDeep' /\ Ordered'
      /\ scope' \in [Request -> Scope] /\ ahead' \in [Request -> SUBSET Request]
      /\ waitsOn' \in [Request -> SUBSET Request]
      /\ status' \in [Request -> {"idle", "waiting", "held", "timedout", "done"}]
  <2>1. Browser \in Scope
    BY DEF Scope
  <2> HIDE DEF slots, IInv, TypeOK
  <2>2. Reserve(r, Browser, slots)
    BY DEF slots, AcquireGlobalCdpLock
  <2> QED BY <2>1, <2>2, <1>2, <1>3, <1>4, ReserveKeeps
<1>6. TypeOK'
  BY <1>5 DEF AcquireGlobalCdpLock, Reserve
<1>7. TailsInv'
  <2> USE DEF AcquireGlobalCdpLock, Reserve, Arrived
  <2>1. LastOf(globalTail, Browser)'
    BY NoSlotIsNoRequest DEF LastOf, Conflict
  <2>2. ASSUME NEW u \in Tab PROVE LastOf(tabTail[u], u)'
    BY BrowserIsNoTab DEF TailsInv, LastOf
  <2> QED BY <2>1, <2>2 DEF TailsInv
<1> QED BY <1>5, <1>6, <1>7

(* Every step of the two-tier lock keeps the invariant.                     *)
LEMMA NextKeepsIInv == IInv /\ [Next]_vars => IInv'
<1> SUFFICES ASSUME IInv, [Next]_vars PROVE IInv'
  OBVIOUS
<1>1. ASSUME NEW r \in Request, NEW t \in Tab, AcquireTabLock(r, t) PROVE IInv'
  BY <1>1, TabArrivalKeeps
<1>2. ASSUME NEW r \in Request, AcquireGlobalCdpLock(r) PROVE IInv'
  BY <1>2, GlobalArrivalKeeps
<1> USE DEF IInv, TypeOK, TailsInv, LastOf, Arrived
<1>3. ASSUME NEW r \in Request, Grant(r) PROVE IInv'
  <2> USE <1>3 DEF Grant, TailResolved
  <2>1. TypeOK'
    OBVIOUS
  <2>2. ReleasedInv' /\ ResolvedInv'
    BY DEF ReleasedInv, Lock!Gone, ResolvedInv
  <2>3. Chained' /\ SettledDeep' /\ Ordered' /\ TailsInv'
    BY DEF Chained, SettledDeep, Ordered
  <2> QED BY <2>1, <2>2, <2>3
<1>4. ASSUME NEW r \in Request, Settle(r) PROVE IInv'
  <2> USE <1>4 DEF Settle, TailResolved
  <2>1. TypeOK' /\ ReleasedInv' /\ ResolvedInv' /\ Chained' /\ Ordered' /\ TailsInv'
    BY DEF ReleasedInv, Lock!Gone, ResolvedInv, Chained, Ordered
  <2>2. ahead[r] \subseteq settled
    BY DEF Chained, SettledDeep
  <2>3. SettledDeep'
    BY <2>2 DEF SettledDeep
  <2> QED BY <2>1, <2>3
<1>5. ASSUME NEW r \in Request, Timeout(r) \/ Release(r) PROVE IInv'
  <2> USE <1>5 DEF Timeout, Release
  <2>1. TypeOK'
    OBVIOUS
  <2>2. ReleasedInv' /\ ResolvedInv'
    BY DEF ReleasedInv, Lock!Gone, ResolvedInv
  <2>3. Chained' /\ SettledDeep' /\ Ordered' /\ TailsInv'
    BY DEF Chained, SettledDeep, Ordered
  <2> QED BY <2>1, <2>2, <2>3
<1>6. CASE UNCHANGED vars
  BY <1>6 DEF vars, ReleasedInv, Lock!Gone, ResolvedInv, Chained, SettledDeep, Ordered
<1> QED BY <1>1, <1>2, <1>3, <1>4, <1>5, <1>6 DEF Next

(* The inductive invariant holds of the lock in cdp-bridge.ts, whatever the *)
(* requests and tabs.                                                       *)
THEOREM Invariance == Spec => []IInv
BY InitIInv, NextKeepsIInv, PTL DEF Spec
-----------------------------------------------------------------------------
(* The crux: once r's tail has resolved, all that was ahead of r is over.   *)
LEMMA TailResolvedMeansGone ==
  ASSUME IInv, NEW r \in Request, TailResolved(r)
  PROVE  \A q \in ahead[r] : Lock!Gone(q)
<1>1. ahead[r] \subseteq settled
  BY DEF IInv, TypeOK, TailResolved, Chained, SettledDeep
<1> QED BY <1>1 DEF IInv, TypeOK, ReleasedInv

(* Of two holders in conflict one is ahead of the other, and whoever is     *)
(* ahead of a holder is gone.                                               *)
LEMMA IInvExcludes == IInv => MutualExclusion
<1> SUFFICES ASSUME IInv, NEW q \in Request, NEW r \in Request, q # r,
                    status[q] = "held", status[r] = "held", Conflict(scope[q], scope[r])
             PROVE  FALSE
  BY DEF MutualExclusion
<1>1. TailResolved(q) /\ TailResolved(r)
  BY DEF IInv, ResolvedInv, TailResolved
<1>2. q \in ahead[r] \/ r \in ahead[q]
  BY DEF IInv, Ordered, Arrived
<1> QED BY <1>1, <1>2, TailResolvedMeansGone DEF Lock!Gone

(* Every variable keeps its type (browser-manager.ts, the lock fields).     *)
THEOREM TypeCorrect == Spec => []TypeOK
<1>1. IInv => TypeOK
  BY DEF IInv
<1> QED BY <1>1, Invariance, PTL

(* At most one holder per tab and none beside a global holder, for any      *)
(* number of calls and tabs and any timing of timeouts (acquireTabLock,     *)
(* acquireGlobalCdpLock).                                                   *)
THEOREM MutualExclusionHolds == Spec => []MutualExclusion
BY IInvExcludes, Invariance, PTL

(* The chains implement the abstract lock: grants come in arrival order     *)
(* among conflicting requests.                                              *)
THEOREM ChainsImplementLock == Spec => ImplementsLock
<1>1. Init => Lock!AbsInit
  BY DEF Init, Lock!AbsInit
<1>2. IInv /\ [Next]_vars => [Lock!AbsNext]_Lock!absVars
  <2> SUFFICES ASSUME IInv, [Next]_vars PROVE [Lock!AbsNext]_Lock!absVars
    OBVIOUS
  <2> USE DEF Lock!AbsNext, Lock!absVars
  <2>1. ASSUME NEW r \in Request, NEW t \in Tab, AcquireTabLock(r, t) PROVE Lock!AbsNext
    BY <2>1 DEF AcquireTabLock, Reserve, Lock!Arrive, Lock!Scope, Conflict, Lock!Conflict
  <2>2. ASSUME NEW r \in Request, AcquireGlobalCdpLock(r) PROVE Lock!AbsNext
    BY <2>2 DEF AcquireGlobalCdpLock, Reserve, Lock!Arrive, Lock!Scope, Conflict, Lock!Conflict
  <2>3. ASSUME NEW r \in Request, Grant(r) PROVE Lock!AbsNext
    BY <2>3, TailResolvedMeansGone DEF Grant, Lock!Take
  <2>4. ASSUME NEW r \in Request, Settle(r) PROVE UNCHANGED Lock!absVars
    BY <2>4 DEF Settle
  <2>5. ASSUME NEW r \in Request, Timeout(r) \/ Release(r) PROVE Lock!AbsNext
    BY <2>5 DEF Timeout, Release, Lock!Leave
  <2>6. CASE UNCHANGED vars
    BY <2>6 DEF vars
  <2> QED BY <2>1, <2>2, <2>3, <2>4, <2>5, <2>6 DEF Next
<1> QED BY <1>1, <1>2, Invariance, PTL DEF Spec, ImplementsLock, Lock!AbsSpec
-----------------------------------------------------------------------------
(* The CDP bridge                                                           *)

(* A call is past its entry exactly when it holds the lock or has ended     *)
PhasesMatch ==
  \A r \in Request :
    /\ pc[r] = "entry" <=> status[r] \in {"idle", "waiting"}
    /\ pc[r] \in {"creating", "sending"} => status[r] = "held"
    /\ r \in executing => pc[r] \in {"sending", "over"}

ScopesMatch == \A r \in Request : Arrived(r) => scope[r] \in {target[r], Browser}

(* A page has a session only when the cache knows it, and a call that       *)
(* waits for newCDPSession has found none there                             *)
SessionsAreCached ==
  /\ \A t \in Tab : attached[t] = IF t \in cached THEN 1 ELSE 0
  /\ \A r \in Request : pc[r] = "creating" => target[r] \notin cached

BInv == /\ IInv
        /\ BridgeTypeOK
        /\ PhasesMatch
        /\ ScopesMatch
        /\ SessionsAreCached
-----------------------------------------------------------------------------
(* The bridge starts with no call and no attached session.                  *)
LEMMA InitBInv == BridgeInit => BInv
<1> SUFFICES ASSUME BridgeInit PROVE BInv
  OBVIOUS
<1> USE DEF BridgeInit
<1>1. IInv
  BY InitIInv
<1>2. BridgeTypeOK
  BY <1>1, SessionsBounded DEF BridgeTypeOK, IInv
<1>3. PhasesMatch /\ ScopesMatch /\ SessionsAreCached
  BY DEF Init, PhasesMatch, ScopesMatch, SessionsAreCached, Arrived
<1> QED BY <1>1, <1>2, <1>3 DEF BInv

(* The lock sees of the bridge only its own steps.                          *)
LEMMA BridgeStepsAreLockSteps == BInv /\ [BridgeNext]_allVars => [Next]_vars
<1> SUFFICES ASSUME BInv, [BridgeNext]_allVars PROVE [Next]_vars
  OBVIOUS
<1> USE DEF Next
<1>1. ASSUME NEW r \in Request, Dispatch(r) PROVE Next
  BY <1>1 DEF Dispatch, BInv, BridgeTypeOK
<1>2. ASSUME NEW r \in Request,
             PromiseSettles(r) \/ AcquireTimesOut(r) \/ Enter(r) \/ Finally(r)
      PROVE  Next
  BY <1>2 DEF PromiseSettles, AcquireTimesOut, Enter, Finally
<1>3. ASSUME NEW r \in Request,
             SessionCreated(r) \/ Answer(r) \/ SendTimesOut(r) \/ LateAnswer(r)
      PROVE  UNCHANGED vars
  BY <1>3 DEF SessionCreated, Answer, SendTimesOut, LateAnswer
<1>4. ASSUME NEW t \in Tab, PageCloses(t) PROVE UNCHANGED vars
  BY <1>4 DEF PageCloses
<1>5. CASE UNCHANGED allVars
  BY <1>5 DEF allVars, vars
<1> QED BY <1>1, <1>2, <1>3, <1>4, <1>5 DEF BridgeNext

(* The lock at work: two calls that wait for a session of one page, or have *)
(* conflicting commands in flight, are one call.                            *)
LEMMA HoldersAreAlone ==
  ASSUME BInv, NEW q \in Request, NEW r \in Request,
         status[q] = "held", status[r] = "held",
         target[q] = target[r] \/ Conflict(scope[q], scope[r])
  PROVE  q = r
<1>1. Conflict(scope[q], scope[r])
  BY DEF Conflict, BInv, ScopesMatch, Arrived
<1>2. MutualExclusion
  BY IInvExcludes DEF BInv
<1> QED BY <1>1, <1>2 DEF MutualExclusion
-----------------------------------------------------------------------------
(* A call through withCdpLock, from its dispatch to its finally, keeps the  *)
(* invariant.                                                               *)
LEMMA CallKeeps ==
  ASSUME BInv, IInv', NEW r \in Request,
         Dispatch(r) \/ PromiseSettles(r) \/ AcquireTimesOut(r) \/ Enter(r) \/ Finally(r)
  PROVE  BInv'
<1> USE DEF BInv
<1>1. BridgeTypeOK'
  <2>1. CASE Dispatch(r) \/ PromiseSettles(r) \/ Finally(r)
    BY <2>1 DEF Dispatch, PromiseSettles, Finally, bridgeVars, BridgeTypeOK, IInv
  <2>2. CASE AcquireTimesOut(r)
    BY <2>2 DEF AcquireTimesOut, BridgeTypeOK, IInv
  <2>3. CASE Enter(r)
    BY <2>3 DEF Enter, Send, BridgeTypeOK, IInv
  <2> QED BY <2>1, <2>2, <2>3
<1>2. PhasesMatch'
  <2> USE DEF PhasesMatch, IInv, TypeOK, BridgeTypeOK
  <2>1. CASE Dispatch(r)
    BY <2>1 DEF Dispatch, bridgeVars, AcquireTabLock, AcquireGlobalCdpLock, Reserve
  <2>2. CASE PromiseSettles(r) \/ Finally(r)
    BY <2>2 DEF PromiseSettles, Settle, Finally, Release, bridgeVars
  <2>3. CASE AcquireTimesOut(r)
    BY <2>3 DEF AcquireTimesOut, Timeout
  <2>4. CASE Enter(r)
    BY <2>4 DEF Enter, Grant, Send
  <2> QED BY <2>1, <2>2, <2>3, <2>4
<1>3. ScopesMatch'
  <2> USE DEF ScopesMatch, Arrived, IInv, TypeOK, BridgeTypeOK
  <2>1. CASE Dispatch(r)
    BY <2>1 DEF Dispatch, bridgeVars, AcquireTabLock, AcquireGlobalCdpLock, Reserve
  <2>2. CASE PromiseSettles(r) \/ Finally(r)
    BY <2>2 DEF PromiseSettles, Settle, Finally, Release, bridgeVars
  <2>3. CASE AcquireTimesOut(r) \/ Enter(r)
    BY <2>3 DEF AcquireTimesOut, Timeout, Enter, Grant
  <2> QED BY <2>1, <2>2, <2>3
<1>4. SessionsAreCached'
  <2> USE DEF SessionsAreCached, BridgeTypeOK
  <2>1. CASE Dispatch(r) \/ PromiseSettles(r) \/ Finally(r)
    BY <2>1 DEF Dispatch, PromiseSettles, Finally, bridgeVars
  <2>2. CASE AcquireTimesOut(r) \/ Enter(r)
    BY <2>2 DEF AcquireTimesOut, Enter, Send
  <2> QED BY <2>1, <2>2
<1> QED BY <1>1, <1>2, <1>3, <1>4

(* So do the answer of a CDP send, its timeout and an answer after the      *)
(* timeout.                                                                 *)
LEMMA SendingKeeps ==
  ASSUME BInv, IInv', NEW r \in Request,
         Answer(r) \/ SendTimesOut(r) \/ LateAnswer(r)
  PROVE  BInv'
<1> USE DEF BInv, Answer, SendTimesOut, LateAnswer
<1>1. BridgeTypeOK'
  BY DEF BridgeTypeOK, IInv
<1>2. PhasesMatch'
  BY DEF PhasesMatch, BridgeTypeOK, vars
<1>3. ScopesMatch' /\ SessionsAreCached'
  BY DEF ScopesMatch, SessionsAreCached, Arrived, BridgeTypeOK, vars
<1> QED BY <1>1, <1>2, <1>3

(* The page has no session yet, and nobody else is creating one for it.     *)
LEMMA SessionCreatedKeeps ==
  ASSUME BInv, IInv', NEW r \in Request, SessionCreated(r)
  PROVE  BInv'
<1> USE DEF BInv, SessionCreated
<1>1. BridgeTypeOK'
  BY SessionsBounded DEF BridgeTypeOK, IInv, Send
<1>2. PhasesMatch'
  BY DEF PhasesMatch, BridgeTypeOK, Send, vars
<1>3. ScopesMatch'
  BY DEF ScopesMatch, Arrived, vars
<1>4. SessionsAreCached'
  <2>1. target[r] \notin cached /\ target[r] \in Tab
    BY DEF SessionsAreCached, BridgeTypeOK
  <2>2. ASSUME NEW q \in Request, q # r, pc[q] = "creating" PROVE target[q] # target[r]
    BY <2>2, HoldersAreAlone DEF PhasesMatch
  <2>3. \A t \in Tab : attached'[t] = IF t \in cached' THEN 1 ELSE 0
    BY <2>1 DEF SessionsAreCached, BridgeTypeOK
  <2>4. ASSUME NEW q \in Request, pc'[q] = "creating" PROVE target'[q] \notin cached'
    BY <2>2, <2>4 DEF SessionsAreCached, BridgeTypeOK, Send
  <2> QED BY <2>3, <2>4 DEF SessionsAreCached
<1> QED BY <1>1, <1>2, <1>3, <1>4

(* So does a page that closes: the page's cached session goes with it.      *)
LEMMA PageClosesKeeps ==
  ASSUME BInv, IInv', NEW t \in Tab, PageCloses(t)
  PROVE  BInv'
<1> USE DEF BInv, PageCloses
<1>1. BridgeTypeOK'
  BY SessionsBounded DEF BridgeTypeOK, IInv
<1>2. PhasesMatch'
  BY DEF PhasesMatch, BridgeTypeOK, vars
<1>3. ScopesMatch' /\ SessionsAreCached'
  BY DEF ScopesMatch, SessionsAreCached, Arrived, BridgeTypeOK, vars
<1> QED BY <1>1, <1>2, <1>3

(* Every step of the bridge keeps the invariant.                            *)
LEMMA BridgeNextKeeps == BInv /\ [BridgeNext]_allVars => BInv'
<1> SUFFICES ASSUME BInv, [BridgeNext]_allVars PROVE BInv'
  OBVIOUS
<1>1. IInv'
  BY BridgeStepsAreLockSteps, NextKeepsIInv DEF BInv
<1>2. CASE UNCHANGED allVars
  BY <1>1, <1>2 DEF allVars, vars, bridgeVars, BInv, BridgeTypeOK, IInv, PhasesMatch,
     ScopesMatch, SessionsAreCached, Arrived
<1> QED BY <1>1, <1>2, CallKeeps, SendingKeeps, SessionCreatedKeeps, PageClosesKeeps
        DEF BridgeNext

(* The invariant gives what the run checks of the bridge.                   *)
LEMMA BInvIsSafe == BInv => BridgeSafe
<1> SUFFICES ASSUME BInv PROVE BridgeSafe
  OBVIOUS
<1>1. OneSessionPerPage
  BY DEF BInv, SessionsAreCached, OneSessionPerPage
<1>2. OverlapOnlyAfterTimeout
  BY HoldersAreAlone DEF BInv, PhasesMatch, BridgeTypeOK, OverlapOnlyAfterTimeout
<1>3. MutualExclusion
  BY IInvExcludes DEF BInv
<1> QED BY <1>1, <1>2, <1>3 DEF BInv, IInv, BridgeSafe

(* However many calls for however many pages overlap, time out, lose their  *)
(* page or are answered late: no two conflicting calls hold the lock,       *)
(* getOrCreateCdpSession never opens a second session on a page, and        *)
(* conflicting commands meet in Chromium only after the caller of one of    *)
(* them gave up (dispatchCdpCall).                                          *)
THEOREM BridgeSafeHolds == BridgeSpec => []BridgeSafe
BY InitBInv, BridgeNextKeeps, BInvIsSafe, PTL DEF BridgeSpec

(* The bridge uses the lock as the lock is meant to be used: seen through   *)
(* it, the abstract first-come lock is still implemented.                   *)
THEOREM BridgeImplementsLock == BridgeSpec => ImplementsLock
<1>1. BridgeInit => Init
  BY DEF BridgeInit
<1>2. BridgeSpec => Spec
  BY <1>1, InitBInv, BridgeNextKeeps, BridgeStepsAreLockSteps, PTL DEF BridgeSpec, Spec
<1> QED BY <1>2, ChainsImplementLock
-----------------------------------------------------------------------------
(* The history of style changes                                             *)
Shown == Value \cup {NoValue, PlainValue, FirstRule}
Entries == [elem : Elem, old : Shown, new : Shown, how : {"rule", "inline"}]
Requests ==
  {r \in [kind : {"inspect", "set", "undo", "reset"}, elem : Elem, val : Shown, old : Shown,
          idx : Nat, how : {"rule", "inline"}] : r.kind = "undo" => r.idx >= 1}

CssTypes ==
  /\ rule \in Shown /\ inline \in [Elem -> Shown]
  /\ hist \in Seq(Entries) /\ Len(hist) \in 0..HistCap
  /\ pushed \in 0..MaxMods
  /\ req \in [CssReq -> Requests \cup {NoReq}] /\ base \in [Elem -> Shown]
  /\ evicted \in BOOLEAN /\ spread \in BOOLEAN /\ muddled \in BOOLEAN

NoneOf(h, e) == \A i \in 1..Len(h) : h[i].elem # e
IsFirst(h, i) == \A j \in 1..Len(h) : h[j].elem = h[i].elem => i <= j

RewindsTo(h, b, looks) ==
  \A e \in Elem :
    /\ NoneOf(h, e) => looks[e] = b[e]
    /\ \A i \in 1..Len(h) : h[i].elem = e /\ IsFirst(h, i) => h[i].old = b[e]

(* The latest entry i of those that a reset has gone through is shown       *)
IsFirstDone(i, k) == i > k /\ \A j \in 1..Len(hist) : j > k /\ hist[j].elem = hist[i].elem => i <= j

Agrees(o) ==
  /\ req[o].kind = "set" => req[o].old = NoValue \/ req[o].old = Looks[req[o].elem]
  /\ req[o].kind = "undo" => /\ req[o].idx \in 1..Len(hist)
                             /\ hist[req[o].idx].elem = req[o].elem
                             /\ hist[req[o].idx].old = req[o].val
  /\ req[o].kind = "reset" =>
       /\ req[o].idx \in 0..Len(hist)
       /\ \A i \in 1..Len(hist) : IsFirstDone(i, req[o].idx) => Looks[hist[i].elem] = hist[i].old

OneAtATime == ~muddled => \A o, p \in CssReq : IsBusy(o) /\ IsBusy(p) => o = p
KnownOlds == ~muddled => \A i \in 1..Len(hist) : hist[i].old # NoValue

Clean == ~evicted /\ ~spread /\ ~muddled

CssInv ==
  /\ CssTypes /\ OneAtATime /\ KnownOlds
  /\ Clean => RewindsTo(hist, base, Looks) /\ \A o \in CssReq : IsBusy(o) => Agrees(o)

(* A request at work is a request; an idle one has no kind.                 *)
LEMMA KindIsBusy ==
  ASSUME CssTypes, NEW o \in CssReq
  PROVE  /\ IsBusy(o) => req[o] \in Requests
         /\ req[o].kind \in {"inspect", "set", "undo", "reset"} => IsBusy(o)
BY DEF CssTypes, IsBusy, NoReq

(* What an element shows under a rule and an inline value.                  *)
LEMMA LookIs ==
  ASSUME CssTypes, NEW e \in Elem
  PROVE  /\ Looks[e] = Look(e)
         /\ Looks[e] = IF inline[e] # NoValue THEN inline[e]
                       ELSE IF e \in Matched /\ rule # NoValue THEN rule ELSE PlainValue
         /\ Looks[e] \in Shown
BY DEF Looks, Look, LookUnder, CssTypes, Shown

(* A change of one element's own style, to a value, is what it shows.       *)
LEMMA LookAfterInline ==
  ASSUME CssTypes, NEW e \in Elem, NEW v \in Shown, inline' = Inlined(e, v), rule' = rule
  PROVE  /\ inline' \in [Elem -> Shown]
         /\ v # NoValue => Looks'[e] = v
         /\ \A x \in Elem \ {e} : Looks'[x] = Looks[x]
BY DEF Looks, Look, LookUnder, CssTypes, Inlined

(* A change of the rule is shown by the elements without a style of their   *)
(* own.                                                                     *)
LEMMA LookAfterRule ==
  ASSUME CssTypes, NEW e \in Elem, NEW v \in Shown, rule' = v, inline' = inline, rule # NoValue,
         {x \in Matched : inline[x] = NoValue} = {e}
  PROVE  /\ v # NoValue => Looks'[e] = v
         /\ \A x \in Elem \ {e} : Looks'[x] = Looks[x]
<1>1. e \in Matched /\ inline[e] = NoValue /\ \A x \in Elem \ {e} : x \in Matched => inline[x] # NoValue
  OBVIOUS
<1> QED BY <1>1 DEF Looks, Look, LookUnder, CssTypes

(* The indices of a history have a least one with a property.               *)
LEMMA LeastIndex ==
  ASSUME NEW I, I \subseteq Nat, I # {}
  PROVE  \E m \in I : \A i \in I : m <= i
<1>1. PICK m \in I : \A i \in I : ~(<<i, m>> \in OpToRel(<, Nat))
  BY NatLessThanWellFounded, WFMin
<1>2. ASSUME NEW i \in I, i < m PROVE FALSE
  <2>1. <<i, m>> \in Nat \X Nat /\ <<i, m>>[1] < <<i, m>>[2]
    BY <1>2
  <2>2. <<i, m>> \in OpToRel(<, Nat)
    BY <2>1 DEF OpToRel
  <2> QED BY <1>1, <2>2
<1>3. \A i \in I : m <= i
  BY <1>2
<1> QED BY <1>3

(* An entry of the history has an element that has a first entry.           *)
LEMMA FirstExists ==
  ASSUME NEW h \in Seq(Entries), NEW e, ~NoneOf(h, e)
  PROVE  \E i \in 1..Len(h) : h[i].elem = e /\ IsFirst(h, i)
<1>1. PICK n \in Nat : n = Len(h)
  BY LenProperties
<1> DEFINE I == {i \in 1..n : h[i].elem = e}
<1>2. I # {} /\ I \subseteq Nat
  BY <1>1 DEF NoneOf
<1>3. PICK m \in I : \A i \in I : m <= i
  BY <1>2, LeastIndex
<1>4. m \in 1..n /\ h[m].elem = e /\ \A j \in 1..n : h[j].elem = e => m <= j
  BY <1>3
<1> QED BY <1>1, <1>4 DEF IsFirst

(* A new entry that remembers what its element showed.                      *)
LEMMA AppendRewinds ==
  ASSUME NEW h \in Seq(Entries), NEW b, NEW was, NEW now, NEW entry \in Entries,
         RewindsTo(h, b, was), entry.old = was[entry.elem],
         \A x \in Elem \ {entry.elem} : now[x] = was[x]
  PROVE  RewindsTo(Append(h, entry), b, now)
<1>1. PICK n \in Nat : n = Len(h)
  BY LenProperties
<1>2. PICK all : all = Append(h, entry)
  OBVIOUS
<1>3. Len(all) = n + 1 /\ all[n + 1] = entry /\ \A i \in 1..n : all[i] = h[i]
  BY <1>1, <1>2, AppendProperties
<1>4. SUFFICES ASSUME NEW e \in Elem
               PROVE  /\ NoneOf(all, e) => now[e] = b[e]
                      /\ \A i \in 1..Len(all) : all[i].elem = e /\ IsFirst(all, i) => all[i].old = b[e]
  BY <1>2 DEF RewindsTo
<1>5. /\ NoneOf(h, e) => was[e] = b[e]
      /\ \A i \in 1..n : h[i].elem = e /\ IsFirst(h, i) => h[i].old = b[e]
  BY <1>1 DEF RewindsTo
<1>6. ASSUME NoneOf(all, e) PROVE now[e] = b[e]
  <2>1. \A i \in 1..(n + 1) : all[i].elem # e
    BY <1>3, <1>6 DEF NoneOf
  <2>2. entry.elem # e
    BY <1>3, <2>1
  <2>3. \A i \in 1..n : h[i].elem # e
    BY <1>3, <2>1
  <2>4. NoneOf(h, e)
    BY <1>1, <2>3 DEF NoneOf
  <2> QED BY <1>5, <2>2, <2>4
<1>7. ASSUME NEW i \in 1..(n + 1), all[i].elem = e, IsFirst(all, i) PROVE all[i].old = b[e]
  <2>1. \A j \in 1..(n + 1) : all[j].elem = e => i <= j
    BY <1>3, <1>7 DEF IsFirst
  <2>2. CASE i \in 1..n
    <3>1. h[i].elem = e /\ \A j \in 1..n : h[j].elem = e => i <= j
      BY <1>3, <1>7, <2>1, <2>2
    <3>2. IsFirst(h, i)
      BY <1>1, <3>1 DEF IsFirst
    <3> QED BY <1>3, <1>5, <2>2, <3>1, <3>2
  <2>3. CASE i = n + 1
    <3>1. \A j \in 1..n : h[j].elem # e
      BY <1>3, <2>1, <2>3
    <3>2. NoneOf(h, e)
      BY <1>1, <3>1 DEF NoneOf
    <3> QED BY <1>3, <1>5, <1>7, <2>3, <3>2
  <2> QED BY <2>2, <2>3
<1> QED BY <1>3, <1>6, <1>7

(* A list of entries without its i-th.                                      *)
LEMMA WithoutEntry ==
  ASSUME NEW h \in Seq(Entries), NEW n \in Nat, n = Len(h), NEW i \in 1..n
  PROVE  /\ RemoveAt(h, i) \in Seq(Entries) /\ Len(RemoveAt(h, i)) = n - 1
         /\ \A j \in 1..(n - 1) : RemoveAt(h, i)[j] = h[IF j < i THEN j ELSE j + 1]
<1>1. \A j \in 1..n : h[j] \in Entries
  BY ElementOfSeq
<1>2. PICK a : a = SubSeq(h, 1, i - 1)
  OBVIOUS
<1>3. PICK b : b = SubSeq(h, i + 1, n)
  OBVIOUS
<1>4. /\ a \in Seq(Entries) /\ Len(a) = i - 1 /\ \A j \in 1..(i - 1) : a[j] = h[j]
  <2>1. i - 1 \in Int /\ \A j \in 1..(i - 1) : h[j] \in Entries
    BY <1>1
  <2>2. /\ a \in Seq(Entries)
        /\ Len(a) = IF 1 <= i - 1 THEN (i - 1) - 1 + 1 ELSE 0
        /\ \A j \in 1..((i - 1) - 1 + 1) : a[j] = h[1 + j - 1]
    BY <1>2, <2>1, SubSeqProperties
  <2>3. Len(a) = i - 1
    <3>1. IF 1 <= i - 1 THEN (i - 1) - 1 + 1 = i - 1 ELSE 0 = i - 1
      OBVIOUS
    <3> QED BY <2>2, <3>1
  <2>4. ASSUME NEW j \in 1..(i - 1) PROVE a[j] = h[j]
    <3>1. j \in 1..((i - 1) - 1 + 1) /\ 1 + j - 1 = j
      OBVIOUS
    <3> QED BY <2>2, <3>1
  <2> QED BY <2>2, <2>3, <2>4
<1>5. /\ b \in Seq(Entries) /\ Len(b) = n - i /\ \A j \in 1..(n - i) : b[j] = h[i + j]
  <2>1. i + 1 \in Int /\ \A j \in (i + 1)..n : h[j] \in Entries
    BY <1>1
  <2>2. /\ b \in Seq(Entries)
        /\ Len(b) = IF i + 1 <= n THEN n - (i + 1) + 1 ELSE 0
        /\ \A j \in 1..(n - (i + 1) + 1) : b[j] = h[(i + 1) + j - 1]
    BY <1>3, <2>1, SubSeqProperties
  <2>3. Len(b) = n - i
    <3>1. IF i + 1 <= n THEN n - (i + 1) + 1 = n - i ELSE 0 = n - i
      OBVIOUS
    <3> QED BY <2>2, <3>1
  <2>4. ASSUME NEW j \in 1..(n - i) PROVE b[j] = h[i + j]
    <3>1. j \in 1..(n - (i + 1) + 1) /\ (i + 1) + j - 1 = i + j
      OBVIOUS
    <3> QED BY <2>2, <3>1
  <2> QED BY <2>2, <2>3, <2>4
<1>6. PICK r : r = RemoveAt(h, i)
  OBVIOUS
<1>7. r = a \o b
  BY <1>2, <1>3, <1>6 DEF RemoveAt
<1>8. /\ r \in Seq(Entries) /\ Len(r) = Len(a) + Len(b)
      /\ \A j \in 1..(Len(a) + Len(b)) : r[j] = IF j <= Len(a) THEN a[j] ELSE b[j - Len(a)]
  BY <1>4, <1>5, <1>7, ConcatProperties
<1>9. \A j \in 1..(n - 1) : r[j] = IF j <= i - 1 THEN a[j] ELSE b[j - (i - 1)]
  BY <1>4, <1>5, <1>8
<1>10. \A j \in 1..(n - 1) : r[j] = h[IF j < i THEN j ELSE j + 1]
  <2>1. SUFFICES ASSUME NEW j \in 1..(n - 1) PROVE r[j] = h[IF j < i THEN j ELSE j + 1]
    OBVIOUS
  <2>2. CASE j < i
    BY <2>2, <1>9, <1>4
  <2>3. CASE ~(j < i)
    <3>1. j - (i - 1) \in 1..(n - i) /\ ~(j <= i - 1) /\ i + (j - (i - 1)) = j + 1
      BY <2>3
    <3>2. r[j] = b[j - (i - 1)]
      BY <3>1, <1>9
    <3> QED BY <2>3, <3>1, <3>2, <1>5
  <2> QED BY <2>2, <2>3
<1>11. Len(r) = n - 1
  BY <1>4, <1>5, <1>8
<1> QED BY <1>6, <1>8, <1>10, <1>11

(* Taking out the last entry of an element, with the element showing what   *)
(* the entry remembered.                                                    *)
LEMMA RemoveRewinds ==
  ASSUME NEW h \in Seq(Entries), NEW n \in Nat, n = Len(h), NEW i \in 1..n, NEW b, NEW was, NEW now,
         RewindsTo(h, b, was), \A j \in (i + 1)..n : h[j].elem # h[i].elem,
         now[h[i].elem] = h[i].old, \A x \in Elem \ {h[i].elem} : now[x] = was[x]
  PROVE  RewindsTo(RemoveAt(h, i), b, now)
<1> DEFINE to(j) == IF j < i THEN j ELSE j + 1
<1>1. PICK r \in Seq(Entries) : r = RemoveAt(h, i) /\ Len(r) = n - 1 /\ \A j \in 1..(n - 1) : r[j] = h[to(j)]
  BY WithoutEntry
<1>2. ASSUME NEW j \in 1..(n - 1) PROVE to(j) \in 1..n /\ to(j) # i
  OBVIOUS
<1>3. ASSUME NEW k \in 1..n, k # i PROVE \E j \in 1..(n - 1) : to(j) = k
  <2>1. CASE k < i
    <3>1. k \in 1..(n - 1) /\ to(k) = k
      BY <2>1
    <3> QED BY <3>1
  <2>2. CASE k > i
    <3>1. k - 1 \in 1..(n - 1) /\ to(k - 1) = k
      BY <2>2
    <3> QED BY <3>1
  <2> QED BY <1>3, <2>1, <2>2
<1>4. ASSUME NEW j \in 1..(n - 1), NEW k \in 1..(n - 1), j <= k PROVE to(j) <= to(k)
  BY <1>4
<1>5. h[i] \in Entries /\ h[i].elem \in Elem
  <2>1. h[i] \in Entries
    BY ElementOfSeq
  <2> QED BY <2>1 DEF Entries
<1>6. \A k \in 1..n : h[k].elem = h[i].elem => k <= i
  BY SMT
<1> HIDE DEF to
<1>7. SUFFICES ASSUME NEW e \in Elem
               PROVE  /\ NoneOf(r, e) => now[e] = b[e]
                      /\ \A j \in 1..Len(r) : r[j].elem = e /\ IsFirst(r, j) => r[j].old = b[e]
  BY <1>1 DEF RewindsTo
<1>8. /\ NoneOf(h, e) => was[e] = b[e]
      /\ \A k \in 1..n : h[k].elem = e /\ IsFirst(h, k) => h[k].old = b[e]
  BY DEF RewindsTo
<1>9. ASSUME NoneOf(r, e) PROVE now[e] = b[e]
  <2>1. \A j \in 1..(n - 1) : h[to(j)].elem # e
    BY <1>1, <1>9 DEF NoneOf
  <2>2. \A k \in 1..n : k # i => h[k].elem # e
    BY <1>3, <2>1
  <2>3. CASE h[i].elem = e
    <3>1. \A j \in 1..n : h[j].elem = h[i].elem => i <= j
      BY <2>2, <2>3
    <3>2. IsFirst(h, i)
      BY <3>1 DEF IsFirst
    <3> QED BY <1>8, <2>3, <3>2
  <2>4. CASE h[i].elem # e
    <3>1. NoneOf(h, e)
      BY <2>2, <2>4 DEF NoneOf
    <3> QED BY <1>8, <2>4, <3>1
  <2> QED BY <2>3, <2>4
<1>10. ASSUME NEW j \in 1..(n - 1), r[j].elem = e, IsFirst(r, j) PROVE r[j].old = b[e]
  <2>1. r[j] = h[to(j)] /\ to(j) \in 1..n /\ to(j) # i
    BY <1>1, <1>2
  <2>2. ASSUME NEW k \in 1..n, h[k].elem = e PROVE to(j) <= k
    <3>1. CASE k # i
      <4>1. PICK l \in 1..(n - 1) : to(l) = k
        BY <1>3, <3>1
      <4>2. j <= l
        BY <1>1, <1>10, <2>2, <4>1 DEF IsFirst
      <4> QED BY <1>4, <4>1, <4>2
    <3>2. CASE k = i
      BY <1>6, <1>10, <2>1, <2>2, <3>2
    <3> QED BY <3>1, <3>2
  <2>3. IsFirst(h, to(j))
    BY <1>10, <2>1, <2>2 DEF IsFirst
  <2> QED BY <1>8, <1>10, <2>1, <2>3
<1> QED BY <1>1, <1>9, <1>10

(* What settling a request leaves, with the history h                       *)
SettledOn(h, ev, sp, mu) ==
  /\ hist' = h /\ req' \in [CssReq -> Requests \cup {NoReq}]
  /\ evicted' \in BOOLEAN /\ spread' \in BOOLEAN /\ muddled' \in BOOLEAN /\ base' \in [Elem -> Shown]
  /\ ~muddled' => \A p \in CssReq : ~IsBusy(p)'
  /\ ~muddled' => h = <<>> \/ ~mu
  /\ Clean' => \/ h = <<>> /\ base' = Looks'
               \/ ~ev /\ ~sp /\ ~mu /\ base' = base

(* While values are known and documents not mixed, one request is at work,  *)
(* so none is after it settles.                                             *)
LEMMA SettlesAlone ==
  ASSUME CssInv, NEW o \in CssReq, IsBusy(o), NEW h, NEW ev \in BOOLEAN, NEW sp \in BOOLEAN,
         NEW mu \in BOOLEAN, Settles(o, h, ev, sp, mu), muddled => mu,
         rule' \in Shown, inline' \in [Elem -> Shown]
  PROVE  SettledOn(h, ev, sp, mu)
<1> DEFINE fresh == h = <<>> /\ Alone(o)
<1>1. req' = [req EXCEPT ![o] = NoReq] /\ req \in [CssReq -> Requests \cup {NoReq}] /\ hist' = h
  BY DEF Settles, CssInv, CssTypes
<1>2. /\ evicted' = (ev /\ ~fresh) /\ spread' = (sp /\ ~fresh) /\ muddled' = (mu /\ ~fresh)
      /\ base' = IF fresh THEN [e \in Elem |-> LookUnder(rule', inline', e)] ELSE base
  BY DEF Settles
<1>3. req' \in [CssReq -> Requests \cup {NoReq}]
  BY <1>1
<1>4. \A p \in CssReq : IsBusy(p)' => p # o /\ IsBusy(p)
  BY <1>1 DEF IsBusy
<1>5. fresh => \A p \in CssReq : ~IsBusy(p)'
  BY <1>4 DEF Alone
<1>6. ~mu => \A p \in CssReq : ~IsBusy(p)'
  BY <1>4 DEF CssInv, OneAtATime
<1>7. fresh => base' = Looks'
  BY <1>2 DEF Looks, Look
<1> HIDE DEF fresh
<1>8. evicted' \in BOOLEAN /\ spread' \in BOOLEAN /\ muddled' \in BOOLEAN
  BY <1>2, Zenon
<1>9. ~muddled' => fresh \/ ~mu
  BY <1>2, Zenon
<1>10. Clean' => fresh \/ (~ev /\ ~sp /\ ~mu)
  BY <1>2, Zenon DEF Clean
<1>11. fresh => h = <<>>
  BY DEF fresh
<1>12. ~fresh => base' = base
  BY <1>2
<1>13. base' \in [Elem -> Shown]
  <2>1. Looks' \in [Elem -> Shown]
    BY DEF Looks, Look, LookUnder, Shown
  <2> QED BY <1>7, <1>12, <2>1 DEF CssInv, CssTypes
<1> QED BY <1>1, <1>3, <1>5, <1>6, <1>7, <1>8, <1>9, <1>10, <1>11, <1>12, <1>13, Zenon DEF SettledOn

(* A request that settles keeps the invariant if its history leads back.    *)
LEMMA SettlesKeeps ==
  ASSUME CssInv, NEW o \in CssReq, IsBusy(o), NEW h, NEW ev \in BOOLEAN, NEW sp \in BOOLEAN,
         NEW mu \in BOOLEAN, Settles(o, h, ev, sp, mu), muddled => mu,
         h \in Seq(Entries), Len(h) \in 0..HistCap,
         rule' \in Shown, inline' \in [Elem -> Shown], pushed' \in 0..MaxMods,
         ~mu => \A i \in 1..Len(h) : h[i].old # NoValue,
         ~ev /\ ~sp /\ ~mu => RewindsTo(h, base, Looks')
  PROVE  CssInv'
<1>1. /\ hist' = h /\ req' \in [CssReq -> Requests \cup {NoReq}]
      /\ evicted' \in BOOLEAN /\ spread' \in BOOLEAN /\ muddled' \in BOOLEAN /\ base' \in [Elem -> Shown]
      /\ ~muddled' => \A p \in CssReq : ~IsBusy(p)'
      /\ ~muddled' => h = <<>> \/ ~mu
      /\ Clean' => \/ h = <<>> /\ base' = Looks'
                   \/ ~ev /\ ~sp /\ ~mu /\ base' = base
  <2>1. SettledOn(h, ev, sp, mu)
    BY SettlesAlone
  <2> QED BY <2>1, Zenon DEF SettledOn
<1>2. CssTypes'
  BY <1>1 DEF CssTypes
<1>3. OneAtATime'
  BY <1>1 DEF OneAtATime
<1>4. KnownOlds'
  <2>1. SUFFICES ASSUME ~muddled' PROVE \A i \in 1..Len(h) : h[i].old # NoValue
    BY <1>1 DEF KnownOlds
  <2>2. CASE h = <<>>
    BY <2>2
  <2> QED BY <1>1, <2>1, <2>2
<1>5. Clean' => RewindsTo(h, base', Looks')
  <2>1. CASE h = <<>> /\ base' = Looks'
    BY <2>1 DEF RewindsTo, NoneOf
  <2>2. CASE ~ev /\ ~sp /\ ~mu /\ base' = base
    BY <2>2
  <2> QED BY <1>1, <2>1, <2>2
<1>6. Clean' => RewindsTo(hist, base, Looks)'
  BY <1>1, <1>5 DEF RewindsTo, NoneOf, IsFirst
<1>7. Clean' => \A p \in CssReq : ~IsBusy(p)'
  BY <1>1 DEF Clean
<1> QED BY <1>2, <1>3, <1>4, <1>6, <1>7 DEF CssInv

(* The parts of a request at work.                                          *)
LEMMA RequestParts ==
  ASSUME NEW r \in Requests
  PROVE  /\ r.kind \in {"inspect", "set", "undo", "reset"} /\ r.elem \in Elem /\ r.val \in Shown
         /\ r.old \in Shown /\ r.idx \in Nat /\ r.how \in {"rule", "inline"}
BY DEF Requests

(* setStyleTexts and the fallback push an entry with the value inspected:   *)
(* what the history then leads back to is unchanged.                        *)
LEMMA PushKeeps ==
  ASSUME CssInv, NEW o \in CssReq, req[o].kind = "set", NEW how \in {"rule", "inline"}, NEW sp \in BOOLEAN,
         Settles(o, Capped(Append(hist, [elem |-> req[o].elem, old |-> req[o].old,
                                         new |-> req[o].val, how |-> how])),
                 evicted \/ Len(hist) = HistCap, sp, muddled \/ req[o].old = NoValue),
         rule' \in Shown, inline' \in [Elem -> Shown], pushed' \in 0..MaxMods,
         spread => sp,
         ~sp => \A x \in Elem \ {req[o].elem} : Looks'[x] = Looks[x]
  PROVE  CssInv'
<1>1. CssTypes /\ IsBusy(o) /\ req[o] \in Requests
  BY KindIsBusy DEF CssInv
<1>2. PICK r \in Requests : r = req[o]
  BY <1>1
<1>3. r.elem \in Elem /\ r.val \in Shown /\ r.old \in Shown
  BY RequestParts
<1>4. PICK entry : entry = [elem |-> r.elem, old |-> r.old, new |-> r.val, how |-> how]
  OBVIOUS
<1>5. entry \in Entries /\ entry.elem = r.elem /\ entry.old = r.old
  BY <1>3, <1>4 DEF Entries
<1>6. PICK n \in Nat : n = Len(hist) /\ hist \in Seq(Entries) /\ n \in 0..HistCap
  BY <1>1, LenProperties DEF CssTypes
<1>7. HistCap \in Nat /\ HistCap >= 1
  BY InspectorAssumption
<1>8. PICK all \in Seq(Entries) :
        /\ all = Append(hist, entry) /\ all # <<>> /\ Len(all) = n + 1
        /\ all[n + 1] = entry /\ \A i \in 1..n : all[i] = hist[i]
  <2>1. PICK all : all = Append(hist, entry)
    OBVIOUS
  <2>2. /\ all \in Seq(Entries) /\ all # <<>> /\ Len(all) = n + 1
        /\ all[n + 1] = entry /\ \A i \in 1..n : all[i] = hist[i]
    BY <1>5, <1>6, <2>1, AppendProperties
  <2> QED BY <2>1, <2>2
<1>9. PICK h : h = Capped(all)
  OBVIOUS
<1>10. h = IF n + 1 > HistCap THEN Tail(all) ELSE all
  BY <1>8, <1>9 DEF Capped
<1>11. PICK ev \in BOOLEAN : ev <=> (evicted \/ n = HistCap)
  OBVIOUS
<1>12. PICK mu \in BOOLEAN : mu <=> (muddled \/ r.old = NoValue)
  OBVIOUS
<1>13. Settles(o, h, ev, sp, mu)
  <2>1. ev = (evicted \/ Len(hist) = HistCap)
    BY <1>1, <1>6, <1>11, Zenon DEF CssTypes
  <2>2. mu = (muddled \/ req[o].old = NoValue)
    BY <1>1, <1>2, <1>12, Zenon DEF CssTypes
  <2>3. h = Capped(Append(hist, [elem |-> req[o].elem, old |-> req[o].old, new |-> req[o].val, how |-> how]))
    BY <1>2, <1>4, <1>8, <1>9
  <2> QED BY <2>1, <2>2, <2>3
<1>14. h \in Seq(Entries) /\ Len(h) \in 0..HistCap
       /\ (\A i \in 1..Len(h) : \E j \in 1..(n + 1) : h[i] = all[j])
  <2>1. CASE n = HistCap
    <3>1. h = Tail(all)
      BY <1>7, <1>10, <2>1
    <3>2. Tail(all) \in Seq(Entries) /\ Len(Tail(all)) = (n + 1) - 1
          /\ \A i \in 1..Len(Tail(all)) : Tail(all)[i] = all[i + 1]
      BY <1>8, HeadTailProperties
    <3>3. (n + 1) - 1 \in 0..HistCap
      BY <1>7, <2>1
    <3>4. ASSUME NEW i \in 1..Len(h) PROVE \E j \in 1..(n + 1) : h[i] = all[j]
      <4>1. i \in 1..((n + 1) - 1)
        BY <3>1, <3>2
      <4>2. h[i] = all[i + 1] /\ i + 1 \in 1..(n + 1)
        BY <3>1, <3>2, <4>1
      <4> QED BY <4>2
    <3> QED BY <3>1, <3>2, <3>3, <3>4
  <2>2. CASE n # HistCap
    <3>1. ~(n + 1 > HistCap) /\ n + 1 \in 0..HistCap
      BY <1>6, <1>7, <2>2
    <3>2. h = all
      BY <1>10, <3>1
    <3> QED BY <1>8, <3>1, <3>2
  <2> QED BY <2>1, <2>2
<1>15. ASSUME ~mu, NEW i \in 1..Len(h) PROVE h[i].old # NoValue
  <2>1. PICK j \in 1..(n + 1) : h[i] = all[j]
    BY <1>14
  <2>2. r.old # NoValue /\ \A k \in 1..n : hist[k].old # NoValue
    BY <1>6, <1>12, <1>15 DEF CssInv, KnownOlds
  <2>3. CASE j = n + 1
    BY <1>5, <1>8, <2>1, <2>2, <2>3
  <2>4. CASE j # n + 1
    <3>1. j \in 1..n
      BY <2>4
    <3> QED BY <1>8, <2>1, <2>2, <3>1
  <2> QED BY <2>3, <2>4
<1>16. ASSUME ~ev, ~sp, ~mu PROVE RewindsTo(h, base, Looks')
  <2>1. Clean /\ r.old # NoValue /\ n # HistCap
    BY <1>11, <1>12, <1>16 DEF Clean
  <2>2. RewindsTo(hist, base, Looks) /\ Agrees(o)
    BY <1>1, <2>1 DEF CssInv
  <2>3. entry.old = Looks[entry.elem]
    BY <1>2, <1>5, <2>1, <2>2 DEF Agrees
  <2>4. \A x \in Elem \ {entry.elem} : Looks'[x] = Looks[x]
    BY <1>2, <1>5, <1>16
  <2>5. ~(n + 1 > HistCap)
    BY <1>6, <1>7, <2>1
  <2>6. h = Append(hist, entry)
    BY <1>8, <1>10, <2>5
  <2>7. PICK now : now = Looks'
    OBVIOUS
  <2> QED BY <1>5, <1>6, <2>2, <2>3, <2>4, <2>6, <2>7, AppendRewinds
<1>17. muddled => mu
  BY <1>12
<1> QED BY <1>1, <1>13, <1>14, <1>15, <1>16, <1>17, SettlesKeeps

(* modifyStyle, on the rule.                                                *)
LEMMA SetsRuleKeeps == ASSUME CssInv, NEW o \in CssReq, SetsRule(o) PROVE CssInv'
<1>1. CssTypes /\ req[o] \in Requests /\ req[o].kind = "set"
  BY KindIsBusy DEF CssInv, SetsRule
<1>2. PICK e \in Elem, v \in Shown : e = req[o].elem /\ v = req[o].val
  BY <1>1, RequestParts
<1>3. rule' = v /\ inline' = inline /\ rule # NoValue /\ pushed' \in 0..MaxMods
  <2>1. pushed \in 0..MaxMods /\ MaxMods \in Nat
    BY <1>1, InspectorAssumption DEF CssTypes
  <2> QED BY <1>2, <2>1 DEF SetsRule
<1>4. PICK sp \in BOOLEAN : sp <=> (spread \/ {x \in Matched : inline[x] = NoValue} # {e})
  OBVIOUS
<1>5. Settles(o, Capped(Append(hist, [elem |-> req[o].elem, old |-> req[o].old,
                                      new |-> req[o].val, how |-> "rule"])),
              evicted \/ Len(hist) = HistCap, sp, muddled \/ req[o].old = NoValue)
  <2>1. sp = (spread \/ {x \in Matched : inline[x] = NoValue} # {req[o].elem})
    BY <1>1, <1>2, <1>4, Zenon DEF CssTypes
  <2> QED BY <2>1 DEF SetsRule
<1>6. ~sp => \A x \in Elem \ {req[o].elem} : Looks'[x] = Looks[x]
  BY <1>1, <1>2, <1>3, <1>4, LookAfterRule
<1>7. rule' \in Shown /\ inline' \in [Elem -> Shown]
  BY <1>1, <1>3 DEF CssTypes
<1>8. spread => sp
  BY <1>4
<1> QED BY <1>1, <1>3, <1>5, <1>6, <1>7, <1>8, PushKeeps

(* modifyStyle, on the element itself.                                      *)
LEMMA SetsInlineKeeps == ASSUME CssInv, NEW o \in CssReq, SetsInline(o) PROVE CssInv'
<1>1. CssTypes /\ req[o] \in Requests /\ req[o].kind = "set"
  BY KindIsBusy DEF CssInv, SetsInline
<1>2. PICK e \in Elem, v \in Shown : e = req[o].elem /\ v = req[o].val
  BY <1>1, RequestParts
<1>3. rule' = rule /\ inline' = Inlined(e, v) /\ pushed' \in 0..MaxMods
  <2>1. pushed \in 0..MaxMods /\ MaxMods \in Nat
    BY <1>1, InspectorAssumption DEF CssTypes
  <2> QED BY <1>2, <2>1 DEF SetsInline
<1>4. inline' \in [Elem -> Shown] /\ \A x \in Elem \ {e} : Looks'[x] = Looks[x]
  BY <1>1, <1>3, LookAfterInline
<1>5. Settles(o, Capped(Append(hist, [elem |-> req[o].elem, old |-> req[o].old,
                                      new |-> req[o].val, how |-> "inline"])),
              evicted \/ Len(hist) = HistCap, spread, muddled \/ req[o].old = NoValue)
  BY DEF SetsInline
<1>6. spread \in BOOLEAN /\ rule' \in Shown
  BY <1>1, <1>3 DEF CssTypes
<1> QED BY <1>1, <1>2, <1>3, <1>4, <1>5, <1>6, PushKeeps

(* The history without an entry that may be gone already.                   *)
LEMMA LeavesEntryIs ==
  ASSUME NEW h \in Seq(Entries), Len(h) \in 0..HistCap, NEW i \in Nat, i >= 1
  PROVE  LET l == LeavesEntry(i, h) IN
         /\ l \in Seq(Entries) /\ Len(l) \in 0..HistCap
         /\ \A j \in 1..Len(l) : \E k \in 1..Len(h) : l[j] = h[k]
<1>1. PICK n \in Nat : n = Len(h) /\ n \in 0..HistCap /\ HistCap \in Nat
  BY LenProperties, InspectorAssumption
<1>2. CASE i <= n
  <2>1. i \in 1..n
    BY <1>2
  <2>2. PICK l : l = RemoveAt(h, i)
    OBVIOUS
  <2>3. /\ l \in Seq(Entries) /\ Len(l) = n - 1
        /\ \A j \in 1..(n - 1) : l[j] = h[IF j < i THEN j ELSE j + 1]
    BY <1>1, <2>1, <2>2, WithoutEntry
  <2>4. n - 1 \in 0..HistCap
    BY <1>1, <2>1
  <2>5. ASSUME NEW j \in 1..(n - 1) PROVE \E k \in 1..n : l[j] = h[k]
    <3>1. (IF j < i THEN j ELSE j + 1) \in 1..n
      OBVIOUS
    <3> QED BY <2>3, <3>1
  <2>6. LeavesEntry(i, h) = l
    BY <1>1, <1>2, <2>2 DEF LeavesEntry
  <2> QED BY <1>1, <2>3, <2>4, <2>5, <2>6
<1>3. CASE ~(i <= n)
  <2>1. LeavesEntry(i, h) = h
    BY <1>1, <1>3 DEF LeavesEntry
  <2> QED BY <1>1, <2>1
<1> QED BY <1>2, <1>3

(* What pushing and popping again leaves of the history.                    *)
LEMMA RepoppedIs ==
  ASSUME CssTypes
  PROVE  /\ Repopped \in Seq(Entries) /\ Len(Repopped) \in 0..HistCap
         /\ \A j \in 1..Len(Repopped) : \E k \in 1..Len(hist) : Repopped[j] = hist[k]
         /\ Len(hist) # HistCap => Repopped = hist
<1>1. PICK n \in Nat : n = Len(hist) /\ hist \in Seq(Entries) /\ n \in 0..HistCap
  BY LenProperties DEF CssTypes
<1>2. CASE n = HistCap
  <2>1. HistCap \in Nat /\ HistCap >= 1
    BY InspectorAssumption
  <2>2. hist # <<>>
    <3>1. n >= 1
      BY <1>2, <2>1
    <3>2. Len(<<>>) = 0
      BY EmptySeq
    <3>3. hist = <<>> => n = 0
      BY <1>1, <3>2
    <3> QED BY <3>1, <3>3
  <2>3. /\ Tail(hist) \in Seq(Entries) /\ Len(Tail(hist)) = n - 1
        /\ \A j \in 1..Len(Tail(hist)) : Tail(hist)[j] = hist[j + 1]
    BY <1>1, <2>2, HeadTailProperties
  <2>4. n - 1 \in 0..HistCap
    BY <1>2, <2>1
  <2>5. \A j \in 1..(n - 1) : j + 1 \in 1..n
    OBVIOUS
  <2>6. Repopped = Tail(hist)
    BY <1>1, <1>2 DEF Repopped
  <2>7. \A j \in 1..(n - 1) : \E k \in 1..n : Tail(hist)[j] = hist[k]
    BY <2>3, <2>5
  <2>8. Len(Repopped) \in 0..HistCap
    BY <2>3, <2>4, <2>6
  <2> QED BY <1>1, <1>2, <2>3, <2>6, <2>7, <2>8
<1>3. CASE n # HistCap
  <2>1. Repopped = hist
    BY <1>1, <1>3 DEF Repopped
  <2> QED BY <1>1, <2>1
<1> QED BY <1>2, <1>3

(* An undo of the last entry of an element gives the element back what the  *)
(* entry remembered.                                                        *)
LEMMA UndoKeeps ==
  ASSUME CssInv, NEW o \in CssReq, req[o].kind = "undo", NEW ev \in BOOLEAN, NEW sp \in BOOLEAN,
         NEW h \in Seq(Entries), Len(h) \in 0..HistCap,
         \A j \in 1..Len(h) : \E k \in 1..Len(hist) : h[j] = hist[k],
         Settles(o, LeavesEntry(req[o].idx, h), ev, sp, muddled \/ UndoneLater(o)),
         rule' \in Shown, inline' \in [Elem -> Shown], pushed' \in 0..MaxMods,
         evicted => ev, spread => sp, ~ev => h = hist,
         ~sp => /\ req[o].val # NoValue => Looks'[req[o].elem] = req[o].val
                /\ \A x \in Elem \ {req[o].elem} : Looks'[x] = Looks[x]
  PROVE  CssInv'
<1>1. CssTypes /\ IsBusy(o) /\ req[o] \in Requests
  BY KindIsBusy DEF CssInv
<1>2. PICK i \in Nat, e \in Elem, v \in Shown : i = req[o].idx /\ e = req[o].elem /\ v = req[o].val
  BY <1>1, RequestParts
<1>3. i >= 1
  BY <1>1, <1>2 DEF Requests
<1>4. PICK l \in Seq(Entries) :
        /\ l = LeavesEntry(i, h) /\ Len(l) \in 0..HistCap
        /\ \A j \in 1..Len(l) : \E k \in 1..Len(h) : l[j] = h[k]
  BY <1>3, LeavesEntryIs
<1>5. PICK mu \in BOOLEAN : mu <=> (muddled \/ UndoneLater(o))
  OBVIOUS
<1>6. Settles(o, l, ev, sp, mu)
  <2>1. mu = (muddled \/ UndoneLater(o))
    BY <1>1, <1>5, Zenon DEF CssTypes
  <2> QED BY <1>2, <1>4, <2>1
<1>7. ASSUME ~mu PROVE \A j \in 1..Len(l) : l[j].old # NoValue
  BY <1>4, <1>5, <1>7 DEF CssInv, KnownOlds
<1>8. ASSUME ~ev, ~sp, ~mu PROVE RewindsTo(l, base, Looks')
  <2>1. Clean
    BY <1>5, <1>8 DEF Clean
  <2>2. RewindsTo(hist, base, Looks) /\ Agrees(o)
    BY <1>1, <2>1 DEF CssInv
  <2>3. PICK n \in Nat : n = Len(hist) /\ hist \in Seq(Entries)
    BY <1>1, LenProperties DEF CssTypes
  <2>4. i \in 1..n /\ hist[i].elem = e /\ hist[i].old = v
    BY <1>2, <2>2, <2>3 DEF Agrees
  <2>5. \A j \in (i + 1)..n : hist[j].elem # hist[i].elem
    BY <1>2, <1>5, <1>8, <2>3, <2>4 DEF UndoneLater
  <2>6. v # NoValue
    BY <2>1, <2>3, <2>4 DEF CssInv, KnownOlds, Clean
  <2>7. Looks'[e] = v /\ \A x \in Elem \ {e} : Looks'[x] = Looks[x]
    BY <1>2, <1>8, <2>6
  <2>8. h = hist /\ i <= n
    BY <1>8, <2>4
  <2>9. l = RemoveAt(hist, i)
    BY <1>4, <2>3, <2>8 DEF LeavesEntry
  <2>10. PICK now : now = Looks'
    OBVIOUS
  <2>11. PICK was : was = Looks
    OBVIOUS
  <2> QED BY <2>2, <2>3, <2>4, <2>5, <2>7, <2>9, <2>10, <2>11, RemoveRewinds
<1>9. muddled => mu
  BY <1>5
<1> QED BY <1>1, <1>4, <1>6, <1>7, <1>8, <1>9, SettlesKeeps

(* undoModification, by the rule.                                           *)
LEMMA UndoesByRuleKeeps == ASSUME CssInv, NEW o \in CssReq, UndoesByRule(o) PROVE CssInv'
<1>1. CssTypes /\ req[o] \in Requests /\ req[o].kind = "undo"
  BY KindIsBusy DEF CssInv, UndoesByRule
<1>2. PICK e \in Elem, v \in Shown : e = req[o].elem /\ v = req[o].val
  BY <1>1, RequestParts
<1>3. rule' = v /\ inline' = inline /\ rule # NoValue /\ pushed' \in 0..MaxMods
  BY <1>1, <1>2 DEF UndoesByRule, CssTypes
<1>4. PICK sp \in BOOLEAN : sp <=> (spread \/ {x \in Matched : inline[x] = NoValue} # {e})
  OBVIOUS
<1>5. PICK ev \in BOOLEAN : ev <=> (evicted \/ Len(hist) = HistCap)
  OBVIOUS
<1>6. PICK h \in Seq(Entries) :
        /\ h = Repopped /\ Len(h) \in 0..HistCap
        /\ \A j \in 1..Len(h) : \E k \in 1..Len(hist) : h[j] = hist[k]
        /\ Len(hist) # HistCap => h = hist
  BY <1>1, RepoppedIs
<1>7. Settles(o, LeavesEntry(req[o].idx, h), ev, sp, muddled \/ UndoneLater(o))
  <2>1. sp = (spread \/ {x \in Matched : inline[x] = NoValue} # {req[o].elem})
    BY <1>1, <1>2, <1>4, Zenon DEF CssTypes
  <2>2. ev = (evicted \/ Len(hist) = HistCap)
    BY <1>1, <1>5, Zenon DEF CssTypes
  <2> QED BY <1>6, <2>1, <2>2 DEF UndoesByRule
<1>8. ~sp => /\ req[o].val # NoValue => Looks'[req[o].elem] = req[o].val
             /\ \A x \in Elem \ {req[o].elem} : Looks'[x] = Looks[x]
  BY <1>1, <1>2, <1>3, <1>4, LookAfterRule
<1>9. rule' \in Shown /\ inline' \in [Elem -> Shown]
  BY <1>1, <1>3 DEF CssTypes
<1>10. (evicted => ev) /\ (spread => sp) /\ (~ev => h = hist)
  BY <1>4, <1>5, <1>6
<1> QED BY <1>1, <1>3, <1>6, <1>7, <1>8, <1>9, <1>10, UndoKeeps

(* undoModification, on the element itself.                                 *)
LEMMA UndoesInlineKeeps ==
  ASSUME CssInv, NEW o \in CssReq, NEW h \in {hist, Repopped}, UndoesInline(o, h)
  PROVE  CssInv'
<1>1. CssTypes /\ req[o] \in Requests /\ req[o].kind = "undo"
  BY KindIsBusy DEF CssInv, UndoesInline
<1>2. PICK e \in Elem, v \in Shown : e = req[o].elem /\ v = req[o].val
  BY <1>1, RequestParts
<1>3. rule' = rule /\ inline' = Inlined(e, v) /\ pushed' \in 0..MaxMods
  BY <1>1, <1>2 DEF UndoesInline, CssTypes
<1>4. PICK ev \in BOOLEAN : ev <=> (evicted \/ h # hist)
  OBVIOUS
<1>5. /\ h \in Seq(Entries) /\ Len(h) \in 0..HistCap
      /\ \A j \in 1..Len(h) : \E k \in 1..Len(hist) : h[j] = hist[k]
  <2>1. CASE h = hist
    BY <1>1, <2>1 DEF CssTypes
  <2>2. CASE h = Repopped
    BY <1>1, <2>2, RepoppedIs
  <2> QED BY <2>1, <2>2
<1>6. Settles(o, LeavesEntry(req[o].idx, h), ev, spread, muddled \/ UndoneLater(o))
  <2>1. ev = (evicted \/ h # hist)
    BY <1>1, <1>4, Zenon DEF CssTypes
  <2> QED BY <2>1 DEF UndoesInline
<1>7. /\ inline' \in [Elem -> Shown]
      /\ req[o].val # NoValue => Looks'[req[o].elem] = req[o].val
      /\ \A x \in Elem \ {req[o].elem} : Looks'[x] = Looks[x]
  BY <1>1, <1>2, <1>3, LookAfterInline
<1>8. rule' \in Shown /\ spread \in BOOLEAN
  BY <1>1, <1>3 DEF CssTypes
<1>9. (evicted => ev) /\ (~ev => h = hist)
  BY <1>4
<1> QED BY <1>1, <1>3, <1>5, <1>6, <1>7, <1>8, <1>9, UndoKeeps

(* A reset that has gone through the whole history has every element look   *)
(* as before.                                                               *)
LEMMA ResetIsBack ==
  ASSUME CssInv, Clean, NEW o \in CssReq, req[o].kind = "reset", req[o].idx = 0, NEW e \in Elem
  PROVE  Looks[e] = base[e]
<1>1. CssTypes /\ IsBusy(o)
  BY KindIsBusy DEF CssInv
<1>2. RewindsTo(hist, base, Looks) /\ Agrees(o)
  BY <1>1 DEF CssInv
<1>3. PICK n \in Nat : n = Len(hist) /\ hist \in Seq(Entries)
  BY <1>1, LenProperties DEF CssTypes
<1>4. CASE NoneOf(hist, e)
  BY <1>2, <1>4 DEF RewindsTo
<1>5. CASE ~NoneOf(hist, e)
  <2>1. PICK i \in 1..n : hist[i].elem = e /\ IsFirst(hist, i)
    BY <1>3, <1>5, FirstExists
  <2>2. hist[i].old = base[e]
    BY <1>2, <1>3, <2>1 DEF RewindsTo
  <2>3. i > 0 /\ \A j \in 1..n : hist[j].elem = hist[i].elem => i <= j
    BY <1>3, <2>1 DEF IsFirst
  <2>4. IsFirstDone(i, 0)
    BY <1>3, <2>3 DEF IsFirstDone
  <2>5. Looks[hist[i].elem] = hist[i].old
    BY <1>2, <1>3, <2>4 DEF Agrees
  <2> QED BY <2>1, <2>2, <2>5
<1> QED BY <1>4, <1>5

(* resetModifications empties the history.                                  *)
LEMMA ResetEndsKeeps == ASSUME CssInv, NEW o \in CssReq, ResetEnds(o) PROVE CssInv'
<1>1. CssTypes /\ IsBusy(o) /\ req[o].kind = "reset" /\ req[o].idx = 0
  BY KindIsBusy DEF CssInv, ResetEnds
<1>2. /\ rule' = rule /\ inline' = inline /\ pushed' = pushed
      /\ Settles(o, <<>>, evicted, spread, muddled)
  BY DEF ResetEnds, pageStyle
<1>3. Looks' = Looks
  BY <1>2 DEF Looks, Look, LookUnder
<1>4. <<>> \in Seq(Entries) /\ Len(<<>>) = 0 /\ 0 \in 0..HistCap
  BY EmptySeq, InspectorAssumption
<1>5. ASSUME ~evicted, ~spread, ~muddled PROVE RewindsTo(<<>>, base, Looks')
  <2>1. \A e \in Elem : Looks[e] = base[e]
    BY <1>1, <1>5, ResetIsBack DEF Clean
  <2> QED BY <1>3, <2>1 DEF RewindsTo
<1>6. /\ rule' \in Shown /\ inline' \in [Elem -> Shown] /\ pushed' \in 0..MaxMods
      /\ evicted \in BOOLEAN /\ spread \in BOOLEAN /\ muddled \in BOOLEAN
  BY <1>1, <1>2 DEF CssTypes
<1>7. PICK h : h = <<>>
  OBVIOUS
<1>8. /\ h \in Seq(Entries) /\ Len(h) \in 0..HistCap /\ \A i \in 1..Len(h) : h[i].old # NoValue
      /\ Settles(o, h, evicted, spread, muddled)
  BY <1>2, <1>4, <1>7
<1>9. ~evicted /\ ~spread /\ ~muddled => RewindsTo(h, base, Looks')
  BY <1>5, <1>7
<1> QED BY <1>1, <1>6, <1>8, <1>9, SettlesKeeps

(* A request that has started, with the history as it was.                  *)
LEMMA StartsKeeps ==
  ASSUME CssInv, NEW o \in CssReq, NEW kind \in {"inspect", "undo", "reset"}, NEW e \in Elem,
         NEW v \in Shown, NEW i \in Nat, NEW how \in {"rule", "inline"},
         StartsOp(o, kind, e, v, i, how), kind = "undo" => i >= 1,
         kind = "undo" => i \in 1..Len(hist) /\ hist[i].elem = e /\ hist[i].old = v,
         kind = "reset" => i = Len(hist)
  PROVE  CssInv'
<1>1. CssTypes /\ ~IsBusy(o)
  BY DEF CssInv, StartsOp
<1>2. PICK r : r = [kind |-> kind, elem |-> e, val |-> v, old |-> NoValue, idx |-> i, how |-> how]
  OBVIOUS
<1>3. /\ r \in Requests /\ r.kind = kind /\ r.elem = e /\ r.val = v /\ r.idx = i
  BY <1>2 DEF Requests, Shown
<1>4. /\ req' = [req EXCEPT ![o] = r] /\ rule' = rule /\ inline' = inline /\ hist' = hist
      /\ pushed' = pushed /\ base' = base /\ evicted' = evicted /\ spread' = spread
      /\ muddled' = (muddled \/ ~Alone(o))
  BY <1>2 DEF StartsOp, pageStyle
<1>5. /\ req' \in [CssReq -> Requests \cup {NoReq}] /\ req'[o] = r
      /\ \A p \in CssReq \ {o} : req'[p] = req[p]
  BY <1>1, <1>3, <1>4 DEF CssTypes
<1>6. muddled' \in BOOLEAN
  BY <1>4, Zenon
<1>7. CssTypes'
  BY <1>1, <1>4, <1>5, <1>6 DEF CssTypes
<1>8. ~muddled' => ~muddled /\ Alone(o)
  BY <1>4, Zenon
<1>9. ~muddled' => \A p \in CssReq : IsBusy(p)' => p = o
  <2>1. SUFFICES ASSUME ~muddled', NEW p \in CssReq, p # o PROVE ~IsBusy(p)'
    OBVIOUS
  <2>2. ~IsBusy(p)
    BY <1>8, <2>1 DEF Alone
  <2> QED BY <1>5, <2>1, <2>2 DEF IsBusy
<1>10. OneAtATime'
  BY <1>9 DEF OneAtATime
<1>11. KnownOlds'
  BY <1>4, <1>8 DEF CssInv, KnownOlds
<1>12. Looks' = Looks
  BY <1>4 DEF Looks, Look, LookUnder
<1>13. Clean' => Clean
  BY <1>4, <1>8 DEF Clean
<1>14. Clean' => RewindsTo(hist, base, Looks)'
  BY <1>4, <1>12, <1>13 DEF CssInv, RewindsTo, NoneOf, IsFirst
<1>15. Agrees(o)'
  <2>1. PICK n \in Nat : n = Len(hist)
    BY <1>1, LenProperties DEF CssTypes
  <2>2. kind = "reset" => \A j \in 1..Len(hist) : ~(j > i)
    BY <2>1
  <2>3. kind = "reset" => i \in 0..Len(hist)
    BY <2>1
  <2> QED BY <1>3, <1>4, <1>5, <2>2, <2>3 DEF Agrees, IsFirstDone
<1>16. Clean' => \A p \in CssReq : IsBusy(p)' => Agrees(p)'
  BY <1>9, <1>15 DEF Clean
<1> QED BY <1>7, <1>10, <1>11, <1>14, <1>16 DEF CssInv

(* style, undo and reset, as they are called.                               *)
LEMMA CallsKeep ==
  ASSUME CssInv, NEW o \in CssReq, StartsModify(o) \/ StartsUndo(o) \/ StartsReset(o)
  PROVE  CssInv'
<1>1. CssTypes
  BY DEF CssInv
<1>2. PICK n \in Nat : n = Len(hist) /\ hist \in Seq(Entries)
  BY <1>1, LenProperties DEF CssTypes
<1>3. \A i \in 1..n : hist[i].elem \in Elem /\ hist[i].old \in Shown /\ hist[i].how \in {"rule", "inline"}
  <2>1. \A i \in 1..n : hist[i] \in Entries
    BY <1>2, ElementOfSeq
  <2> QED BY <2>1 DEF Entries
<1>4. NoValue \in Shown /\ Value \subseteq Shown
  BY DEF Shown
<1>5. CASE StartsModify(o)
  <2>1. PICK e \in Elem, v \in Value : StartsOp(o, "inspect", e, v, 0, "inline")
    BY <1>5 DEF StartsModify
  <2> QED BY <1>4, <2>1, StartsKeeps
<1>6. CASE StartsUndo(o)
  <2>1. PICK i \in 1..n : StartsOp(o, "undo", hist[i].elem, hist[i].old, i, hist[i].how)
    BY <1>2, <1>6 DEF StartsUndo
  <2>2. PICK e \in Elem, v \in Shown, how \in {"rule", "inline"} :
          e = hist[i].elem /\ v = hist[i].old /\ how = hist[i].how
    BY <1>3
  <2>3. i \in Nat /\ i >= 1
    OBVIOUS
  <2> QED BY <1>2, <2>1, <2>2, <2>3, StartsKeeps
<1>7. CASE StartsReset(o)
  <2>1. hist # <<>> /\ StartsOp(o, "reset", hist[1].elem, NoValue, n, "inline")
    BY <1>2, <1>7 DEF StartsReset
  <2>2. n # 0
    BY <1>2, <2>1, EmptySeq
  <2>3. PICK e \in Elem : e = hist[1].elem
    BY <1>3, <2>2
  <2> QED BY <1>2, <1>4, <2>1, <2>3, StartsKeeps
<1> QED BY <1>5, <1>6, <1>7

(* inspectElement: the value remembered is the one shown, or unknown.       *)
LEMMA InspectsKeeps ==
  ASSUME CssInv, NEW o \in CssReq, NEW known \in BOOLEAN, Inspects(o, known)
  PROVE  CssInv'
<1>1. CssTypes /\ IsBusy(o) /\ req[o] \in Requests
  BY KindIsBusy DEF CssInv, Inspects
<1>2. PICK was \in Requests : was = req[o]
  BY <1>1
<1>3. was.elem \in Elem
  BY RequestParts
<1>4. PICK v \in Shown : v = IF known THEN Look(was.elem) ELSE NoValue
  BY <1>1, <1>3, LookIs DEF Shown
<1>5. PICK r : r = [was EXCEPT !.kind = "set", !.old = v]
  OBVIOUS
<1>6. r \in Requests /\ r.kind = "set" /\ r.elem = was.elem /\ r.old = v
  BY <1>5 DEF Requests
<1>7. /\ req' = [req EXCEPT ![o] = r] /\ rule' = rule /\ inline' = inline /\ hist' = hist
      /\ pushed' = pushed /\ base' = base /\ evicted' = evicted /\ spread' = spread
      /\ muddled' = muddled
  BY <1>2, <1>4, <1>5 DEF Inspects, pageStyle, account
<1>8. /\ req' \in [CssReq -> Requests \cup {NoReq}] /\ req'[o] = r
      /\ \A p \in CssReq \ {o} : req'[p] = req[p]
  BY <1>1, <1>6, <1>7 DEF CssTypes
<1>9. CssTypes'
  BY <1>1, <1>7, <1>8 DEF CssTypes
<1>10. \A p \in CssReq : IsBusy(p)' => IsBusy(p)
  BY <1>1, <1>8 DEF IsBusy
<1>11. OneAtATime' /\ KnownOlds'
  BY <1>7, <1>10 DEF CssInv, OneAtATime, KnownOlds
<1>12. Looks' = Looks
  BY <1>7 DEF Looks, Look, LookUnder
<1>13. Clean' => Clean
  BY <1>7 DEF Clean
<1>14. Clean' => RewindsTo(hist, base, Looks)'
  BY <1>7, <1>12, <1>13 DEF CssInv, RewindsTo, NoneOf, IsFirst
<1>15. Agrees(o)'
  <2>1. r.old = NoValue \/ r.old = Looks[r.elem]
    BY <1>1, <1>3, <1>4, <1>6, LookIs
  <2> QED BY <1>6, <1>8, <1>12, <2>1 DEF Agrees
<1>16. Clean' => \A p \in CssReq : IsBusy(p)' => Agrees(p)'
  <2>1. Clean' => \A p \in CssReq : IsBusy(p) => p = o
    BY <1>1, <1>13 DEF CssInv, OneAtATime, Clean
  <2> QED BY <1>10, <1>15, <2>1
<1> QED BY <1>9, <1>11, <1>14, <1>16 DEF CssInv

(* resetModifications, one entry: the entries gone through are shown, the   *)
(* earlier entry of an element in place of its later ones.                  *)
LEMMA ResetsOneKeeps == ASSUME CssInv, NEW o \in CssReq, ResetsOne(o) PROVE CssInv'
<1>1. CssTypes /\ IsBusy(o) /\ req[o] \in Requests /\ req[o].kind = "reset"
  BY KindIsBusy DEF CssInv, ResetsOne
<1>2. PICK i \in Nat : i = req[o].idx /\ i > 0
  BY <1>1, RequestParts DEF ResetsOne
<1>3. PICK n \in Nat : n = Len(hist) /\ hist \in Seq(Entries)
  BY <1>1, LenProperties DEF CssTypes
<1>4. \A j \in 1..n : hist[j].elem \in Elem /\ hist[j].old \in Shown
  <2>1. \A j \in 1..n : hist[j] \in Entries
    BY <1>3, ElementOfSeq
  <2> QED BY <2>1 DEF Entries
<1>5. PICK was \in Requests : was = req[o]
  BY <1>1
<1>6. PICK r : r = [was EXCEPT !.idx = i - 1]
  OBVIOUS
<1>7. r \in Requests /\ r.kind = "reset" /\ r.idx = i - 1
  BY <1>1, <1>2, <1>5, <1>6 DEF Requests
<1>8. /\ req' = [req EXCEPT ![o] = r] /\ rule' = rule /\ hist' = hist
      /\ pushed' = pushed /\ base' = base /\ evicted' = evicted /\ spread' = spread
      /\ muddled' = muddled
      /\ IF i <= n THEN inline' = Inlined(hist[i].elem, hist[i].old) ELSE inline' = inline
  BY <1>2, <1>3, <1>5, <1>6 DEF ResetsOne, account
<1>9. /\ req' \in [CssReq -> Requests \cup {NoReq}] /\ req'[o] = r
      /\ \A p \in CssReq \ {o} : req'[p] = req[p]
  BY <1>1, <1>7, <1>8 DEF CssTypes
<1>10. CASE i <= n
  <2>1. PICK e \in Elem, v \in Shown : e = hist[i].elem /\ v = hist[i].old
    BY <1>2, <1>4, <1>10
  <2>2. /\ inline' \in [Elem -> Shown]
        /\ v # NoValue => Looks'[e] = v
        /\ \A x \in Elem \ {e} : Looks'[x] = Looks[x]
    BY <1>1, <1>8, <1>10, <2>1, LookAfterInline
  <2>3. CssTypes'
    <3>1. /\ rule' = rule /\ hist' = hist /\ pushed' = pushed /\ base' = base
          /\ evicted' = evicted /\ spread' = spread /\ muddled' = muddled
      BY <1>8
    <3>2. inline' \in [Elem -> Shown]
      BY <2>2
    <3> QED BY <1>1, <1>9, <3>1, <3>2 DEF CssTypes
  <2>4. \A p \in CssReq : IsBusy(p)' => IsBusy(p)
    BY <1>1, <1>9 DEF IsBusy
  <2>5. OneAtATime' /\ KnownOlds'
    BY <1>8, <2>4 DEF CssInv, OneAtATime, KnownOlds
  <2>6. Clean' => Clean
    BY <1>8 DEF Clean
  <2>7. PICK now : now = Looks'
    OBVIOUS
  <2>8. Clean' => RewindsTo(hist, base, Looks)'
    <3>1. SUFFICES ASSUME Clean, NEW x \in Elem
                   PROVE  /\ NoneOf(hist, x) => now[x] = base[x]
                          /\ \A j \in 1..n : hist[j].elem = x /\ IsFirst(hist, j) => hist[j].old = base[x]
      BY <1>3, <1>8, <2>6, <2>7 DEF RewindsTo, NoneOf, IsFirst
    <3>2. /\ NoneOf(hist, x) => Looks[x] = base[x]
          /\ \A j \in 1..n : hist[j].elem = x /\ IsFirst(hist, j) => hist[j].old = base[x]
      BY <1>3, <3>1 DEF CssInv, RewindsTo
    <3>3. NoneOf(hist, x) => x # e
      BY <1>2, <1>3, <1>10, <2>1 DEF NoneOf
    <3> QED BY <2>2, <2>7, <3>2, <3>3
  <2>9. Clean' => Agrees(o)'
    <3>1. SUFFICES ASSUME Clean
                   PROVE  /\ i - 1 \in 0..n
                          /\ \A j \in 1..n : IsFirstDone(j, i - 1) => now[hist[j].elem] = hist[j].old
      BY <1>3, <1>7, <1>8, <1>9, <2>6, <2>7 DEF Agrees, IsFirstDone
    <3>2. \A j \in 1..n : IsFirstDone(j, i) => Looks[hist[j].elem] = hist[j].old
      BY <1>1, <1>2, <1>3, <3>1 DEF CssInv, Agrees
    <3>3. v # NoValue
      BY <1>2, <1>3, <1>10, <2>1, <3>1 DEF CssInv, KnownOlds, Clean
    <3>4. ASSUME NEW j \in 1..n, IsFirstDone(j, i - 1) PROVE now[hist[j].elem] = hist[j].old
      <4>1. j > i - 1 /\ \A k \in 1..n : k > i - 1 /\ hist[k].elem = hist[j].elem => j <= k
        BY <1>3, <3>4 DEF IsFirstDone
      <4>2. CASE j = i
        <5>1. hist[j].elem = e /\ hist[j].old = v
          BY <2>1, <4>2
        <5>2. now[e] = v
          BY <2>2, <2>7, <3>3
        <5> QED BY <5>1, <5>2
      <4>3. CASE j # i
        <5>1. j > i /\ i \in 1..n /\ i > i - 1 /\ ~(j <= i)
          BY <1>2, <1>10, <4>1, <4>3
        <5>2. hist[j].elem # hist[i].elem
          BY <4>1, <5>1
        <5>3. \A k \in 1..n : k > i /\ hist[k].elem = hist[j].elem => j <= k
          BY <1>2, <4>1
        <5>4. IsFirstDone(j, i)
          BY <1>3, <5>1, <5>3 DEF IsFirstDone
        <5> QED BY <1>4, <2>1, <2>2, <2>7, <3>2, <5>2, <5>4
      <4> QED BY <4>2, <4>3
    <3>5. i - 1 \in 0..n
      BY <1>2, <1>10
    <3> QED BY <3>4, <3>5
  <2>10. Clean' => \A p \in CssReq : IsBusy(p)' => Agrees(p)'
    <3>1. Clean' => \A p \in CssReq : IsBusy(p) => p = o
      BY <1>1, <2>6 DEF CssInv, OneAtATime, Clean
    <3> QED BY <2>4, <2>9, <3>1
  <2> QED BY <2>3, <2>5, <2>8, <2>10 DEF CssInv
<1>11. CASE ~(i <= n)
  <2>1. inline' = inline
    BY <1>8, <1>11
  <2>2. CssTypes'
    BY <1>1, <1>8, <1>9, <2>1 DEF CssTypes
  <2>3. \A p \in CssReq : IsBusy(p)' => IsBusy(p)
    BY <1>1, <1>9 DEF IsBusy
  <2>4. OneAtATime' /\ KnownOlds'
    BY <1>8, <2>3 DEF CssInv, OneAtATime, KnownOlds
  <2>5. Clean' => FALSE
    <3>1. Clean => Agrees(o)
      BY <1>1 DEF CssInv
    <3>2. Clean => i \in 0..n
      BY <1>1, <1>2, <1>3, <3>1 DEF Agrees
    <3>3. Clean' => Clean
      BY <1>8 DEF Clean
    <3> QED BY <1>11, <3>2, <3>3
  <2> QED BY <2>2, <2>4, <2>5 DEF CssInv
<1> QED BY <1>10, <1>11

(* A failed request leaves the styles and the history alone.                *)
LEMMA FailsKeeps == ASSUME CssInv, NEW o \in CssReq, FailsOp(o) PROVE CssInv'
<1>1. CssTypes
  BY DEF CssInv
<1>2. /\ req' = [req EXCEPT ![o] = NoReq] /\ rule' = rule /\ inline' = inline /\ hist' = hist
      /\ pushed' = pushed /\ base' = base /\ evicted' = evicted /\ spread' = spread
      /\ muddled' = muddled
  BY DEF FailsOp, pageStyle, account
<1>3. req' \in [CssReq -> Requests \cup {NoReq}] /\ \A p \in CssReq : req'[p] = NoReq \/ req'[p] = req[p]
  BY <1>1, <1>2 DEF CssTypes
<1>4. CssTypes'
  BY <1>1, <1>2, <1>3 DEF CssTypes
<1>5. \A p \in CssReq : IsBusy(p)' => IsBusy(p) /\ req'[p] = req[p]
  BY <1>3 DEF IsBusy
<1>6. OneAtATime' /\ KnownOlds'
  BY <1>2, <1>5 DEF CssInv, OneAtATime, KnownOlds
<1>7. Looks' = Looks
  BY <1>2 DEF Looks, Look, LookUnder
<1>8. Clean' => Clean
  BY <1>2 DEF Clean
<1>9. Clean' => RewindsTo(hist, base, Looks)'
  BY <1>2, <1>7, <1>8 DEF CssInv, RewindsTo, NoneOf, IsFirst
<1>10. ASSUME Clean', NEW p \in CssReq, IsBusy(p)' PROVE Agrees(p)'
  <2>1. Agrees(p) /\ req'[p] = req[p]
    BY <1>5, <1>8, <1>10 DEF CssInv
  <2> QED BY <1>2, <1>7, <2>1 DEF Agrees, IsFirstDone
<1> QED BY <1>4, <1>6, <1>9, <1>10 DEF CssInv

(* Another document: a new account if nothing is remembered of the old one, *)
(* none to trust otherwise.                                                 *)
LEMMA OtherDocumentKeeps == ASSUME CssInv, OtherDocument PROVE CssInv'
<1>1. CssTypes
  BY DEF CssInv
<1>2. /\ rule' = FirstRule /\ inline' = [e \in Elem |-> NoValue] /\ hist' = hist /\ pushed' = pushed
      /\ req' = req /\ evicted' = evicted /\ spread' = spread
      /\ muddled' = (hist # <<>> \/ \E o \in CssReq : IsBusy(o))
      /\ base' = Looks'
  BY DEF OtherDocument, Looks, Look
<1>3. muddled' \in BOOLEAN
  BY <1>2, Zenon
<1>4. base' \in [Elem -> Shown]
  BY <1>2 DEF Looks, Look, LookUnder, Shown
<1>5. CssTypes'
  BY <1>1, <1>2, <1>3, <1>4 DEF CssTypes, Shown
<1>6. ~muddled' => hist' = <<>> /\ \A o \in CssReq : ~IsBusy(o)'
  BY <1>2, Zenon DEF IsBusy
<1>7. OneAtATime' /\ KnownOlds'
  BY <1>6 DEF OneAtATime, KnownOlds
<1>8. Clean' => RewindsTo(hist, base, Looks)'
  BY <1>2, <1>6 DEF RewindsTo, NoneOf, Clean
<1> QED BY <1>5, <1>6, <1>7, <1>8 DEF CssInv, Clean

(* At the start there is nothing to lead back.                              *)
LEMMA CssInvInit == CssInit => CssInv
<1> SUFFICES ASSUME CssInit PROVE CssInv
  OBVIOUS
<1>1. <<>> \in Seq(Entries) /\ Len(<<>>) = 0 /\ 0 \in 0..HistCap
  BY EmptySeq, InspectorAssumption
<1>2. base \in [Elem -> Shown]
  BY DEF CssInit, Looks, Look, LookUnder, Shown
<1>3. CssTypes
  <2>1. hist \in Seq(Entries) /\ Len(hist) \in 0..HistCap
    BY <1>1 DEF CssInit
  <2>2. rule \in Shown /\ inline \in [Elem -> Shown] /\ req \in [CssReq -> Requests \cup {NoReq}]
    BY DEF CssInit, Shown
  <2>3. pushed \in 0..MaxMods
    BY InspectorAssumption DEF CssInit
  <2> QED BY <1>2, <2>1, <2>2, <2>3 DEF CssInit, CssTypes
<1>4. \A o \in CssReq : ~IsBusy(o)
  BY DEF CssInit, IsBusy
<1>5. OneAtATime /\ KnownOlds
  BY <1>1, <1>4 DEF CssInit, OneAtATime, KnownOlds
<1>6. RewindsTo(hist, base, Looks)
  BY <1>1 DEF CssInit, RewindsTo, NoneOf
<1> QED BY <1>3, <1>4, <1>5, <1>6 DEF CssInv

(* Every step keeps the invariant.                                          *)
LEMMA CssInvNext == CssInv /\ [CssNext]_cssVars => CssInv'
<1> SUFFICES ASSUME CssInv, [CssNext]_cssVars PROVE CssInv'
  OBVIOUS
<1>1. CASE UNCHANGED cssVars
  BY <1>1 DEF cssVars, CssInv, CssTypes, OneAtATime, KnownOlds, Clean, RewindsTo, NoneOf, IsFirst,
              Looks, Look, LookUnder, Agrees, IsFirstDone, IsBusy
<1>2. ASSUME NEW o \in CssReq, StartsModify(o) \/ StartsUndo(o) \/ StartsReset(o) PROVE CssInv'
  BY <1>2, CallsKeep
<1>3. ASSUME NEW o \in CssReq, NEW known \in BOOLEAN, Inspects(o, known) PROVE CssInv'
  BY <1>3, InspectsKeeps
<1>4. ASSUME NEW o \in CssReq, SetsRule(o) PROVE CssInv'
  BY <1>4, SetsRuleKeeps
<1>5. ASSUME NEW o \in CssReq, SetsInline(o) PROVE CssInv'
  BY <1>5, SetsInlineKeeps
<1>6. ASSUME NEW o \in CssReq, UndoesByRule(o) PROVE CssInv'
  BY <1>6, UndoesByRuleKeeps
<1>7. ASSUME NEW o \in CssReq, NEW h \in {hist, Repopped}, UndoesInline(o, h) PROVE CssInv'
  BY <1>7, UndoesInlineKeeps
<1>8. ASSUME NEW o \in CssReq, ResetsOne(o) PROVE CssInv'
  BY <1>8, ResetsOneKeeps
<1>9. ASSUME NEW o \in CssReq, ResetEnds(o) PROVE CssInv'
  BY <1>9, ResetEndsKeeps
<1>10. ASSUME NEW o \in CssReq, FailsOp(o) PROVE CssInv'
  BY <1>10, FailsKeeps
<1>11. CASE OtherDocument
  BY <1>11, OtherDocumentKeeps
<1> QED BY <1>1, <1>2, <1>3, <1>4, <1>5, <1>6, <1>7, <1>8, <1>9, <1>10, <1>11 DEF CssNext

(* The oldest entry of an element is its first one.                         *)
LEMMA CssInvRewinds == CssInv => CssTypeOK /\ HistoryRewinds
<1> SUFFICES ASSUME CssInv PROVE CssTypeOK /\ HistoryRewinds
  OBVIOUS
<1>1. CssTypes
  BY DEF CssInv
<1>2. CssTypeOK
  <2>1. Len(hist) <= HistCap
    <3>1. PICK n \in Nat : n = Len(hist) /\ n \in 0..HistCap /\ HistCap \in Nat
      BY <1>1, LenProperties, InspectorAssumption DEF CssTypes
    <3>2. n <= HistCap
      BY <3>1
    <3> QED BY <3>1, <3>2
  <2> QED BY <1>1, <2>1 DEF CssTypes, CssTypeOK, Shown
<1>3. ASSUME Clean, NEW e \in Elem PROVE OldestOf(e) = base[e]
  <2>1. RewindsTo(hist, base, Looks) /\ Looks[e] = Look(e)
    BY <1>1, <1>3, LookIs DEF CssInv
  <2>2. PICK n \in Nat : n = Len(hist) /\ hist \in Seq(Entries)
    BY <1>1, LenProperties DEF CssTypes
  <2>3. PICK mine : mine = {i \in 1..n : hist[i].elem = e}
    OBVIOUS
  <2>4. OldestOf(e) = IF mine = {} THEN Look(e) ELSE hist[CHOOSE i \in mine : \A j \in mine : i <= j].old
    BY <2>2, <2>3 DEF OldestOf
  <2>5. CASE mine = {}
    <3>1. NoneOf(hist, e)
      BY <2>2, <2>3, <2>5 DEF NoneOf
    <3> QED BY <2>1, <2>4, <2>5, <3>1 DEF RewindsTo
  <2>6. CASE mine # {}
    <3>1. \E m \in mine : \A j \in mine : m <= j
      BY <2>3, <2>6, LeastIndex
    <3>2. PICK m \in mine : m = (CHOOSE i \in mine : \A j \in mine : i <= j) /\ \A j \in mine : m <= j
      BY <3>1
    <3>3. m \in 1..n /\ hist[m].elem = e /\ \A j \in 1..n : hist[j].elem = e => m <= j
      BY <2>3, <3>2
    <3>4. IsFirst(hist, m)
      BY <2>2, <3>3 DEF IsFirst
    <3>5. hist[m].old = base[e]
      BY <2>1, <2>2, <3>3, <3>4 DEF RewindsTo
    <3> QED BY <2>4, <2>6, <3>2, <3>5
  <2> QED BY <2>5, <2>6
<1>4. HistoryRewinds
  BY <1>3 DEF HistoryRewinds, Clean
<1> QED BY <1>2, <1>4

(* When a reset empties the history, every element looks as before.         *)
LEMMA CssInvResets ==
  CssInv => \A o \in CssReq : IsReset(o) /\ ~evicted /\ ~spread /\ ~muddled => Looks = base
<1> SUFFICES ASSUME CssInv, NEW o \in CssReq, IsReset(o), Clean PROVE Looks = base
  BY DEF Clean
<1>1. \A e \in Elem : Looks[e] = base[e]
  BY ResetIsBack DEF IsReset
<1>2. base \in [Elem -> Shown]
  BY DEF CssInv, CssTypes
<1>3. Looks = [e \in Elem |-> Looks[e]] /\ base = [e \in Elem |-> base[e]]
  BY <1>2 DEF Looks
<1> QED BY <1>1, <1>3

(* The history of style changes leads back to what the page looked like, by *)
(* undos or by a reset, for any elements, rules, requests and cap.          *)
THEOREM StylesCorrectHolds == CssSpec => StylesCorrect
<1>1. CssSpec => []CssInv
  BY CssInvInit, CssInvNext, PTL DEF CssSpec
<1>2. CssInv /\ [CssNext]_cssVars =>
        [\A o \in CssReq : IsReset(o) /\ ~evicted /\ ~spread /\ ~muddled => Looks = base]_cssVars
  BY CssInvResets
<1> QED BY <1>1, <1>2, CssInvRewinds, PTL DEF CssSpec, StylesCorrect, ResetRestores
=============================================================================
