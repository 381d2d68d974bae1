------------------------------ MODULE CdpBridge ------------------------------
(***************************************************************************)
(* dispatchCdpCall (cdp-bridge.ts) over the two-tier lock: acquire the     *)
(* lock of the method's scope, find the page, get or create its cached CDP *)
(* session, send the command, race the answer against CDP_TIMEOUT_MS, and  *)
(* release in `finally`.  Chromium keeps executing a command whose caller  *)
(* gave up; tabs close at any moment.                                      *)
(***************************************************************************)
EXTENDS CdpMutex, Naturals

CONSTANT MaxSessions   \* bound: CDP sessions opened per page

ASSUME SessionsBounded == MaxSessions \in Nat

VARIABLES target,    \* target[r]: the tab of the call
          pc,        \* entry, creating, sending, over: where the holder is
          open,      \* tabs whose page exists
          cached,    \* tabs with an entry in sessionCache
          attached,  \* attached[t]: sessions opened on t's page
          executing  \* commands Chromium has received and not finished

bridgeVars == <<target, pc, open, cached, attached, executing>>
allVars == <<vars, bridgeVars>>

BridgeInit ==
  /\ Init
  /\ target    \in [Request -> Tab]
  /\ pc        = [r \in Request |-> "entry"]
  /\ open      = Tab
  /\ cached    = {}
  /\ attached  = [t \in Tab |-> 0]
  /\ executing = {}

(* The allow-listed method's scope picks the tier                           *)
Dispatch(r) ==
  /\ AcquireTabLock(r, target[r]) \/ AcquireGlobalCdpLock(r)
  /\ UNCHANGED bridgeVars

PromiseSettles(r) == Settle(r) /\ UNCHANGED bridgeVars
AcquireTimesOut(r) ==
  /\ Timeout(r)
  /\ pc' = [pc EXCEPT ![r] = "over"]
  /\ UNCHANGED <<target, open, cached, attached, executing>>

Send(r) == /\ pc' = [pc EXCEPT ![r] = "sending"]
           /\ executing' = executing \cup {r}

(* Lock acquired; what runs up to the next await: no page throws, a cached  *)
(* session sends at once, otherwise a session is requested.                 *)
Enter(r) ==
  /\ Grant(r)
  /\ \/ /\ target[r] \notin open
        /\ pc' = [pc EXCEPT ![r] = "over"]
        /\ UNCHANGED executing
     \/ /\ target[r] \in open \cap cached
        /\ Send(r)
     \/ /\ target[r] \in open \ cached
        /\ pc' = [pc EXCEPT ![r] = "creating"]
        /\ UNCHANGED executing
  /\ UNCHANGED <<target, open, cached, attached>>

(* newCDPSession returned: cache it, hook the page's close, send; or it     *)
(* threw (CDPSessionInvalidated).                                           *)
SessionCreatedWithoutCaching(r) ==
  /\ pc[r] = "creating" /\ status[r] = "held"
  /\ target[r] \in open /\ attached[target[r]] < MaxSessions
  /\ attached' = [attached EXCEPT ![target[r]] = @ + 1]
  /\ Send(r)
  /\ UNCHANGED <<vars, target, open, cached>>

SessionCreated(r) ==
  /\ pc[r] = "creating" /\ status[r] = "held"
  /\ \/ /\ target[r] \in open
        /\ attached[target[r]] < MaxSessions
        /\ attached' = [attached EXCEPT ![target[r]] = @ + 1]
        /\ cached' = cached \cup {target[r]}
        /\ Send(r)
     \/ /\ pc' = [pc EXCEPT ![r] = "over"]
        /\ UNCHANGED <<attached, cached, executing>>
  /\ UNCHANGED <<vars, target, open>>

(* The answer (or a protocol error) arrives while the caller waits for it   *)
Answer(r) ==
  /\ pc[r] = "sending" /\ r \in executing
  /\ pc' = [pc EXCEPT ![r] = "over"]
  /\ executing' = executing \ {r}
  /\ UNCHANGED <<vars, target, open, cached, attached>>

(* CDPBridgeTimeout: the caller stops waiting, Chromium does not stop       *)
SendTimesOut(r) ==
  /\ pc[r] = "sending" /\ Quiet
  /\ pc' = [pc EXCEPT ![r] = "over"]
  /\ UNCHANGED <<vars, target, open, cached, attached, executing>>

(* The `finally`, reached by a result and by every throw                    *)
FinallyWithoutThrows(r) ==
  /\ pc[r] = "over" /\ target[r] \in open
  /\ Release(r)
  /\ UNCHANGED bridgeVars

FinallyWithoutAwait(r) ==
  /\ pc[r] \in {"sending", "over"}
  /\ Release(r)
  /\ UNCHANGED bridgeVars

Finally(r) ==
  /\ pc[r] = "over"
  /\ Release(r)
  /\ UNCHANGED bridgeVars

(* Chromium finishes a command nobody waits for                             *)
LateAnswer(r) ==
  /\ r \in executing /\ pc[r] = "over"
  /\ executing' = executing \ {r}
  /\ UNCHANGED <<vars, target, pc, open, cached, attached>>

(* The page closes: the close hook drops the cache entry and detaches, and  *)
(* commands in flight on it are rejected.                                   *)
PageClosesWithoutHook(t) ==
  /\ t \in open
  /\ open'      = open \ {t}
  /\ attached'  = [attached EXCEPT ![t] = 0]
  /\ executing' = {r \in executing : target[r] # t}
  /\ pc' = [r \in Request |->
              IF pc[r] = "sending" /\ target[r] = t THEN "over" ELSE pc[r]]
  /\ UNCHANGED <<vars, target, cached>>

PageCloses(t) ==
  /\ t \in open
  /\ open'      = open \ {t}
  /\ cached'    = cached \ {t}
  /\ attached'  = [attached EXCEPT ![t] = 0]
  /\ executing' = {r \in executing : target[r] # t}
  /\ pc' = [r \in Request |->
              IF pc[r] = "sending" /\ target[r] = t THEN "over" ELSE pc[r]]
  /\ UNCHANGED <<vars, target>>

BridgeNext ==
  \/ \E r \in Request :
       \/ Dispatch(r) \/ PromiseSettles(r) \/ AcquireTimesOut(r)
       \/ Enter(r) \/ SessionCreated(r)
       \/ Answer(r) \/ SendTimesOut(r) \/ Finally(r) \/ LateAnswer(r)
  \/ \E t \in Tab : PageCloses(t)

BridgeSpec == BridgeInit /\ [][BridgeNext]_allVars

(* Promise callbacks and timers run; newCDPSession eventually returns or    *)
(* throws (it has no timer of its own).  Chromium need not answer.          *)
BridgeFairness ==
  \A r \in Request : /\ WF_allVars(PromiseSettles(r))
                     /\ WF_allVars(Enter(r))
                     /\ WF_allVars(SessionCreated(r))
                     /\ WF_allVars(SendTimesOut(r))
                     /\ WF_allVars(Finally(r))
-----------------------------------------------------------------------------
BridgeTypeOK ==
  /\ TypeOK
  /\ target    \in [Request -> Tab]
  /\ pc        \in [Request -> {"entry", "creating", "sending", "over"}]
  /\ open      \subseteq Tab
  /\ cached    \subseteq open
  /\ attached  \in [Tab -> 0..MaxSessions]
  /\ executing \subseteq Request

(* getOrCreateCdpSession awaits between looking in the cache and filling    *)
(* it; only the lock keeps two calls for one page from both opening a       *)
(* session there.                                                           *)
OneSessionPerPage == \A t \in Tab : attached[t] <= 1

(* Two conflicting commands execute in Chromium together only after one of  *)
(* their callers gave up on it (CDPBridgeTimeout).                          *)
OverlapOnlyAfterTimeout ==
  \A q, r \in executing :
    q # r /\ Conflict(scope[q], scope[r]) => pc[q] = "over" \/ pc[r] = "over"

(* dispatchCdpCall under the lock: no two conflicting calls hold it, a page *)
(* gets one CDP session, and conflicting commands meet in Chromium only     *)
(* after a timeout.                                                         *)
BridgeSafe ==
  TypeOK /\ BridgeTypeOK /\ MutualExclusion /\ OneSessionPerPage /\ OverlapOnlyAfterTimeout

(* Every call gives its caller a result or an error, whatever Chromium and  *)
(* the other calls do ("no silent hangs").  A request that timed out keeps  *)
(* its place in the chain ("release the slot we reserved so we don't        *)
(* deadlock the queue"), and with no help from its own timer a waiter       *)
(* behind it is granted all the same.                                       *)
EveryCallEnds ==
  \A r \in Request : status[r] = "waiting" ~> status[r] \in {"timedout", "done"}
=============================================================================
