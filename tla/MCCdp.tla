------------------------------- MODULE MCCdp -------------------------------
(* The lock by itself, under four calls over two tabs: a tab holder, a      *)
(* global waiter behind it, a tab waiter behind that one and one more of    *)
(* either tier.  And three calls of the bridge over the lock, where two     *)
(* sessions per page are enough to see a second one opened.  A behaviour    *)
(* picks one of the two at the start, its focus.                            *)
EXTENDS CdpBridge

CONSTANT Spare  \* the call that only the lock by itself makes

VARIABLE focus  \* lock or bridge

cdpVars == <<focus, allVars>>

CdpInit ==
  /\ focus \in {"lock", "bridge"}
  /\ BridgeInit
  /\ LET t == CHOOSE t \in Tab : TRUE IN
     \A r \in IF focus = "lock" THEN Request ELSE {Spare} : target[r] = t

CdpNext ==
  /\ UNCHANGED focus
  /\ \/ focus = "lock" /\ Next /\ UNCHANGED bridgeVars
     \/ focus = "bridge" /\ BridgeNext /\ status'[Spare] = "idle"

(* Promise callbacks run, and every holder of the lock reaches its          *)
(* `finally`.  Nothing is assumed of the lock's timers.                     *)
LockFairness == \A r \in Request : /\ WF_vars(Grant(r))
                                   /\ WF_vars(Settle(r))
                                   /\ WF_vars(focus = "lock" /\ Release(r))

CdpSpec == CdpInit /\ [][CdpNext]_cdpVars /\ LockFairness /\ BridgeFairness
=============================================================================
