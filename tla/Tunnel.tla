------------------------------- MODULE Tunnel -------------------------------
(***************************************************************************)
(* The tunnel of a daemon (server.ts: startTunnel, closeTunnel, and the    *)
(* routes /tunnel/start and /pair that probe, close and start it). Each    *)
(* request runs to its next await; ngrok sessions and the listeners on     *)
(* 127.0.0.1 are the resources that live outside the four module variables *)
(* tunnelListener, tunnelUrl, tunnelServer and tunnelActive.               *)
(***************************************************************************)
EXTENDS Naturals, FiniteSets

CONSTANTS Request, MaxTunnels

ASSUME TunnelAssumption == MaxTunnels \in Nat

Nobody == 0

VARIABLES rq,        \* per request: where it is, and the tunnel it binds or closes
          listener,  \* tunnelListener: the number of the ngrok session, or Nobody
          recorded,  \* tunnelUrl and tunnelServer
          active,    \* tunnelActive
          sessions,  \* ngrok sessions that are open
          servers,   \* listeners that are bound
          receipts,  \* sessions whose egress receipt is written
          unclosed,  \* sessions whose close was rejected
          made,      \* tunnels bound so far
          crossed    \* two requests were changing the tunnel at once

tunnelVars == <<rq, listener, recorded, active, sessions, servers, receipts, unclosed, made, crossed>>

Rest == [at |-> "rest", own |-> Nobody, start |-> FALSE]

TunnelInit ==
  /\ rq = [r \in Request |-> Rest]
  /\ listener = Nobody /\ recorded = Nobody /\ active = FALSE
  /\ sessions = {} /\ servers = {} /\ receipts = {} /\ unclosed = {} /\ made = 0 /\ crossed = FALSE

Changing(r) == rq[r].at \in {"closing", "forwarding", "undoing"}

(* Every step that enters a critical part notes an overlap                  *)
Moves(r, to) ==
  /\ rq' = [rq EXCEPT ![r] = to]
  /\ crossed' = (crossed \/ (to.at \in {"closing", "forwarding", "undoing"}
                             /\ \E q \in Request \ {r} : Changing(q)))

EndsRequest(r) == Moves(r, Rest)

(* closeTunnel first awaits the close of the listener it finds              *)
Closing(r) == [rq[r] EXCEPT !.at = "closing", !.own = listener]

(* Variants named ...Without... are plausible mistakes in the definition    *)
(* that follows them; no specification uses them.                           *)

(* Bun.serve binds a listener beside the servers that are left, and         *)
(* `await import` follows; or it fails, and the start is refused            *)
BindsOrFails(r, left) ==
  \/ /\ made < MaxTunnels
     /\ made' = made + 1 /\ servers' = left \cup {made + 1}
     /\ Moves(r, [at |-> "forwarding", own |-> made + 1, start |-> TRUE])
  \/ EndsRequest(r) /\ servers' = left /\ UNCHANGED made

(* /tunnel/start, and /pair which only probes                               *)
Arrives(r) ==
  /\ rq[r].at = "rest"
  /\ \E start \in BOOLEAN :
       IF active /\ recorded # Nobody
       THEN Moves(r, [Rest EXCEPT !.at = "probing", !.start = start]) /\ UNCHANGED <<servers, made>>
       ELSE start /\ BindsOrFails(r, servers)
  /\ UNCHANGED <<listener, recorded, active, sessions, receipts, unclosed>>

(* GET <url>/connect: an answer, or five seconds                            *)
Probe(r) ==
  /\ rq[r].at = "probing"
  /\ IF recorded \in sessions
     THEN EndsRequest(r) \/ Moves(r, Closing(r))
     ELSE Moves(r, Closing(r))
  /\ UNCHANGED <<listener, recorded, active, sessions, servers, receipts, unclosed, made>>

(* listener.close() of ngrok: its rejection is swallowed, and the session   *)
(* may then be open still                                                   *)
ClosesSession(n) ==
  \/ sessions' = sessions \ {n} /\ UNCHANGED unclosed
  \/ n \in sessions /\ unclosed' = unclosed \cup {n} /\ UNCHANGED sessions

CloseTunnelWithoutListener(r) ==
  /\ rq[r].at = "closing"
  /\ listener' = Nobody /\ recorded' = Nobody /\ active' = FALSE
  /\ IF rq[r].start THEN BindsOrFails(r, servers \ {recorded})
     ELSE EndsRequest(r) /\ servers' = servers \ {recorded} /\ UNCHANGED made
  /\ UNCHANGED <<sessions, receipts, unclosed>>

(* The rest of closeTunnel: everything is cleared, whatever failed; a start *)
(* goes on to bind                                                          *)
CloseTunnel(r) ==
  /\ rq[r].at = "closing"
  /\ ClosesSession(rq[r].own)
  /\ listener' = Nobody /\ recorded' = Nobody /\ active' = FALSE
  /\ IF rq[r].start THEN BindsOrFails(r, servers \ {recorded})
     ELSE EndsRequest(r) /\ servers' = servers \ {recorded} /\ UNCHANGED made
  /\ UNCHANGED receipts

(* The receipt is written before the session is asked for; a failure        *)
(* refuses the start                                                        *)
WritesReceipt(r) ==
  /\ rq[r].at = "forwarding" /\ rq[r].own \notin receipts
  /\ \/ receipts' = receipts \cup {rq[r].own} /\ UNCHANGED <<rq, crossed>>
     \/ Moves(r, [rq[r] EXCEPT !.at = "undoing"]) /\ UNCHANGED receipts
  /\ UNCHANGED <<listener, recorded, active, sessions, servers, unclosed, made>>

ForwardsBeforeReceipt(r) ==
  /\ rq[r].at = "forwarding"
  /\ LET n == rq[r].own IN
     \/ /\ sessions' = sessions \cup {n}
        /\ listener' = n /\ recorded' = n /\ active' = TRUE
        /\ EndsRequest(r) \/ Moves(r, [rq[r] EXCEPT !.at = "undoing"])
     \/ Moves(r, [rq[r] EXCEPT !.at = "undoing"]) /\ UNCHANGED <<sessions, listener, recorded, active>>
  /\ UNCHANGED <<servers, receipts, unclosed, made>>

(* ngrok.forward answers, and the state file is written; or either fails    *)
Forwards(r) ==
  /\ rq[r].at = "forwarding" /\ rq[r].own \in receipts
  /\ LET n == rq[r].own IN
     \/ /\ sessions' = sessions \cup {n}
        /\ listener' = n /\ recorded' = n /\ active' = TRUE
        /\ EndsRequest(r) \/ Moves(r, [rq[r] EXCEPT !.at = "undoing"])
     \/ Moves(r, [rq[r] EXCEPT !.at = "undoing"]) /\ UNCHANGED <<sessions, listener, recorded, active>>
  /\ UNCHANGED <<servers, receipts, unclosed, made>>

UndoesWithoutSession(r) ==
  /\ rq[r].at = "undoing"
  /\ servers' = servers \ {rq[r].own}
  /\ listener' = Nobody
  /\ EndsRequest(r)
  /\ UNCHANGED <<recorded, active, sessions, receipts, unclosed, made>>

(* The catch of startTunnel closes the listener that the module variable    *)
(* names, stops its own server and forgets the listener, but not the rest   *)
Undoes(r) ==
  /\ rq[r].at = "undoing"
  /\ ClosesSession(listener)
  /\ servers' = servers \ {rq[r].own}
  /\ listener' = Nobody
  /\ EndsRequest(r)
  /\ UNCHANGED <<recorded, active, receipts, made>>

(* ngrok ends a session by itself                                           *)
SessionDies ==
  /\ \E n \in sessions : sessions' = sessions \ {n}
  /\ UNCHANGED <<rq, listener, recorded, active, servers, receipts, unclosed, made, crossed>>

TunnelStep(r) ==
  Arrives(r) \/ Probe(r) \/ CloseTunnel(r) \/ WritesReceipt(r) \/ Forwards(r) \/ Undoes(r)

TunnelNext == (\E r \in Request : TunnelStep(r)) \/ SessionDies

TunnelSpec == TunnelInit /\ [][TunnelNext]_tunnelVars
-----------------------------------------------------------------------------
TunnelTypeOK ==
  /\ \A r \in Request : rq[r].at \in {"rest", "probing", "closing", "forwarding", "undoing"}
  /\ listener \in 0..made /\ recorded \in 0..made
  /\ sessions \subseteq 1..made /\ servers \subseteq 1..made

(* No session and no listener of the tunnel surface outlives its record:    *)
(* unless two requests changed the tunnel at once, what is open is what the *)
(* module variables name, what a request is still working on, or a session  *)
(* whose close ngrok rejected, which closeTunnel and the catch of           *)
(* startTunnel forget like any other.                                       *)
NothingLeaks ==
  ~crossed =>
    /\ sessions \subseteq {listener} \cup {rq[r].own : r \in Request} \cup unclosed
    /\ servers \subseteq {recorded} \cup {rq[r].own : r \in Request}

(* Nothing is exposed without a receipt: every session was announced in the *)
(* egress ledger before it was opened.                                      *)
ReceiptBeforeSession == sessions \subseteq receipts

(* The daemon never believes less than there is: while a session is open    *)
(* that no request is about to close and whose close was not rejected,      *)
(* tunnelActive holds, so that the idle timeout spares the daemon.          *)
(* Overlapping requests are excused.                                        *)
OpenMeansActive ==
  ~crossed /\ (\E n \in sessions \ unclosed : \A r \in Request : rq[r].own # n) => active

(* Tunnel starts and closes, each failing at any step, leave open only what *)
(* is recorded, announced and known to the daemon, or refused to close.     *)
TunnelSafe ==
  TunnelTypeOK /\ NothingLeaks /\ ReceiptBeforeSession /\ OpenMeansActive
=============================================================================
