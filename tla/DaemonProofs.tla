---------------------------- MODULE DaemonProofs ----------------------------
(***************************************************************************)
(* Resources of the daemon outside its browser, for any number of          *)
(* processes, requests, connections and steps: the tunnel, the SOCKS       *)
(* bridge, the egress ledger, the cookie picker, the files on disk, the X   *)
(* servers and the command line that starts and stops the daemon.          *)
(***************************************************************************)
EXTENDS DaemonStart, Tunnel, SocksBridge, EgressLedger, CookiePicker, DaemonFiles, Xvfb,
        SequenceTheorems, FiniteSetTheorems, WellFoundedInduction, TLAPS

(***************************************************************************)
(* The tunnel.  Requests that do not overlap (~crossed) find the module    *)
(* variables as one of them left them: active says that a tunnel is        *)
(* recorded, a listener is that of the record (Agree), and whoever is      *)
(* changing the tunnel knows what it has still to release (OnlyChanger).   *)
(***************************************************************************)
State == [at : {"rest", "probing", "closing", "forwarding", "undoing"}, own : Nat,
          start : BOOLEAN]

RequestsTyped ==
  /\ made \in Nat
  /\ rq \in [Request -> State]
  /\ \A r \in Request : /\ rq[r].own <= made /\ (~Changing(r) => rq[r].own = Nobody)
                        /\ rq[r].at = "forwarding" => rq[r].own # Nobody

Agree ==
  /\ active <=> recorded # Nobody
  /\ listener # Nobody => listener = recorded

OnlyChanger ==
  ~crossed =>
    \A r \in Request : Changing(r) =>
      /\ \A q \in Request \ {r} : ~Changing(q)
      /\ rq[r].at = "closing" => rq[r].own = listener
      /\ rq[r].at = "forwarding" => recorded = Nobody /\ rq[r].own \notin sessions
      /\ rq[r].at = "undoing" => rq[r].own = listener \/ rq[r].own \notin sessions

(* NothingLeaks, resource by resource                                       *)
Accounted ==
  ~crossed =>
    /\ \A n \in sessions : n \in unclosed \/ n = listener \/ \E r \in Request : rq[r].own = n
    /\ \A n \in servers : n = recorded \/ \E r \in Request : rq[r].own = n

TunnelInv == /\ TunnelTypeOK
             /\ RequestsTyped
             /\ Agree
             /\ OnlyChanger
             /\ Accounted
             /\ ReceiptBeforeSession

(* The tunnel starts closed, with no request.                               *)
LEMMA InitTunnelInv == TunnelInit => TunnelInv
BY DEF TunnelInit, TunnelInv, TunnelTypeOK, RequestsTyped, Agree, OnlyChanger, Accounted,
   ReceiptBeforeSession, Rest, Changing, Nobody, State

(* What any step of one request leaves to show: its own new state, and that *)
(* the others are as they were.                                             *)
LEMMA MovesTo ==
  ASSUME TunnelInv, NEW r \in Request, NEW to \in State, Moves(r, to)
  PROVE  /\ rq' \in [Request -> State]
         /\ rq'[r] = to /\ \A q \in Request \ {r} : rq'[q] = rq[q]
         /\ ~crossed' => /\ ~crossed
                         /\ to.at \in {"closing", "forwarding", "undoing"} =>
                              \A q \in Request \ {r} : ~Changing(q)
BY DEF Moves, TunnelInv, RequestsTyped, State

(* Bun.serve binds a new listener, or fails and brings the request to rest. *)
LEMMA BindsOrFailsTo ==
  ASSUME TunnelInv, NEW r \in Request, NEW left, BindsOrFails(r, left)
  PROVE  \/ /\ made' = made + 1 /\ servers' = left \cup {made + 1}
            /\ rq' \in [Request -> State]
            /\ rq'[r].at = "forwarding" /\ rq'[r].own = made + 1
            /\ \A q \in Request \ {r} : rq'[q] = rq[q]
            /\ ~crossed' => ~crossed /\ \A q \in Request \ {r} : ~Changing(q)
         \/ /\ made' = made /\ servers' = left
            /\ rq' \in [Request -> State]
            /\ rq'[r].at = "rest" /\ rq'[r].own = Nobody
            /\ \A q \in Request \ {r} : rq'[q] = rq[q]
            /\ ~crossed' => ~crossed
<1>1. made \in Nat
  BY DEF TunnelInv, RequestsTyped
<1>2. CASE /\ made' = made + 1 /\ servers' = left \cup {made + 1}
           /\ Moves(r, [at |-> "forwarding", own |-> made + 1, start |-> TRUE])
  <2> DEFINE to == [at |-> "forwarding", own |-> made + 1, start |-> TRUE]
  <2>1. to \in State /\ to.at = "forwarding" /\ to.own = made + 1
    BY <1>1 DEF State
  <2> HIDE DEF to
  <2> QED BY <1>2, <2>1, MovesTo DEF to
<1>3. CASE EndsRequest(r) /\ servers' = left /\ UNCHANGED made
  <2>1. Rest \in State /\ Rest.at = "rest" /\ Rest.own = Nobody
    BY DEF Rest, State, Nobody
  <2> QED BY <1>3, <2>1, MovesTo DEF EndsRequest
<1> QED BY <1>2, <1>3 DEF BindsOrFails

(* A step of one request at most counts one more listener and leaves the    *)
(* others typed.                                                            *)
LEMMA RequestsKeep ==
  ASSUME TunnelInv, NEW r \in Request, rq' \in [Request -> State],
         \A q \in Request \ {r} : rq'[q] = rq[q],
         made' \in {made, made + 1}, rq'[r].own <= made',
         Changing(r)' \/ rq'[r].own = Nobody,
         rq'[r].at = "forwarding" => rq'[r].own # Nobody
  PROVE  RequestsTyped'
<1>1. made \in Nat /\ made' \in Nat /\ made <= made'
  BY DEF TunnelInv, RequestsTyped
<1>2. \A q \in Request : rq[q].own \in Nat /\ rq'[q].own \in Nat
  BY DEF TunnelInv, RequestsTyped, State
<1>3. \A q \in Request : rq'[q].own <= made'
  BY <1>1, <1>2 DEF TunnelInv, RequestsTyped
<1>4. \A q \in Request : Changing(q)' \/ rq'[q].own = Nobody
  BY DEF TunnelInv, RequestsTyped, Changing
<1>5. \A q \in Request : rq'[q].at = "forwarding" => rq'[q].own # Nobody
  BY DEF TunnelInv, RequestsTyped
<1> QED BY <1>1, <1>3, <1>4, <1>5 DEF RequestsTyped

(* A /tunnel/start that arrives probes the recorded listener or binds a new *)
(* one.                                                                     *)
LEMMA ArrivesKeeps ==
  ASSUME TunnelInv, NEW r \in Request, Arrives(r)
  PROVE  TunnelInv'
<1> USE DEF TunnelInv
<1>1. UNCHANGED <<listener, recorded, active, sessions, receipts, unclosed>> /\ ~Changing(r)
  BY DEF Arrives, Changing
<1>2. \/ /\ active /\ recorded # Nobody /\ UNCHANGED <<servers, made>>
         /\ \E start \in BOOLEAN : Moves(r, [Rest EXCEPT !.at = "probing", !.start = start])
      \/ ~(active /\ recorded # Nobody) /\ BindsOrFails(r, servers)
  BY DEF Arrives
<1>3. /\ rq' \in [Request -> State]
      /\ \A q \in Request \ {r} : rq'[q] = rq[q]
      /\ \/ /\ rq'[r].at \in {"rest", "probing"} /\ rq'[r].own = Nobody
            /\ UNCHANGED <<servers, made>> /\ (~crossed' => ~crossed)
         \/ /\ ~(active /\ recorded # Nobody)
            /\ made' = made + 1 /\ servers' = servers \cup {made + 1}
            /\ rq'[r].at = "forwarding" /\ rq'[r].own = made + 1
            /\ ~crossed' => ~crossed /\ \A q \in Request \ {r} : ~Changing(q)
  <2>1. ASSUME NEW start \in BOOLEAN,
               Moves(r, [Rest EXCEPT !.at = "probing", !.start = start])
        PROVE  /\ rq' \in [Request -> State] /\ \A q \in Request \ {r} : rq'[q] = rq[q]
               /\ rq'[r].at = "probing" /\ rq'[r].own = Nobody /\ (~crossed' => ~crossed)
    <3> DEFINE to == [Rest EXCEPT !.at = "probing", !.start = start]
    <3>1. to \in State /\ to.at = "probing" /\ to.own = Nobody
      BY DEF State, Rest, Nobody
    <3> HIDE DEF to
    <3> QED BY <2>1, <3>1, MovesTo DEF to
  <2> QED BY <1>2, <2>1, BindsOrFailsTo
<1>4. RequestsTyped'
  <2>1. /\ made' \in {made, made + 1} /\ rq'[r].own <= made'
        /\ rq'[r].at = "forwarding" => rq'[r].own # Nobody
    BY <1>3 DEF RequestsTyped, Nobody
  <2> QED BY <1>3, <2>1, RequestsKeep DEF Changing
<1>5. TunnelTypeOK'
  <2>1. \A q \in Request : rq'[q].at \in {"rest", "probing", "closing", "forwarding", "undoing"}
    BY <1>3 DEF State
  <2>2. made \in Nat /\ made' \in {made, made + 1} /\ servers' \subseteq servers \cup {made'}
        /\ (servers' # servers => made' = made + 1)
    BY <1>3 DEF RequestsTyped
  <2>3. made' \in Nat /\ made <= made'
    BY <2>2
  <2>4. /\ listener \in 0..made /\ recorded \in 0..made
        /\ sessions \subseteq 1..made /\ servers \subseteq 1..made
    BY DEF TunnelTypeOK
  <2>5. listener' \in 0..made' /\ recorded' \in 0..made'
    BY <1>1, <2>2, <2>3, <2>4
  <2>6. sessions' \subseteq 1..made'
    BY <1>1, <2>2, <2>3, <2>4
  <2>7. servers' \subseteq 1..made'
    <3>1. 1..made \subseteq 1..made'
      BY <2>2, <2>3
    <3>2. CASE made' = made
      <4>1. servers' = servers
        BY <2>2, <3>2
      <4> QED BY <2>4, <3>1, <4>1
    <3>3. CASE made' = made + 1
      <4>1. made' \in 1..made'
        BY <2>2, <3>3
      <4> QED BY <2>2, <2>4, <3>1, <4>1
    <3> QED BY <2>2, <3>2, <3>3
  <2> QED BY <2>1, <2>5, <2>6, <2>7 DEF TunnelTypeOK
<1>6. Agree' /\ ReceiptBeforeSession'
  BY <1>1 DEF Agree, ReceiptBeforeSession
<1>7. OnlyChanger'
  BY <1>1, <1>3 DEF TunnelTypeOK, RequestsTyped, Agree, OnlyChanger, Changing
<1>8. Accounted'
  <2>1. rq[r].own \notin sessions \cup servers
    BY <1>1 DEF TunnelTypeOK, RequestsTyped, Nobody
  <2> QED BY <1>1, <1>3, <2>1 DEF Accounted
<1> QED BY <1>4, <1>5, <1>6, <1>7, <1>8

(* The probe only decides; a request that will close takes the listener as  *)
(* its own.                                                                 *)
LEMMA ProbeKeeps ==
  ASSUME TunnelInv, NEW r \in Request, Probe(r)
  PROVE  TunnelInv'
<1> USE DEF TunnelInv
<1>1. UNCHANGED <<listener, recorded, active, sessions, servers, receipts, unclosed, made>> /\ ~Changing(r)
  BY DEF Probe, Changing
<1>2. /\ rq' \in [Request -> State]
      /\ \A q \in Request \ {r} : rq'[q] = rq[q]
      /\ ~crossed' => ~crossed
      /\ \/ rq'[r].at = "rest" /\ rq'[r].own = Nobody
         \/ /\ rq'[r].at = "closing" /\ rq'[r].own = listener
            /\ ~crossed' => \A q \in Request \ {r} : ~Changing(q)
  <2>1. CASE EndsRequest(r)
    <3>1. Rest \in State /\ Rest.at = "rest" /\ Rest.own = Nobody
      BY DEF Rest, State, Nobody
    <3> QED BY <2>1, <3>1, MovesTo DEF EndsRequest
  <2>2. CASE Moves(r, Closing(r))
    <3>1. rq[r] \in State /\ listener \in Nat
      BY DEF RequestsTyped, TunnelTypeOK
    <3>2. Closing(r) \in State /\ Closing(r).at = "closing" /\ Closing(r).own = listener
      BY <3>1 DEF Closing, State
    <3> QED BY <2>2, <3>2, MovesTo
  <2> QED BY <2>1, <2>2 DEF Probe
<1>3. RequestsTyped'
  <2>1. rq'[r].own <= made'
    BY <1>1, <1>2 DEF RequestsTyped, TunnelTypeOK, Nobody
  <2> QED BY <1>1, <1>2, <2>1, RequestsKeep DEF Changing
<1>4. TunnelTypeOK'
  BY <1>1, <1>2 DEF TunnelTypeOK, State
<1>5. Agree' /\ ReceiptBeforeSession'
  BY <1>1 DEF Agree, ReceiptBeforeSession
<1>6. OnlyChanger'
  BY <1>1, <1>2 DEF OnlyChanger, Changing
<1>7. Accounted'
  <2>1. rq[r].own \notin sessions \cup servers
    BY <1>1 DEF TunnelTypeOK, RequestsTyped, Nobody
  <2> QED BY <1>1, <1>2, <2>1 DEF Accounted
<1> QED BY <1>3, <1>4, <1>5, <1>6, <1>7

(* Closing a session removes it, or ngrok refuses and it is noted.          *)
LEMMA ClosesOne ==
  ASSUME NEW n, ClosesSession(n)
  PROVE  /\ sessions' \subseteq sessions /\ unclosed \subseteq unclosed'
         /\ \A m \in sessions' : m # n \/ m \in unclosed'
BY DEF ClosesSession

(* The close leaves open what ngrok refuses to close and what the next      *)
(* start binds.                                                             *)
LEMMA CloseTunnelKeeps ==
  ASSUME TunnelInv, NEW r \in Request, CloseTunnel(r)
  PROVE  TunnelInv'
<1> USE DEF TunnelInv
<1>1. /\ rq[r].at = "closing"
      /\ sessions' \subseteq sessions /\ unclosed \subseteq unclosed'
      /\ \A m \in sessions' : m # rq[r].own \/ m \in unclosed'
      /\ listener' = Nobody /\ recorded' = Nobody /\ active' = FALSE /\ UNCHANGED receipts
  BY ClosesOne DEF CloseTunnel
<1>2. \/ BindsOrFails(r, servers \ {recorded})
      \/ EndsRequest(r) /\ servers' = servers \ {recorded} /\ UNCHANGED made
  BY DEF CloseTunnel
<1>3. /\ rq' \in [Request -> State]
      /\ \A q \in Request \ {r} : rq'[q] = rq[q]
      /\ ~crossed' => ~crossed
      /\ \/ /\ rq'[r].at = "rest" /\ rq'[r].own = Nobody
            /\ servers' = servers \ {recorded} /\ made' = made
         \/ /\ made' = made + 1 /\ servers' = (servers \ {recorded}) \cup {made + 1}
            /\ rq'[r].at = "forwarding" /\ rq'[r].own = made + 1
            /\ ~crossed' => \A q \in Request \ {r} : ~Changing(q)
  <2>1. CASE EndsRequest(r) /\ servers' = servers \ {recorded} /\ UNCHANGED made
    <3>1. Rest \in State /\ Rest.at = "rest" /\ Rest.own = Nobody
      BY DEF Rest, State, Nobody
    <3> QED BY <2>1, <3>1, MovesTo DEF EndsRequest
  <2> QED BY <1>2, <2>1, BindsOrFailsTo
<1>4. RequestsTyped'
  <2>1. /\ made' \in {made, made + 1} /\ rq'[r].own <= made'
        /\ rq'[r].at = "forwarding" => rq'[r].own # Nobody
    BY <1>3 DEF RequestsTyped, Nobody
  <2> QED BY <1>3, <2>1, RequestsKeep DEF Changing
<1>5. TunnelTypeOK'
  <2>1. \A q \in Request : rq'[q].at \in {"rest", "probing", "closing", "forwarding", "undoing"}
    BY <1>3 DEF State
  <2>2. made \in Nat /\ made' \in {made, made + 1} /\ servers' \subseteq servers \cup {made'}
        /\ (~(servers' \subseteq servers) => made' = made + 1)
    BY <1>3 DEF RequestsTyped
  <2>3. listener' \in 0..made' /\ recorded' \in 0..made'
    BY <1>1, <2>2 DEF Nobody
  <2>4. sessions' \subseteq 1..made'
    <3>1. sessions' \subseteq sessions
      BY <1>1
    <3>2. \A n \in 1..made : n \in 1..made'
      BY <2>2
    <3> QED BY <3>1, <3>2 DEF TunnelTypeOK
  <2>5. servers' \subseteq 1..made'
    <3>1. \A n \in servers' : n \in Nat /\ 1 <= n /\ n <= made'
      BY <2>2 DEF TunnelTypeOK
    <3> QED BY <2>2, <3>1
  <2> QED BY <2>1, <2>3, <2>4, <2>5 DEF TunnelTypeOK
<1>6. Agree' /\ ReceiptBeforeSession'
  BY <1>1 DEF Agree, ReceiptBeforeSession
<1>7. ASSUME ~crossed' PROVE sessions' \subseteq unclosed' /\ servers \subseteq {recorded}
  <2>1. rq[r].own = listener /\ \A q \in Request \ {r} : rq[q].own = Nobody
    BY <1>1, <1>3, <1>7 DEF OnlyChanger, Changing, RequestsTyped
  <2>2. 0 \notin sessions \cup servers
    BY DEF TunnelTypeOK
  <2>3. \A n \in sessions : n = listener \/ n \in unclosed
    BY <1>3, <1>7, <2>1, <2>2 DEF Accounted, Nobody
  <2>4. \A n \in servers : n = recorded
    BY <1>3, <1>7, <2>1, <2>2 DEF Accounted, Agree, Nobody
  <2> QED BY <1>1, <2>1, <2>3, <2>4
<1>8. OnlyChanger'
  <2> SUFFICES ASSUME ~crossed' PROVE OnlyChanger'
    BY DEF OnlyChanger
  <2>1. \A q \in Request \ {r} : ~Changing(q)
    BY <1>1, <1>3 DEF OnlyChanger, Changing
  <2>2. made + 1 \notin sessions'
    <3>1. made \in Nat /\ made + 1 \notin 1..made
      BY DEF RequestsTyped
    <3> QED BY <1>1, <3>1 DEF TunnelTypeOK
  <2> QED BY <1>1, <1>3, <2>1, <2>2 DEF OnlyChanger, Changing
<1>9. Accounted'
  BY <1>1, <1>3, <1>7 DEF Accounted
<1> QED BY <1>4, <1>5, <1>6, <1>8, <1>9

(* A start that failed turns to undoing: its session was never opened.      *)
LEMMA TurnsToUndoing ==
  ASSUME TunnelInv, NEW r \in Request, rq[r].at = "forwarding",
         Moves(r, [rq[r] EXCEPT !.at = "undoing"]),
         UNCHANGED <<listener, recorded, active, sessions, servers, unclosed, made>>,
         receipts \subseteq receipts'
  PROVE  TunnelInv'
<1> USE DEF TunnelInv
<1> DEFINE to == [rq[r] EXCEPT !.at = "undoing"]
<1>1. rq[r] \in State
  BY DEF RequestsTyped
<1>2. to \in State /\ to.at = "undoing" /\ to.own = rq[r].own
  BY <1>1 DEF State
<1>3. /\ rq' \in [Request -> State]
      /\ rq'[r].at = "undoing" /\ rq'[r].own = rq[r].own
      /\ \A q \in Request \ {r} : rq'[q] = rq[q]
      /\ ~crossed' => ~crossed /\ \A q \in Request \ {r} : ~Changing(q)
  <2> HIDE DEF to
  <2> QED BY <1>2, MovesTo DEF to
<1>4. RequestsTyped'
  <2>1. rq'[r].own <= made' /\ made' = made
    BY <1>3 DEF RequestsTyped
  <2> QED BY <1>3, <2>1, RequestsKeep DEF Changing
<1>5. TunnelTypeOK'
  BY <1>3 DEF TunnelTypeOK, State
<1>6. Agree' /\ ReceiptBeforeSession'
  BY DEF Agree, ReceiptBeforeSession
<1>7. OnlyChanger'
  BY <1>3 DEF OnlyChanger, Changing
<1>8. Accounted'
  <2>1. \A q \in Request : rq'[q].own = rq[q].own
    BY <1>3
  <2> QED BY <1>3, <2>1 DEF Accounted
<1> QED BY <1>4, <1>5, <1>6, <1>7, <1>8

(* Writing the receipt of a forward succeeds or sends the request to its    *)
(* undoing.                                                                 *)
LEMMA WritesReceiptKeeps ==
  ASSUME TunnelInv, NEW r \in Request, WritesReceipt(r)
  PROVE  TunnelInv'
<1>1. /\ rq[r].at = "forwarding" /\ receipts \subseteq receipts'
      /\ UNCHANGED <<listener, recorded, active, sessions, servers, unclosed, made>>
  BY DEF WritesReceipt
<1>2. CASE UNCHANGED <<rq, crossed>>
  BY <1>1, <1>2 DEF TunnelInv, TunnelTypeOK, RequestsTyped, Agree, OnlyChanger, Accounted,
     ReceiptBeforeSession, Changing
<1>3. CASE Moves(r, [rq[r] EXCEPT !.at = "undoing"])
  BY <1>1, <1>3, TurnsToUndoing
<1> QED BY <1>2, <1>3 DEF WritesReceipt

(* The session that is opened is the one with a receipt, and the only one.  *)
LEMMA ForwardsKeeps ==
  ASSUME TunnelInv, NEW r \in Request, Forwards(r)
  PROVE  TunnelInv'
<1> USE DEF TunnelInv
<1>1. /\ rq[r].at = "forwarding" /\ rq[r].own \in receipts
      /\ UNCHANGED <<servers, receipts, unclosed, made>>
  BY DEF Forwards
<1>2. CASE /\ Moves(r, [rq[r] EXCEPT !.at = "undoing"])
           /\ UNCHANGED <<sessions, listener, recorded, active>>
  BY <1>1, <1>2, TurnsToUndoing
<1>3. CASE /\ sessions' = sessions \cup {rq[r].own}
           /\ listener' = rq[r].own /\ recorded' = rq[r].own /\ active' = TRUE
           /\ EndsRequest(r) \/ Moves(r, [rq[r] EXCEPT !.at = "undoing"])
  <2>1. /\ rq' \in [Request -> State]
        /\ \A q \in Request \ {r} : rq'[q] = rq[q]
        /\ ~crossed' => ~crossed
        /\ \/ rq'[r].at = "rest" /\ rq'[r].own = Nobody
           \/ rq'[r].at = "undoing" /\ rq'[r].own = rq[r].own
    <3>1. CASE EndsRequest(r)
      <4>1. Rest \in State /\ Rest.at = "rest" /\ Rest.own = Nobody
        BY DEF Rest, State, Nobody
      <4> QED BY <3>1, <4>1, MovesTo DEF EndsRequest
    <3>2. CASE Moves(r, [rq[r] EXCEPT !.at = "undoing"])
      <4> DEFINE to == [rq[r] EXCEPT !.at = "undoing"]
      <4>1. rq[r] \in State
        BY DEF RequestsTyped
      <4>2. to \in State /\ to.at = "undoing" /\ to.own = rq[r].own
        BY <4>1 DEF State
      <4> HIDE DEF to
      <4> QED BY <3>2, <4>2, MovesTo DEF to
    <3> QED BY <1>3, <3>1, <3>2
  <2>2. rq[r].own \in 1..made /\ made \in Nat
    <3>1. rq[r].own \in Nat /\ rq[r].own <= made /\ rq[r].own # 0
      BY <1>1 DEF RequestsTyped, State, Nobody
    <3> QED BY <3>1 DEF RequestsTyped
  <2>3. RequestsTyped'
    <3>1. rq'[r].own <= made' /\ made' = made
      BY <1>1, <2>1, <2>2 DEF Nobody
    <3> QED BY <2>1, <3>1, RequestsKeep DEF Changing
  <2>4. TunnelTypeOK'
    BY <1>1, <1>3, <2>1, <2>2 DEF TunnelTypeOK, State
  <2>5. Agree' /\ ReceiptBeforeSession'
    BY <1>1, <1>3, <2>2 DEF Agree, ReceiptBeforeSession, Nobody
  <2>6. ASSUME ~crossed'
        PROVE  /\ \A q \in Request \ {r} : ~Changing(q) /\ rq[q].own = Nobody
               /\ recorded = Nobody /\ listener = Nobody
    BY <1>1, <2>1, <2>6 DEF OnlyChanger, Changing, RequestsTyped, Agree
  <2>7. OnlyChanger'
    BY <1>3, <2>1, <2>6 DEF OnlyChanger, Changing
  <2>8. Accounted'
    <3> SUFFICES ASSUME ~crossed' PROVE Accounted'
      BY DEF Accounted
    <3>1. Nobody \notin sessions \cup servers
      BY DEF TunnelTypeOK, Nobody
    <3>2. /\ \A n \in sessions : n = rq[r].own \/ n \in unclosed
          /\ \A n \in servers : n = rq[r].own
      BY <2>1, <2>6, <3>1 DEF Accounted
    <3> QED BY <1>1, <1>3, <3>2 DEF Accounted
  <2> QED BY <2>3, <2>4, <2>5, <2>7, <2>8
<1> QED BY <1>2, <1>3 DEF Forwards

(* The catch releases the session that was opened, and nobody else's.       *)
LEMMA UndoesKeeps ==
  ASSUME TunnelInv, NEW r \in Request, Undoes(r)
  PROVE  TunnelInv'
<1> USE DEF TunnelInv
<1>1. /\ rq[r].at = "undoing"
      /\ sessions' \subseteq sessions /\ unclosed \subseteq unclosed'
      /\ \A m \in sessions' : m # listener \/ m \in unclosed'
      /\ servers' = servers \ {rq[r].own} /\ listener' = Nobody
      /\ UNCHANGED <<recorded, active, receipts, made>>
  BY ClosesOne DEF Undoes
<1>2. /\ rq' \in [Request -> State]
      /\ rq'[r].at = "rest" /\ rq'[r].own = Nobody
      /\ \A q \in Request \ {r} : rq'[q] = rq[q]
      /\ ~crossed' => ~crossed
  <2>1. Rest \in State /\ Rest.at = "rest" /\ Rest.own = Nobody
    BY DEF Rest, State, Nobody
  <2> QED BY <2>1, MovesTo DEF EndsRequest, Undoes
<1>3. RequestsTyped'
  <2>1. rq'[r].own <= made' /\ made' = made
    BY <1>1, <1>2 DEF RequestsTyped, Nobody
  <2> QED BY <1>2, <2>1, RequestsKeep DEF Changing
<1>4. TunnelTypeOK'
  <2>1. \A q \in Request : rq'[q].at \in {"rest", "probing", "closing", "forwarding", "undoing"}
    BY <1>2 DEF State
  <2>2. listener' \in 0..made'
    BY <1>1 DEF RequestsTyped, Nobody
  <2> QED BY <1>1, <2>1, <2>2 DEF TunnelTypeOK
<1>5. Agree' /\ ReceiptBeforeSession'
  BY <1>1 DEF Agree, ReceiptBeforeSession
<1>6. ASSUME ~crossed'
      PROVE  /\ \A q \in Request \ {r} : ~Changing(q) /\ rq[q].own = Nobody
             /\ rq[r].own = listener \/ rq[r].own \notin sessions
  BY <1>1, <1>2, <1>6 DEF OnlyChanger, Changing, RequestsTyped
<1>7. OnlyChanger'
  BY <1>2, <1>6 DEF OnlyChanger, Changing
<1>8. Accounted'
  <2> SUFFICES ASSUME ~crossed' PROVE Accounted'
    BY DEF Accounted
  <2>1. Nobody \notin sessions \cup servers
    BY DEF TunnelTypeOK, Nobody
  <2>2. sessions' \subseteq unclosed'
    BY <1>1, <1>2, <1>6, <2>1 DEF Accounted
  <2>3. \A n \in servers' : n = recorded
    BY <1>1, <1>2, <1>6, <2>1 DEF Accounted
  <2> QED BY <1>1, <2>2, <2>3 DEF Accounted
<1> QED BY <1>3, <1>4, <1>5, <1>7, <1>8

(* Every step of the tunnel keeps the invariant.                            *)
LEMMA TunnelInvIsInductive == TunnelInv /\ [TunnelNext]_tunnelVars => TunnelInv'
<1> SUFFICES ASSUME TunnelInv, [TunnelNext]_tunnelVars PROVE TunnelInv'
  OBVIOUS
<1>1. ASSUME NEW r \in Request, TunnelStep(r) PROVE TunnelInv'
  BY <1>1, ArrivesKeeps, ProbeKeeps, CloseTunnelKeeps, WritesReceiptKeeps, ForwardsKeeps,
     UndoesKeeps DEF TunnelStep
<1>2. CASE SessionDies
  <2>1. sessions' \subseteq sessions
        /\ UNCHANGED <<rq, listener, recorded, active, servers, receipts, unclosed, made, crossed>>
    BY <1>2 DEF SessionDies
  <2> QED BY <2>1 DEF TunnelInv, TunnelTypeOK, RequestsTyped, Agree, OnlyChanger, Accounted,
          ReceiptBeforeSession, Changing
<1>3. CASE UNCHANGED tunnelVars
  BY <1>3 DEF tunnelVars, TunnelInv, TunnelTypeOK, RequestsTyped, Agree, OnlyChanger, Accounted,
     ReceiptBeforeSession, Changing
<1> QED BY <1>1, <1>2, <1>3 DEF TunnelNext

(* The invariant gives what the run checks of the tunnel.                   *)
LEMMA TunnelInvIsSafe == TunnelInv => TunnelSafe
<1> SUFFICES ASSUME TunnelInv PROVE TunnelSafe
  OBVIOUS
<1>1. NothingLeaks
  BY DEF TunnelInv, Accounted, NothingLeaks
<1>2. OpenMeansActive
  <2> SUFFICES ASSUME ~crossed, NEW n \in sessions \ unclosed, \A r \in Request : rq[r].own # n
               PROVE  active
    BY DEF OpenMeansActive
  <2>1. n = listener /\ n # Nobody
    BY DEF TunnelInv, Accounted, TunnelTypeOK, Nobody
  <2> QED BY <2>1 DEF TunnelInv, Agree
<1> QED BY <1>1, <1>2 DEF TunnelInv, TunnelSafe

(* Whatever number of requests start, probe and close the tunnel, and       *)
(* whatever of it fails or dies by itself: no session is open that was not  *)
(* announced in the egress ledger, and requests that did not overlap leave  *)
(* nothing open that the daemon does not know of, but sessions that ngrok   *)
(* refused to close.                                                        *)
THEOREM TunnelSafeHolds == TunnelSpec => []TunnelSafe
<1>1. TunnelSpec => []TunnelInv
  BY InitTunnelInv, TunnelInvIsInductive, PTL DEF TunnelSpec
<1> QED BY <1>1, TunnelInvIsSafe, PTL
-----------------------------------------------------------------------------
(***************************************************************************)
(* The SOCKS bridge.  Before the pipe, a connection's buffer holds exactly *)
(* what was sent beyond its greeting and request, in order (InOrder); and  *)
(* a handshake under way still has its client (Attended), so that what the *)
(* upstream proxy's answer wires up is a live pair.                        *)
(***************************************************************************)
Handshakes == {"greeting", "connect", "connecting"}
Item == Nat \cup {"g", "c"}

ConnState ==
  [state : {"none", "greeting", "connect", "connecting", "piped", "closed", "ended"},
   client : {"none", "open", "gone"}, upstream : {"none", "open", "gone"},
   buf : Seq(Item), sent : 0..MaxBytes, paused : BOOLEAN, up : Seq(Item),
   reply : {"none", "success", "unreachable"}]

InOrder(r) ==
  /\ Len(r.up) <= r.sent /\ \A i \in 1..Len(r.up) : r.up[i] = i + 2
  /\ r.state \in Handshakes => r.up = <<>> /\ r.upstream = "none"
  /\ r.state \in {"none", "greeting"} => r.buf = <<>> /\ r.sent = 0
  /\ r.state = "connect" => r.buf = <<>> /\ r.sent = 1
  /\ r.state = "connecting" =>
       /\ r.sent = Len(r.buf) + 2 /\ \A i \in 1..Len(r.buf) : r.buf[i] = i + 2
  /\ r.state = "piped" => r.sent = Len(r.up) + 2
  /\ r.paused => r.state \in {"connecting", "closed"}
  /\ r.upstream = "open" => r.state = "piped"

Attended(r) ==
  /\ r.state \in Handshakes => r.client = "open"
  /\ r.upstream = "open" => r.client = "open"

Sound(r) == r \in ConnState /\ InOrder(r) /\ (bridge => Attended(r))

SocksInv == conn \in [Conn -> ConnState] /\ \A c \in Conn : Sound(conn[c])

(* A buffer is empty when its length is zero.                               *)
LEMMA EmptyHasNoLength == \A s \in Seq(Item) : s = <<>> <=> Len(s) = 0
BY EmptySeq

(* A connection that has not begun has no upstream and nothing buffered.    *)
LEMMA NoneIsFresh == /\ None \in ConnState /\ None.upstream = "none" /\ None.buf = <<>>
                     /\ None.sent = 0 /\ None.up = <<>> /\ ~None.paused
BY BytesBounded DEF None, ConnState, Item

(* The bridge starts listening, with no connection.                         *)
LEMMA InitSocksInv == SocksInit => SocksInv
<1>1. None \in ConnState
  BY NoneIsFresh
<1>2. InOrder(None) /\ Attended(None)
  BY DEF None, InOrder, Attended, Handshakes
<1> QED BY <1>1, <1>2 DEF SocksInit, SocksInv, Sound

(* A step of one connection that leaves it sound.                           *)
LEMMA OneSound ==
  ASSUME SocksInv, NEW c \in Conn, NEW r \in ConnState, InOrder(r), bridge => Attended(r), Set(c, r)
  PROVE  SocksInv'
BY DEF SocksInv, Sound, Set, InOrder, Attended

(* kill() leaves a connection sound, whatever it was doing.                 *)
LEMMA KilledIsSound ==
  ASSUME NEW r \in ConnState, InOrder(r), Attended(r) \/ r.upstream = "gone" \/ ~bridge
  PROVE  ConnKilled(r) \in ConnState /\ InOrder(ConnKilled(r)) /\ Attended(ConnKilled(r))
BY DEF ConnKilled, ConnState, InOrder, Attended, Handshakes

(* What onData takes from the buffer, one frame at a time.                  *)
Greeted(r) == [r EXCEPT !.state = "connect", !.buf = Tail(r.buf)]
Requested(r) == [r EXCEPT !.state = "connecting", !.paused = TRUE, !.buf = Tail(r.buf)]

(* Taking one frame from the buffer leaves the rest of it and what was sent *)
(* alone.                                                                   *)
LEMMA FrameTaken ==
  ASSUME NEW r \in ConnState, r.buf # <<>>,
         NEW g, (g = Greeted(r) /\ ~r.paused) \/ g = Requested(r)
  PROVE  /\ g \in ConnState /\ g.buf = Tail(r.buf)
         /\ g.sent = r.sent /\ g.up = r.up /\ g.client = r.client /\ g.upstream = r.upstream
         /\ g = Greeted(r) => g.state = "connect" /\ ~g.paused
         /\ g = Requested(r) => g.state = "connecting" /\ g.paused
<1>1. Tail(r.buf) \in Seq(Item)
  BY HeadTailProperties DEF ConnState
<1>2. CASE g = Greeted(r) /\ ~r.paused
  <2>1. g \in ConnState
    BY <1>1, <1>2 DEF ConnState, Greeted
  <2>2. g.state = "connect" /\ g.buf = Tail(r.buf) /\ g.sent = r.sent /\ g.up = r.up
        /\ g.client = r.client /\ g.upstream = r.upstream /\ g.paused = r.paused
    BY <1>2 DEF ConnState, Greeted
  <2>3. Requested(r).state = "connecting"
    BY DEF ConnState, Requested
  <2> QED BY <1>2, <2>1, <2>2, <2>3
<1>3. CASE g = Requested(r)
  <2>1. g \in ConnState
    BY <1>1, <1>3 DEF ConnState, Requested
  <2>2. g.state = "connecting" /\ g.buf = Tail(r.buf) /\ g.sent = r.sent /\ g.up = r.up
        /\ g.client = r.client /\ g.upstream = r.upstream /\ g.paused
    BY <1>3 DEF ConnState, Requested
  <2>3. Greeted(r).state = "connect"
    BY DEF ConnState, Greeted
  <2> QED BY <1>3, <2>1, <2>2, <2>3
<1> QED BY <1>2, <1>3

Arrived(r, k) == [r EXCEPT !.buf = @ \o [i \in 1..k |-> Byte(r.sent + i)], !.sent = @ + k]

(* Bytes that arrive while no frame is buffered: beyond greeting and        *)
(* request they are payload.                                                *)
LEMMA ChunkArrives ==
  ASSUME NEW r \in ConnState, r.buf = <<>>, NEW k \in 1..3, r.sent + k <= MaxBytes,
         NEW g, g = Arrived(r, k)
  PROVE  /\ g \in ConnState /\ g.sent = r.sent + k
         /\ Len(g.buf) = k /\ \A i \in 1..k : r.sent + i > 2 => g.buf[i] = r.sent + i
         /\ g.state = r.state /\ g.up = r.up /\ g.client = r.client /\ g.upstream = r.upstream
         /\ g.paused = r.paused
<1> DEFINE chunk == [i \in 1..k |-> Byte(r.sent + i)]
<1>1. r.sent \in Nat /\ r.sent + k \in 0..MaxBytes
  BY BytesBounded DEF ConnState
<1>2. \A i \in 1..k : Byte(r.sent + i) \in Item /\ (r.sent + i > 2 => Byte(r.sent + i) = r.sent + i)
  BY <1>1 DEF Byte, Item
<1>3. /\ chunk \in Seq(Item) /\ Len(chunk) = k
      /\ \A i \in 1..k : r.sent + i > 2 => chunk[i] = r.sent + i
  BY <1>2
<1> HIDE DEF chunk
<1>4. r.buf \o chunk = chunk
  BY <1>3, ConcatEmptySeq
<1>5. g = [r EXCEPT !.buf = chunk, !.sent = r.sent + k]
  BY <1>4 DEF chunk, Arrived
<1> QED BY <1>1, <1>3, <1>5 DEF ConnState

(* A chunk of k bytes after n others is handled as far as it goes, however  *)
(* it was cut.                                                              *)
LEMMA HandledIsSound ==
  ASSUME NEW n \in 0..1, NEW k \in 1..3,
         NEW g \in ConnState, g.state = (IF n = 0 THEN "greeting" ELSE "connect"),
         g.sent = n + k, Len(g.buf) = k, \A i \in 1..k : n + i > 2 => g.buf[i] = n + i,
         g.up = <<>>, g.upstream = "none", ~g.paused
  PROVE  /\ Handled(g) \in ConnState /\ InOrder(Handled(g))
         /\ Handled(g).state \in Handshakes /\ Handled(g).client = g.client
         /\ Handled(g).upstream = "none"
<1>1. g.buf \in Seq(Item) /\ g.buf # <<>>
  BY EmptySeq DEF ConnState
<1>2. /\ Tail(g.buf) \in Seq(Item) /\ Len(Tail(g.buf)) = k - 1
      /\ \A i \in 1..(k - 1) : Tail(g.buf)[i] = g.buf[i + 1]
  BY <1>1, HeadTailProperties
<1>3. \A i \in 1..(k - 1) : n + i + 1 > 2 => Tail(g.buf)[i] = n + i + 1
  <2> SUFFICES ASSUME NEW i \in 1..(k - 1), n + i + 1 > 2 PROVE Tail(g.buf)[i] = n + i + 1
    OBVIOUS
  <2>1. i + 1 \in 1..k /\ n + (i + 1) = n + i + 1
    OBVIOUS
  <2> QED BY <1>2, <2>1
<1>4. CASE n = 0
  <2>1. PICK h : h = Greeted(g)
    OBVIOUS
  <2>2. /\ h \in ConnState /\ h.state = "connect" /\ h.buf = Tail(g.buf) /\ h.sent = k
        /\ h.up = <<>> /\ h.client = g.client /\ h.upstream = "none" /\ ~h.paused
    BY <1>1, <1>4, <2>1, FrameTaken
  <2>3. Handled(g) = IF h.buf # <<>> THEN Requested(h) ELSE h
    BY <1>1, <1>4, <2>1, <2>2 DEF Handled, Greeted, Requested
  <2>4. CASE h.buf = <<>>
    <3>1. k = 1
      <4>1. Len(h.buf) = 0
        BY <1>2, <2>2, <2>4, EmptyHasNoLength
      <4>2. k - 1 = 0
        BY <1>2, <2>2, <4>1
      <4> QED BY <4>2
    <3> QED BY <2>2, <2>3, <2>4, <3>1, EmptyHasNoLength DEF InOrder, Handshakes, ConnState
  <2>5. CASE h.buf # <<>>
    <3>1. PICK q : q = Requested(h)
      OBVIOUS
    <3>2. /\ q \in ConnState /\ q.state = "connecting" /\ q.buf = Tail(h.buf) /\ q.paused
          /\ q.sent = k /\ q.up = <<>> /\ q.client = g.client /\ q.upstream = "none"
      BY <2>2, <2>5, <3>1, FrameTaken
    <3>3. /\ h.buf \in Seq(Item)
          /\ Len(q.buf) = Len(h.buf) - 1 /\ \A i \in 1..Len(q.buf) : q.buf[i] = h.buf[i + 1]
      BY <1>2, <2>2, <2>5, <3>2, HeadTailProperties
    <3>4. Len(q.buf) = k - 2
      BY <1>2, <2>2, <3>3
    <3>5. \A i \in 1..Len(q.buf) : q.buf[i] = i + 2
      <4> SUFFICES ASSUME NEW i \in 1..(k - 2) PROVE q.buf[i] = i + 2
        BY <3>4
      <4>1. i + 1 \in 1..(k - 1) /\ n + (i + 1) + 1 > 2 /\ n + (i + 1) + 1 = i + 2
        BY <1>4
      <4> QED BY <1>3, <2>2, <3>3, <3>4, <4>1
    <3>6. Len(q.up) = 0 /\ q.sent = Len(q.buf) + 2 /\ Handled(g) = q
      BY <2>3, <2>5, <3>1, <3>2, <3>4, EmptyHasNoLength DEF ConnState
    <3>7. InOrder(q)
      BY <3>2, <3>5, <3>6 DEF InOrder, Handshakes
    <3> QED BY <3>2, <3>6, <3>7 DEF Handshakes
  <2> QED BY <2>4, <2>5
<1>5. CASE n = 1
  <2>1. PICK q : q = Requested(g)
    OBVIOUS
  <2>2. Handled(g) = q
    BY <1>1, <1>5, <2>1 DEF Handled, Requested
  <2>3. /\ q \in ConnState /\ q.state = "connecting" /\ q.buf = Tail(g.buf) /\ q.paused
        /\ q.sent = k + 1 /\ q.up = <<>> /\ q.client = g.client /\ q.upstream = "none"
    BY <1>1, <1>5, <2>1, FrameTaken
  <2>4. Len(q.buf) = k - 1 /\ \A i \in 1..(k - 1) : q.buf[i] = i + 2
    BY <1>2, <1>3, <1>5, <2>3
  <2> QED BY <2>2, <2>3, <2>4, EmptyHasNoLength DEF InOrder, Handshakes, ConnState
<1> QED BY <1>4, <1>5

(* Every handler of a connection keeps the invariant.                       *)
LEMMA SocksStepKeeps ==
  ASSUME SocksInv, NEW c \in Conn, ConnStep(c)
  PROVE  SocksInv'
<1> DEFINE r == conn[c]
<1>1. r \in ConnState /\ InOrder(r) /\ (bridge => Attended(r))
  BY DEF SocksInv, Sound
<1>2. r.sent \in Nat /\ r.sent <= MaxBytes
  BY <1>1, BytesBounded DEF ConnState
<1> DEFINE Fine(q) == q \in ConnState /\ InOrder(q) /\ (bridge => Attended(q))
<1>3. ASSUME NEW q, Fine(q), Set(c, q) PROVE SocksInv'
  BY <1>3, OneSound
<1>4. CASE Accepts(c)
  <2> DEFINE q == [None EXCEPT !.state = "greeting", !.client = "open"]
  <2>1. /\ q \in ConnState /\ q.state = "greeting" /\ q.client = "open" /\ q.upstream = "none"
        /\ q.buf = <<>> /\ q.sent = 0 /\ q.up = <<>> /\ ~q.paused
    BY NoneIsFresh DEF ConnState
  <2>2. Fine(q)
    <3> HIDE DEF q
    <3> QED BY <2>1, EmptyHasNoLength DEF InOrder, Attended, Handshakes
  <2> QED BY <1>3, <1>4, <2>2 DEF Accepts
<1>5. Fine(ConnKilled(r))
  BY <1>1, KilledIsSound
<1>6. CASE Data(c)
  <2>1. PICK k \in 1..3 :
          /\ r.sent + k <= MaxBytes
          /\ \/ Set(c, Handled([r EXCEPT !.buf = @ \o [i \in 1..k |-> Byte(r.sent + i)], !.sent = @ + k]))
             \/ Set(c, ConnKilled(r))
    BY <1>6 DEF Data
  <2>2. PICK g : g = Arrived(r, k)
    OBVIOUS
  <2>3. /\ r.client = "open" /\ ~r.paused /\ r.state \in {"greeting", "connect"}
        /\ r.buf = <<>> /\ r.up = <<>> /\ r.upstream = "none"
        /\ r.sent \in 0..1 /\ r.state = (IF r.sent = 0 THEN "greeting" ELSE "connect")
    BY <1>1, <1>6 DEF Data, InOrder, Handshakes
  <2> HIDE DEF r
  <2>4. /\ g \in ConnState /\ g.sent = r.sent + k
        /\ Len(g.buf) = k /\ \A i \in 1..k : r.sent + i > 2 => g.buf[i] = r.sent + i
        /\ g.state = r.state /\ g.up = <<>> /\ g.client = "open" /\ g.upstream = "none"
        /\ ~g.paused
    BY <1>1, <2>1, <2>2, <2>3, ChunkArrives
  <2>5. /\ Handled(g) \in ConnState /\ InOrder(Handled(g))
        /\ Handled(g).state \in Handshakes /\ Handled(g).client = "open"
        /\ Handled(g).upstream = "none"
    BY <2>3, <2>4, HandledIsSound
  <2>6. Attended(Handled(g))
    BY <2>5 DEF Attended
  <2> QED BY <1>3, <1>5, <2>1, <2>2, <2>5, <2>6 DEF Arrived
<1>7. CASE UpstreamOpens(c)
  <2>1. CASE r.state = "closed"
    <3>1. Fine([r EXCEPT !.upstream = "gone", !.paused = FALSE])
      BY <1>1, <2>1 DEF ConnState, InOrder, Attended, Handshakes
    <3> QED BY <1>3, <1>7, <2>1, <3>1 DEF UpstreamOpens
  <2>2. CASE r.state # "closed"
    <3> DEFINE q == [r EXCEPT !.state = "piped", !.upstream = "open", !.up = @ \o r.buf,
                              !.buf = <<>>, !.paused = FALSE, !.reply = "success"]
    <3>1. r.state = "connecting" /\ r.up = <<>> /\ r.buf \in Seq(Item)
      BY <1>1, <1>7, <2>2 DEF UpstreamOpens, InOrder, Handshakes, ConnState
    <3>2. r.up \o r.buf = r.buf
      BY <3>1
    <3>3. q.up = r.buf /\ q.state = "piped" /\ ~q.paused /\ q.sent = r.sent /\ q.client = r.client
          /\ q \in ConnState
      BY <1>1, <3>1, <3>2 DEF ConnState
    <3>4. InOrder(q)
      <4> HIDE DEF q
      <4> QED BY <1>1, <1>2, <3>1, <3>3 DEF InOrder, Handshakes
    <3>5. bridge => Attended(q)
      BY <1>1, <3>1, <3>3 DEF Attended, Handshakes
    <3> QED BY <1>3, <1>7, <2>2, <3>3, <3>4, <3>5 DEF UpstreamOpens
  <2> QED BY <2>1, <2>2
<1>8. CASE UpstreamRefuses(c)
  <2> DEFINE q == [r EXCEPT !.reply = "unreachable", !.paused = FALSE, !.upstream = "gone"]
  <2>1. q \in ConnState /\ q.upstream = "gone"
    BY <1>1 DEF ConnState
  <2>2. InOrder(ConnKilled(q)) /\ ConnKilled(q) \in ConnState /\ Attended(ConnKilled(q))
    <3>1. ConnKilled(q) \in ConnState
      <4> HIDE DEF q
      <4> QED BY <2>1 DEF ConnKilled, ConnState
    <3>2. InOrder(ConnKilled(q))
      <4>1. /\ ConnKilled(q).state = "closed" /\ ConnKilled(q).upstream # "open"
            /\ ConnKilled(q).up = r.up /\ ConnKilled(q).sent = r.sent
        BY <1>1 DEF ConnKilled, ConnState
      <4>2. Len(r.up) <= r.sent /\ \A i \in 1..Len(r.up) : r.up[i] = i + 2
        BY <1>1 DEF InOrder
      <4> HIDE DEF q
      <4> QED BY <4>1, <4>2 DEF InOrder, Handshakes
    <3>3. Attended(ConnKilled(q))
      <4>1. ConnKilled(q).state = "closed" /\ ConnKilled(q).upstream # "open"
        BY <1>1 DEF ConnKilled, ConnState
      <4> HIDE DEF q
      <4> QED BY <4>1 DEF Attended, Handshakes
    <3> QED BY <3>1, <3>2, <3>3
  <2> QED BY <1>3, <1>8, <2>2 DEF UpstreamRefuses
<1>9. CASE Pipes(c)
  <2>1. r.up \in Seq(Item) /\ r.sent = Len(r.up) + 2 /\ r.sent < MaxBytes
    BY <1>1, <1>9 DEF ConnState, InOrder, Pipes
  <2>2. Byte(r.sent + 1) = r.sent + 1 /\ r.sent + 1 \in Item /\ r.sent + 1 \in 0..MaxBytes
    BY <1>2, <2>1, BytesBounded DEF Byte, Item
  <2>3. PICK p : p = Append(r.up, r.sent + 1)
    OBVIOUS
  <2>4. /\ p \in Seq(Item) /\ Len(p) = Len(r.up) + 1 /\ p[Len(r.up) + 1] = r.sent + 1
        /\ \A i \in 1..Len(r.up) : p[i] = r.up[i]
    BY <2>1, <2>2, <2>3, AppendProperties
  <2>5. PICK q : q = [r EXCEPT !.sent = r.sent + 1, !.up = p]
    OBVIOUS
  <2>6. Set(c, q)
    BY <1>9, <2>2, <2>3, <2>5 DEF Pipes
  <2>7. /\ q \in ConnState /\ q.up = p /\ q.sent = r.sent + 1
        /\ q.state = "piped" /\ q.client = r.client /\ q.upstream = r.upstream /\ q.paused = r.paused
    BY <1>1, <1>9, <2>2, <2>4, <2>5 DEF ConnState, Pipes
  <2>8. InOrder(q)
    <3>1. \A i \in 1..Len(q.up) : q.up[i] = i + 2
      BY <1>1, <2>1, <2>4, <2>7 DEF InOrder
    <3>2. Len(q.up) <= q.sent /\ q.sent = Len(q.up) + 2
      BY <2>1, <2>4, <2>7
    <3> QED BY <1>1, <1>9, <2>7, <3>1, <3>2 DEF InOrder, Handshakes, Pipes
  <2>9. bridge => Attended(q)
    BY <1>1, <2>7, <1>9 DEF Attended, Handshakes, Pipes
  <2> QED BY <1>3, <2>6, <2>7, <2>8, <2>9
<1>10. CASE HandshakeTimeout(c) \/ ClientResets(c)
  BY <1>3, <1>5, <1>10 DEF HandshakeTimeout, ClientResets
<1>11. CASE ClientEnds(c)
  <2> DEFINE q == [r EXCEPT !.client = "gone", !.state = IF @ = "piped" THEN @ ELSE "ended",
                            !.upstream = IF r.state = "piped" THEN "gone" ELSE @]
  <2>1. /\ q \in ConnState /\ q.up = r.up /\ q.sent = r.sent /\ q.client = "gone"
        /\ q.state = (IF r.state = "piped" THEN r.state ELSE "ended")
        /\ q.upstream = (IF r.state = "piped" THEN "gone" ELSE r.upstream) /\ q.paused = r.paused
    BY <1>1 DEF ConnState
  <2>2. ~r.paused
    BY <1>11 DEF ClientEnds
  <2>3. Fine(q)
    <3> HIDE DEF q
    <3> QED BY <1>1, <2>1, <2>2 DEF InOrder, Attended, Handshakes
  <2> QED BY <1>3, <1>11, <2>3 DEF ClientEnds
<1>12. CASE UpstreamFails(c)
  <2> DEFINE q == [r EXCEPT !.upstream = "gone"]
  <2>1. ConnKilled(q) \in ConnState /\ InOrder(ConnKilled(q)) /\ Attended(ConnKilled(q))
    <3>1. ConnKilled(q) \in ConnState
      BY <1>1 DEF ConnKilled, ConnState
    <3>2. InOrder(ConnKilled(q))
      <4>1. /\ ConnKilled(q).state = "closed" /\ ConnKilled(q).upstream # "open"
            /\ ConnKilled(q).up = r.up /\ ConnKilled(q).sent = r.sent
        BY <1>1 DEF ConnKilled, ConnState
      <4>2. Len(r.up) <= r.sent /\ \A i \in 1..Len(r.up) : r.up[i] = i + 2
        BY <1>1 DEF InOrder
      <4> HIDE DEF q
      <4> QED BY <4>1, <4>2 DEF InOrder, Handshakes
    <3>3. Attended(ConnKilled(q))
      <4>1. ConnKilled(q).state = "closed" /\ ConnKilled(q).upstream # "open"
        BY <1>1 DEF ConnKilled, ConnState
      <4> HIDE DEF q
      <4> QED BY <4>1 DEF Attended, Handshakes
    <3> QED BY <3>1, <3>2, <3>3
  <2> QED BY <1>3, <1>12, <2>1 DEF UpstreamFails
<1> QED BY <1>4, <1>6, <1>7, <1>8, <1>9, <1>10, <1>11, <1>12 DEF ConnStep

(* So does close(), which destroys every open client at once.               *)
LEMMA CloseKeeps == SocksInv /\ Close => SocksInv'
<1> SUFFICES ASSUME SocksInv, Close PROVE SocksInv'
  OBVIOUS
<1>1. ~bridge'
  BY DEF Close
<1>2. ASSUME NEW c \in Conn PROVE conn'[c] \in ConnState /\ InOrder(conn'[c])
  <2>1. conn[c] \in ConnState /\ InOrder(conn[c])
    BY DEF SocksInv, Sound
  <2>2. CASE conn[c].client = "open"
    <3>1. PICK q : q = [conn[c] EXCEPT !.client = "gone"]
      OBVIOUS
    <3>2. q \in ConnState /\ InOrder(q)
      BY <2>1, <3>1 DEF ConnState, InOrder
    <3> QED BY <2>2, <3>1, <3>2 DEF Close
  <2>3. CASE conn[c].client # "open"
    BY <2>1, <2>3 DEF Close
  <2> QED BY <2>2, <2>3
<1>3. conn' \in [Conn -> ConnState]
  BY <1>2 DEF Close
<1> QED BY <1>1, <1>2, <1>3 DEF SocksInv, Sound

(* The invariant gives what the run checks of the bridge.                   *)
LEMMA SocksInvIsSafe == SocksInv => SocksSafe
<1> SUFFICES ASSUME SocksInv PROVE SocksSafe
  OBVIOUS
<1>1. SocksTypeOK
  <2> SUFFICES ASSUME NEW c \in Conn PROVE
        /\ conn[c].state \in {"none", "greeting", "connect", "connecting", "piped", "closed", "ended"}
        /\ conn[c].client \in {"none", "open", "gone"} /\ conn[c].upstream \in {"none", "open", "gone"}
        /\ Len(conn[c].up) <= MaxBytes
    BY DEF SocksTypeOK
  <2>1. conn[c] \in ConnState /\ Len(conn[c].up) <= conn[c].sent
    BY DEF SocksInv, Sound, InOrder
  <2>2. Len(conn[c].up) \in Nat /\ conn[c].sent \in Nat /\ conn[c].sent <= MaxBytes
    BY <2>1, BytesBounded, LenProperties DEF ConnState
  <2>3. Len(conn[c].up) <= MaxBytes
    BY <2>1, <2>2, BytesBounded
  <2> QED BY <2>1, <2>3 DEF ConnState
<1>2. PayloadIsWhole
  <2> SUFFICES ASSUME NEW c \in Conn, NEW i \in DOMAIN conn[c].up PROVE conn[c].up[i] = i + 2
    BY DEF PayloadIsWhole
  <2>1. conn[c] \in ConnState /\ InOrder(conn[c])
    BY DEF SocksInv, Sound
  <2>2. DOMAIN conn[c].up = 1..Len(conn[c].up)
    BY <2>1, LenProperties DEF ConnState
  <2> QED BY <2>1, <2>2 DEF InOrder
<1>3. UpstreamNotLeaked
  BY DEF SocksInv, Sound, Attended, UpstreamNotLeaked
<1> QED BY <1>1, <1>2, <1>3 DEF SocksSafe

(* Whatever pieces a connection's bytes come in, and whichever of its       *)
(* sockets ends first: the proxy gets the payload whole and nothing else,   *)
(* and no upstream connection outlives its client while the bridge runs.    *)
THEOREM SocksSafeHolds == SocksSpec => []SocksSafe
<1>1. SocksInv /\ [SocksNext]_socksVars => SocksInv'
  <2>1. SocksInv /\ UNCHANGED socksVars => SocksInv'
    BY DEF SocksInv, Sound, socksVars, Attended
  <2> QED BY <2>1, CloseKeeps, SocksStepKeeps DEF SocksNext
<1>2. SocksSpec => []SocksInv
  BY <1>1, InitSocksInv, PTL DEF SocksSpec
<1> QED BY <1>2, SocksInvIsSafe, PTL
-----------------------------------------------------------------------------
(***************************************************************************)
(* The egress ledger.  As long as no lock was removed under a live owner,  *)
(* there is one owner, whose lock is the one that is there (OneOwner), and *)
(* what it read last is still the last line (LastIsLast): so every line    *)
(* carries the hash of the line before.  Afterwards a line may be broken,  *)
(* but a writer still only appends, so the first broken line, where        *)
(* verifyLedger stops, is broken for good.  Every mkdir admits one line    *)
(* (LinesCounted).                                                         *)
(***************************************************************************)
WriterRecords == [at : {"away", "spinning", "reclaiming", "locked", "read", "wrote"}, last : Nat, lock : Nat]
Lines == [by : Writer, prev : 0..MaxLines]
Pending == {w \in Writer : wr[w].at \in {"locked", "read"}}

LedgerTyped ==
  /\ wr \in [Writer -> WriterRecords]
  /\ lock \in Nat /\ mkdirs \in Nat /\ lock <= mkdirs /\ mkdirs <= MaxLines
  /\ ledger \in Seq(Lines)
  /\ stolen \in BOOLEAN /\ old \in BOOLEAN /\ crashes \in Nat

LinesCounted == IsFiniteSet(Pending) /\ Len(ledger) + Cardinality(Pending) <= mkdirs

OneOwner ==
  ~stolen => \A w \in Holders : /\ lock # Free /\ wr[w].lock = lock
                                /\ \A v \in Holders : v = w

LastIsLast == ~stolen => \A w \in Writer : wr[w].at = "read" => wr[w].last = Len(ledger)
LastIsALine == \A w \in Writer : wr[w].at = "read" => wr[w].last <= Len(ledger)

LedgerInv == LedgerTyped /\ LinesCounted /\ OneOwner /\ LastIsLast /\ LastIsALine /\ ChainHolds

(* A pending writer leaves room for its line                                *)
LEMMA PendingMayAppend ==
  ASSUME LedgerInv, NEW w \in Pending
  PROVE  Len(ledger) + 1 <= mkdirs /\ Cardinality(Pending \ {w}) = Cardinality(Pending) - 1
         /\ IsFiniteSet(Pending \ {w})
<1>1. IsFiniteSet(Pending) /\ Len(ledger) + Cardinality(Pending) <= mkdirs
  BY DEF LedgerInv, LinesCounted
<1>2. Cardinality(Pending \ {w}) = Cardinality(Pending) - 1 /\ IsFiniteSet(Pending \ {w})
  BY <1>1, FS_RemoveElement
<1>3. Cardinality(Pending) \in Nat /\ Cardinality(Pending \ {w}) \in Nat /\ Len(ledger) \in Nat /\ mkdirs \in Nat
  BY <1>1, <1>2, FS_CardinalityType, LenProperties DEF LedgerInv, LedgerTyped
<1> QED BY <1>1, <1>2, <1>3

(* Dropping or adding one pending writer                                    *)
LEMMA CountKept ==
  ASSUME LedgerInv, NEW w \in Writer, mkdirs' \in Nat, Len(ledger') \in Nat,
         \/ Pending' = Pending /\ Len(ledger') - Len(ledger) <= mkdirs' - mkdirs
         \/ Pending' = Pending \ {w} /\ Len(ledger') = Len(ledger) /\ mkdirs' = mkdirs
         \/ Pending' = Pending \ {w} /\ w \in Pending /\ Len(ledger') = Len(ledger) + 1 /\ mkdirs' = mkdirs
         \/ Pending' = Pending \cup {w} /\ Len(ledger') = Len(ledger) /\ mkdirs' = mkdirs + 1
  PROVE  LinesCounted'
<1>1. IsFiniteSet(Pending) /\ Len(ledger) + Cardinality(Pending) <= mkdirs
  BY DEF LedgerInv, LinesCounted
<1>2. Cardinality(Pending) \in Nat /\ Len(ledger) \in Nat /\ mkdirs \in Nat
  BY <1>1, FS_CardinalityType, LenProperties DEF LedgerInv, LedgerTyped
<1>3. CASE Pending' = Pending /\ Len(ledger') - Len(ledger) <= mkdirs' - mkdirs
  BY <1>1, <1>2, <1>3 DEF LinesCounted
<1>4. CASE Pending' = Pending \ {w}
  <2>1. IsFiniteSet(Pending \ {w}) /\ Cardinality(Pending \ {w}) = IF w \in Pending THEN Cardinality(Pending) - 1 ELSE Cardinality(Pending)
    BY <1>1, FS_RemoveElement
  <2>2. Len(ledger') + Cardinality(Pending') <= mkdirs'
    BY <1>1, <1>2, <1>4, <2>1
  <2> QED BY <1>4, <2>1, <2>2 DEF LinesCounted
<1>5. CASE Pending' = Pending \cup {w} /\ Len(ledger') = Len(ledger) /\ mkdirs' = mkdirs + 1
  <2>1. IsFiniteSet(Pending \cup {w}) /\ Cardinality(Pending \cup {w}) = IF w \in Pending THEN Cardinality(Pending) ELSE Cardinality(Pending) + 1
    BY <1>1, FS_AddElement
  <2>2. Len(ledger') + Cardinality(Pending') <= mkdirs'
    BY <1>1, <1>2, <1>5, <2>1
  <2> QED BY <1>5, <2>1, <2>2 DEF LinesCounted
<1> QED BY <1>3, <1>4, <1>5

(* A writer that takes no part in appending, with the ledger left alone     *)
LEMMA BystanderKeeps ==
  ASSUME LedgerInv, NEW w \in Writer, NEW r \in WriterRecords, wr' = [wr EXCEPT ![w] = r],
         r.at \in {"away", "spinning", "reclaiming"},
         UNCHANGED <<ledger, mkdirs>>,
         old' \in BOOLEAN, crashes' \in Nat, stolen' \in BOOLEAN, stolen => stolen',
         \/ lock' = lock
         \/ lock' = Free /\ (~stolen' => Holders \subseteq {w} \/ \A v \in Holders : wr[v].lock # lock)
         \/ lock' = Free /\ (~stolen' => \A v \in Holders \ {w} : wr[v].lock # lock)
  PROVE  LedgerInv'
<1> USE DEF LedgerInv
<1>1. LedgerTyped'
  BY DEF LedgerTyped, Free
<1>2. LinesCounted'
  <2>1. Pending' = Pending \ {w}
    BY DEF Pending, LedgerTyped
  <2>2. Len(ledger') \in Nat /\ Len(ledger) \in Nat /\ mkdirs \in Nat
    BY LenProperties DEF LedgerTyped
  <2> QED BY <2>1, <2>2, CountKept
<1>3. OneOwner'
  <2> SUFFICES ASSUME ~stolen', NEW v \in Holders'
               PROVE  lock' # Free /\ wr'[v].lock = lock' /\ \A u \in Holders' : u = v
    BY DEF OneOwner
  <2>1. Holders' \subseteq Holders \ {w} /\ wr'[v] = wr[v]
    BY DEF Holders, LedgerTyped
  <2>2. lock # Free /\ wr[v].lock = lock /\ \A u \in Holders : u = v
    BY <2>1 DEF OneOwner
  <2>3. lock' = lock
    BY <2>1, <2>2
  <2> QED BY <2>1, <2>2, <2>3
<1>4. LastIsLast' /\ LastIsALine' /\ ChainHolds'
  BY DEF LastIsLast, LastIsALine, ChainHolds, BrokenLines, LedgerTyped
<1> QED BY <1>1, <1>2, <1>3, <1>4

(* mkdir succeeds when there is no lock, hence no owner.                    *)
LEMMA MakesLockKeeps == ASSUME LedgerInv, NEW w \in Writer, MakesLock(w) PROVE LedgerInv'
<1> USE DEF LedgerInv
<1>1. PICK r : r = [wr[w] EXCEPT !.at = "locked", !.lock = mkdirs + 1]
  OBVIOUS
<1>2. /\ wr[w].at = "spinning" /\ lock = Free /\ mkdirs < MaxLines
      /\ mkdirs' = mkdirs + 1 /\ lock' = mkdirs + 1 /\ old' = FALSE
      /\ wr' = [wr EXCEPT ![w] = r]
      /\ UNCHANGED <<ledger, crashes, stolen>>
  BY <1>1 DEF MakesLock, GoesOn
<1>0. mkdirs + 1 \in Nat /\ mkdirs + 1 <= MaxLines
  BY <1>2, LedgerBounded DEF LedgerTyped
<1>3. r \in WriterRecords /\ r.at = "locked" /\ r.lock = mkdirs + 1
  BY <1>0, <1>1 DEF LedgerTyped, WriterRecords
<1>4. wr'[w] = r /\ \A v \in Writer \ {w} : wr'[v] = wr[v]
  BY <1>2 DEF LedgerTyped
<1>5. LedgerTyped'
  <2>1. wr' \in [Writer -> WriterRecords] /\ ledger' \in Seq(Lines) /\ stolen' \in BOOLEAN
        /\ old' \in BOOLEAN /\ crashes' \in Nat
    BY <1>2, <1>3 DEF LedgerTyped
  <2>2. lock' \in Nat /\ mkdirs' \in Nat /\ lock' <= mkdirs' /\ mkdirs' <= MaxLines
    BY <1>0, <1>2
  <2> QED BY <2>1, <2>2 DEF LedgerTyped
<1>6. LinesCounted'
  <2>1. Pending' = Pending \cup {w}
    BY <1>3, <1>4 DEF Pending
  <2>2. Len(ledger') \in Nat
    BY <1>5, LenProperties DEF LedgerTyped
  <2> QED BY <1>2, <1>5, <2>1, <2>2, CountKept DEF LedgerTyped
<1>7. OneOwner'
  <2> SUFFICES ASSUME ~stolen' PROVE OneOwner'
    BY DEF OneOwner
  <2>1. Holders = {}
    BY <1>2 DEF OneOwner
  <2>2. Holders' = {w}
    BY <1>3, <1>4, <2>1 DEF Holders
  <2> QED BY <1>2, <1>3, <1>4, <2>2 DEF OneOwner, Free, LedgerTyped
<1>8. LastIsLast' /\ LastIsALine' /\ ChainHolds'
  BY <1>2, <1>3, <1>4 DEF LastIsLast, LastIsALine, ChainHolds, BrokenLines
<1> QED BY <1>5, <1>6, <1>7, <1>8

(* The owner reads the last line there is.                                  *)
LEMMA ReadsLastKeeps == ASSUME LedgerInv, NEW w \in Writer, ReadsLast(w) PROVE LedgerInv'
<1> USE DEF LedgerInv
<1>1. PICK r : r = [wr[w] EXCEPT !.at = "read", !.last = Len(ledger)]
  OBVIOUS
<1>2. wr[w].at = "locked" /\ wr' = [wr EXCEPT ![w] = r]
      /\ UNCHANGED <<lock, old, ledger, mkdirs, crashes, stolen>>
  BY <1>1 DEF ReadsLast, GoesOn, Hash
<1>3. Len(ledger) \in Nat
  BY LenProperties DEF LedgerTyped
<1>4. r \in WriterRecords /\ r.at = "read" /\ r.last = Len(ledger) /\ r.lock = wr[w].lock
  BY <1>1, <1>3 DEF LedgerTyped, WriterRecords
<1>5. wr'[w] = r /\ \A v \in Writer \ {w} : wr'[v] = wr[v]
  BY <1>2 DEF LedgerTyped
<1>6. LedgerTyped'
  BY <1>2, <1>4 DEF LedgerTyped
<1>7. Pending' = Pending /\ Holders' = Holders
  BY <1>2, <1>4, <1>5 DEF Pending, Holders
<1>8. LinesCounted' /\ OneOwner'
  BY <1>2, <1>4, <1>5, <1>7 DEF LinesCounted, OneOwner, Holders
<1>9. LastIsLast' /\ LastIsALine' /\ ChainHolds'
  BY <1>2, <1>3, <1>4, <1>5 DEF LastIsLast, LastIsALine, ChainHolds, BrokenLines
<1> QED BY <1>6, <1>8, <1>9

(* A line that is appended: the ledger so far stays                         *)
LEMMA AppendedLine ==
  ASSUME LedgerInv, NEW w \in Writer, Appends(w)
  PROVE  \E l \in Lines : /\ ledger' = Append(ledger, l) /\ ledger' \in Seq(Lines)
                          /\ l.prev = wr[w].last
                          /\ Len(ledger') = Len(ledger) + 1 /\ Len(ledger) \in Nat
                          /\ ledger'[Len(ledger) + 1] = l
                          /\ \A i \in 1..Len(ledger) : ledger'[i] = ledger[i]
<1>1. PICK l : l = [by |-> w, prev |-> wr[w].last]
  OBVIOUS
<1>2. wr[w].at = "read" /\ ledger' = Append(ledger, l)
  BY <1>1 DEF Appends
<1>3. ledger \in Seq(Lines) /\ Len(ledger) \in Nat /\ wr[w].last \in Nat /\ mkdirs \in Nat
  BY LenProperties DEF LedgerInv, LedgerTyped, WriterRecords
<1>4. wr[w].last \in 0..MaxLines
  <2>1. w \in Pending
    BY <1>2 DEF Pending
  <2>2. Len(ledger) + 1 <= mkdirs
    BY <2>1, PendingMayAppend
  <2>3. wr[w].last <= Len(ledger) /\ mkdirs <= MaxLines
    BY <1>2 DEF LedgerInv, LastIsALine, LedgerTyped
  <2> QED BY <1>3, <2>2, <2>3, LedgerBounded
<1>5. l \in Lines /\ l.prev = wr[w].last
  BY <1>1, <1>4 DEF Lines
<1> QED BY <1>2, <1>3, <1>5, AppendProperties

(* The owner's line carries the hash of the last line: nobody else appends. *)
LEMMA AppendsKeeps == ASSUME LedgerInv, NEW w \in Writer, Appends(w) PROVE LedgerInv'
<1> USE DEF LedgerInv
<1>1. PICK l \in Lines : /\ ledger' = Append(ledger, l) /\ ledger' \in Seq(Lines)
                         /\ l.prev = wr[w].last
                         /\ Len(ledger') = Len(ledger) + 1 /\ Len(ledger) \in Nat
                         /\ ledger'[Len(ledger) + 1] = l
                         /\ \A i \in 1..Len(ledger) : ledger'[i] = ledger[i]
  BY AppendedLine
<1>2. PICK r : r = [wr[w] EXCEPT !.at = "wrote"]
  OBVIOUS
<1>3. wr[w].at = "read" /\ wr' = [wr EXCEPT ![w] = r] /\ UNCHANGED <<lock, old, mkdirs, crashes, stolen>>
  BY <1>2 DEF Appends, GoesOn
<1>4. r \in WriterRecords /\ r.at = "wrote" /\ r.lock = wr[w].lock
  BY <1>2 DEF LedgerTyped, WriterRecords
<1>5. wr'[w] = r /\ \A v \in Writer \ {w} : wr'[v] = wr[v]
  BY <1>3 DEF LedgerTyped
<1>6. LedgerTyped'
  BY <1>1, <1>3, <1>4 DEF LedgerTyped
<1>7. LinesCounted'
  <2>1. Pending' = Pending \ {w} /\ w \in Pending
    BY <1>3, <1>4, <1>5 DEF Pending
  <2>2. mkdirs' \in Nat /\ mkdirs' = mkdirs /\ Len(ledger') \in Nat
    BY <1>1, <1>3 DEF LedgerTyped
  <2> QED BY <1>1, <2>1, <2>2, CountKept
<1>8. OneOwner' /\ Holders' = Holders
  <2>1. Holders' = Holders
    BY <1>3, <1>4, <1>5 DEF Holders
  <2> QED BY <1>3, <1>4, <1>5, <2>1 DEF OneOwner, Holders
<1>9. LastIsALine'
  <2> SUFFICES ASSUME NEW v \in Writer, wr'[v].at = "read" PROVE wr'[v].last <= Len(ledger')
    BY DEF LastIsALine
  <2>1. v # w /\ wr'[v] = wr[v] /\ wr[v].last \in Nat
    BY <1>4, <1>5 DEF LedgerTyped, WriterRecords
  <2>2. wr[v].last <= Len(ledger)
    BY <2>1 DEF LastIsALine
  <2> QED BY <1>1, <2>1, <2>2
<1>10. LastIsLast'
  <2> SUFFICES ASSUME ~stolen, NEW v \in Writer, wr'[v].at = "read" PROVE FALSE
    BY <1>3 DEF LastIsLast
  <2>1. v \in Holders' /\ w \in Holders' /\ v # w
    BY <1>4, <1>5 DEF Holders
  <2> QED BY <1>3, <1>8, <2>1 DEF OneOwner
<1>11. ChainHolds'
  <2> SUFFICES ASSUME ~stolen PROVE BrokenLines' = {}
    BY <1>3 DEF ChainHolds
  <2>1. BrokenLines = {} /\ l.prev = Len(ledger)
    BY <1>1, <1>3 DEF ChainHolds, LastIsLast
  <2>2. ASSUME NEW i \in 1..Len(ledger') PROVE ledger'[i].prev = i - 1
    <3>1. CASE i = Len(ledger) + 1
      BY <1>1, <2>1, <3>1
    <3>2. CASE i # Len(ledger) + 1
      <4>1. i \in 1..Len(ledger)
        BY <1>1, <2>2, <3>2
      <4> QED BY <1>1, <2>1, <4>1 DEF BrokenLines
    <3> QED BY <3>1, <3>2
  <2> QED BY <2>2 DEF BrokenLines
<1> QED BY <1>6, <1>7, <1>8, <1>9, <1>10, <1>11

(* Asking, waiting, removing a lock, unlocking and dying write nothing.     *)
LEMMA OtherWriterStepKeeps ==
  ASSUME LedgerInv, NEW w \in Writer,
         Asks(w) \/ StatsLock(w) \/ Reclaims(w) \/ Unlocks(w) \/ WriterDies(w)
  PROVE  LedgerInv'
<1> USE DEF LedgerInv
<1>1. wr[w] \in WriterRecords
  BY DEF LedgerTyped
<1>2. PICK s : s = [Away EXCEPT !.at = "spinning"]
  OBVIOUS
<1>3. PICK m : m = [wr[w] EXCEPT !.at = "reclaiming"]
  OBVIOUS
<1>4. PICK n : n = [wr[w] EXCEPT !.at = "spinning"]
  OBVIOUS
<1>5. /\ s \in WriterRecords /\ s.at = "spinning" /\ m \in WriterRecords /\ m.at = "reclaiming"
      /\ n \in WriterRecords /\ n.at = "spinning" /\ Away \in WriterRecords /\ Away.at = "away"
  BY <1>1, <1>2, <1>3, <1>4 DEF WriterRecords, Away, Free, Start
<1>6. CASE Asks(w)
  BY <1>2, <1>5, <1>6, BystanderKeeps DEF Asks, GoesOn, LedgerTyped
<1>7. CASE StatsLock(w)
  <2>1. wr' = [wr EXCEPT ![w] = m] \/ wr' = [wr EXCEPT ![w] = Away]
    BY <1>3, <1>7 DEF StatsLock, GoesOn
  <2>2. UNCHANGED <<lock, old, ledger, mkdirs, crashes, stolen>>
    BY <1>7 DEF StatsLock
  <2> QED BY <1>5, <2>1, <2>2, BystanderKeeps DEF LedgerTyped
<1>8. CASE Reclaims(w)
  <2>1. wr' = [wr EXCEPT ![w] = n] /\ lock' = Free /\ old' = FALSE /\ UNCHANGED <<ledger, mkdirs, crashes>>
        /\ stolen' = (stolen \/ \E v \in Holders : wr[v].lock = lock)
    BY <1>4, <1>8 DEF Reclaims, RemovesLock, GoesOn
  <2>2. stolen' \in BOOLEAN /\ (stolen => stolen') /\ (~stolen' => \A v \in Holders : wr[v].lock # lock)
    BY <2>1
  <2> QED BY <1>5, <2>1, <2>2, BystanderKeeps DEF LedgerTyped
<1>9. CASE Unlocks(w)
  <2>1. wr' = [wr EXCEPT ![w] = Away] /\ lock' = Free /\ old' = FALSE /\ UNCHANGED <<ledger, mkdirs, crashes>>
        /\ stolen' = (stolen \/ \E v \in Holders \ {w} : wr[v].lock = lock)
    BY <1>9 DEF Unlocks, GoesOn
  <2>2. stolen' \in BOOLEAN /\ (stolen => stolen') /\ (~stolen' => \A v \in Holders \ {w} : wr[v].lock # lock)
    BY <2>1
  <2> QED BY <1>5, <2>1, <2>2, BystanderKeeps DEF LedgerTyped
<1>10. CASE WriterDies(w)
  <2>1. wr' = [wr EXCEPT ![w] = Away] /\ crashes' = crashes + 1 /\ UNCHANGED <<lock, old, ledger, mkdirs, stolen>>
    BY <1>10 DEF WriterDies, GoesOn
  <2>2. old' \in BOOLEAN /\ crashes' \in Nat /\ stolen' \in BOOLEAN /\ (stolen => stolen')
        /\ lock' = lock /\ UNCHANGED <<ledger, mkdirs>>
    BY <2>1 DEF LedgerTyped
  <2> QED BY <1>5, <2>1, <2>2, BystanderKeeps
<1> QED BY <1>6, <1>7, <1>8, <1>9, <1>10

(* Every step of every writer keeps the invariant.                          *)
LEMMA LedgerStepKeeps == LedgerInv /\ [LedgerNext]_ledgerVars => LedgerInv'
<1> SUFFICES ASSUME LedgerInv, [LedgerNext]_ledgerVars PROVE LedgerInv'
  OBVIOUS
<1>1. CASE \E w \in Writer : WriterStep(w)
  BY <1>1, MakesLockKeeps, ReadsLastKeeps, AppendsKeeps, OtherWriterStepKeeps DEF WriterStep
<1>2. CASE LockAges \/ UNCHANGED ledgerVars
  <2>1. UNCHANGED <<wr, lock, ledger, mkdirs, crashes, stolen>> /\ old' \in BOOLEAN
    BY <1>2 DEF LockAges, ledgerVars, LedgerInv, LedgerTyped
  <2>2. Pending' = Pending /\ Holders' = Holders
    BY <2>1 DEF Pending, Holders
  <2> QED BY <2>1, <2>2 DEF LedgerInv, LedgerTyped, LinesCounted, OneOwner, LastIsLast, LastIsALine, ChainHolds, BrokenLines
<1> QED BY <1>1, <1>2 DEF LedgerNext

(* verifyLedger finds the first broken line                                 *)
LEMMA FirstBroken ==
  ASSUME NEW B \in SUBSET Nat, B # {}
  PROVE  \E i \in B : \A j \in B : i <= j
<1>1. PICK i \in B : \A j \in B : ~(<<j, i>> \in OpToRel(<, Nat))
  BY NatLessThanWellFounded, WFMin
<1>2. \A j \in B : i <= j
  <2> SUFFICES ASSUME NEW j \in B, j < i PROVE FALSE
    OBVIOUS
  <2>1. <<j, i>> \in Nat \X Nat /\ <<j, i>>[1] < <<j, i>>[2]
    OBVIOUS
  <2>2. <<j, i>> \in OpToRel(<, Nat)
    BY <2>1 DEF OpToRel
  <2> QED BY <1>1, <2>2
<1> QED BY <1>2

(* One line more leaves the broken lines before it as they are              *)
LEMMA BrokenAfterAppend ==
  ASSUME LedgerInv, NEW l \in Lines, ledger' = Append(ledger, l), ledger' \in Seq(Lines),
         Len(ledger') = Len(ledger) + 1, Len(ledger) \in Nat, ledger'[Len(ledger) + 1] = l,
         \A i \in 1..Len(ledger) : ledger'[i] = ledger[i]
  PROVE  /\ BrokenLines \subseteq 1..Len(ledger)
         /\ \A i \in 1..Len(ledger) : i \in BrokenLines' <=> i \in BrokenLines
         /\ \A i \in BrokenLines' : i \in 1..Len(ledger) \/ i = Len(ledger) + 1
         /\ Len(ledger) + 1 \in BrokenLines' <=> l.prev # Len(ledger)
BY DEF BrokenLines

(* A line that is appended is accepted or not; nothing accepted is lost     *)
LEMMA AppendIsALogStep ==
  ASSUME LedgerInv, NEW w \in Writer, Appends(w)
  PROVE  Log!LogNext \/ Verified' = Verified
<1>1. PICK l \in Lines : /\ ledger' = Append(ledger, l) /\ ledger' \in Seq(Lines)
                         /\ l.prev = wr[w].last
                         /\ Len(ledger') = Len(ledger) + 1 /\ Len(ledger) \in Nat
                         /\ ledger'[Len(ledger) + 1] = l
                         /\ \A i \in 1..Len(ledger) : ledger'[i] = ledger[i]
  BY AppendedLine
<1>2. PICK n \in Nat : n = Len(ledger)
  BY <1>1
<1>3. /\ BrokenLines \subseteq 1..n
      /\ \A i \in 1..n : i \in BrokenLines' <=> i \in BrokenLines
      /\ \A i \in BrokenLines' : i \in 1..n \/ i = n + 1
      /\ n + 1 \in BrokenLines' <=> l.prev # n
  BY <1>1, <1>2, BrokenAfterAppend
<1>4. ledger \in Seq(Lines)
  BY DEF LedgerInv, LedgerTyped
<1>5. ASSUME NEW k \in 0..n PROVE SubSeq(ledger', 1, k) = SubSeq(ledger, 1, k)
  <2>1. \A i \in 1..k : ledger[i] \in Lines /\ ledger'[i] = ledger[i]
    BY <1>1, <1>2, <1>4, ElementOfSeq
  <2>2. \A i \in 1..k : ledger'[i] \in Lines
    BY <2>1
  <2>3. /\ SubSeq(ledger, 1, k) \in Seq(Lines) /\ Len(SubSeq(ledger, 1, k)) = k
        /\ \A i \in 1..k : SubSeq(ledger, 1, k)[i] = ledger[i]
    BY <2>1, SubSeqProperties
  <2>4. /\ SubSeq(ledger', 1, k) \in Seq(Lines) /\ Len(SubSeq(ledger', 1, k)) = k
        /\ \A i \in 1..k : SubSeq(ledger', 1, k)[i] = ledger'[i]
    BY <2>2, SubSeqProperties
  <2> QED BY <2>1, <2>3, <2>4, SeqEqual
<1>6. CASE BrokenLines = {} /\ l.prev = n
  <2>1. BrokenLines' = {}
    BY <1>3, <1>6
  <2>2. Verified = ledger /\ Verified' = Append(ledger, l)
    BY <1>1, <1>6, <2>1 DEF Verified
  <2>3. Verified' # Verified
    BY <1>1, <2>2
  <2> QED BY <2>2, <2>3 DEF Log!LogNext, Lines
<1>7. CASE BrokenLines = {} /\ l.prev # n
  <2>1. BrokenLines' = {n + 1}
    BY <1>3, <1>7
  <2>2. (CHOOSE i \in BrokenLines' : \A j \in BrokenLines' : i <= j) = n + 1
    BY <2>1
  <2>3. Verified' = SubSeq(ledger', 1, n)
    BY <2>1, <2>2 DEF Verified
  <2>4. Verified = ledger /\ SubSeq(ledger, 1, n) = ledger
    BY <1>2, <1>4, <1>7, SubSeqFull DEF Verified
  <2> QED BY <1>5, <2>3, <2>4
<1>8. CASE BrokenLines # {}
  <2>1. PICK k : k = CHOOSE i \in BrokenLines : \A j \in BrokenLines : i <= j
    OBVIOUS
  <2>2. k \in BrokenLines /\ \A j \in BrokenLines : k <= j
    <3>1. BrokenLines \subseteq Nat
      BY <1>3
    <3> QED BY <1>8, <2>1, <3>1, FirstBroken
  <2>3. k \in 1..n /\ k \in BrokenLines'
    BY <1>3, <2>2
  <2>4. PICK m : m = CHOOSE i \in BrokenLines' : \A j \in BrokenLines' : i <= j
    OBVIOUS
  <2>5. m \in BrokenLines' /\ \A j \in BrokenLines' : m <= j
    <3>1. BrokenLines' \subseteq Nat /\ BrokenLines' # {}
      BY <1>3, <2>3
    <3> QED BY <2>4, <3>1, FirstBroken
  <2>6. m \in 1..n
    BY <1>3, <2>3, <2>5
  <2>7. m = k
    BY <1>3, <2>2, <2>3, <2>5, <2>6
  <2>8. Verified = SubSeq(ledger, 1, k - 1) /\ Verified' = SubSeq(ledger', 1, k - 1)
    BY <1>8, <2>1, <2>3, <2>4, <2>7 DEF Verified
  <2> QED BY <1>5, <2>3, <2>8
<1> QED BY <1>6, <1>7, <1>8

(* Whatever writers wait, die and reclaim locks: the ledger is one chain as *)
(* long as no live owner lost its lock, and what verifyLedger accepts is only *)
(* ever appended to (EgressLog).                                            *)
THEOREM LedgerCorrectHolds == LedgerSpec => LedgerCorrect
<1>1. LedgerInit => LedgerInv /\ Log!LogInit
  <2> SUFFICES ASSUME LedgerInit PROVE LedgerInv /\ Log!LogInit
    OBVIOUS
  <2>1. LedgerTyped
    <3>1. Away \in WriterRecords
      BY DEF WriterRecords, Away, Free, Start
    <3>2. ledger \in Seq(Lines)
      BY EmptySeq DEF LedgerInit
    <3>3. /\ wr \in [Writer -> WriterRecords] /\ stolen \in BOOLEAN /\ old \in BOOLEAN /\ crashes \in Nat
          /\ lock = 0 /\ mkdirs = 0
      BY <3>1 DEF LedgerInit, Free
    <3> QED BY <3>2, <3>3, LedgerBounded DEF LedgerTyped
  <2>2. Holders = {} /\ Pending = {} /\ Len(ledger) = 0 /\ BrokenLines = {}
    BY DEF LedgerInit, Holders, Pending, Away, BrokenLines
  <2>3. LinesCounted
    BY <2>2, FS_EmptySet DEF LinesCounted, LedgerInit
  <2>4. OneOwner /\ LastIsLast /\ LastIsALine /\ ChainHolds
    BY <2>2 DEF LedgerInit, OneOwner, LastIsLast, LastIsALine, ChainHolds, Away
  <2>5. Log!LogInit
    BY <2>2 DEF Log!LogInit, Verified, LedgerInit
  <2> QED BY <2>1, <2>3, <2>4, <2>5 DEF LedgerInv
<1>2. LedgerInv /\ [LedgerNext]_ledgerVars => LedgerInv'
  BY LedgerStepKeeps
<1>3. LedgerInv => LedgerTypeOK /\ ChainHolds
  <2> SUFFICES ASSUME LedgerInv PROVE LedgerTypeOK
    BY DEF LedgerInv
  <2>1. Len(ledger) <= mkdirs
    <3>1. Cardinality(Pending) \in Nat /\ Len(ledger) + Cardinality(Pending) <= mkdirs
      BY FS_CardinalityType DEF LedgerInv, LinesCounted
    <3>2. Len(ledger) \in Nat /\ mkdirs \in Nat
      BY LenProperties DEF LedgerInv, LedgerTyped
    <3> QED BY <3>1, <3>2
  <2> QED BY <2>1 DEF LedgerInv, LedgerTyped, LedgerTypeOK, WriterRecords
<1>4. LedgerInv /\ [LedgerNext]_ledgerVars => [Log!LogNext]_Verified
  <2> SUFFICES ASSUME LedgerInv, [LedgerNext]_ledgerVars PROVE Log!LogNext \/ Verified' = Verified
    OBVIOUS
  <2>1. CASE UNCHANGED ledger
    BY <2>1 DEF Verified, BrokenLines
  <2>2. CASE \E w \in Writer : Appends(w)
    BY <2>2, AppendIsALogStep
  <2>3. (\E w \in Writer : Appends(w)) \/ UNCHANGED ledger
    BY DEF LedgerNext, WriterStep, ledgerVars, Asks, MakesLock, StatsLock, Reclaims, ReadsLast, Unlocks,
           WriterDies, LockAges
  <2> QED BY <2>1, <2>2, <2>3
<1> QED BY <1>1, <1>2, <1>3, <1>4, PTL DEF LedgerSpec, LedgerCorrect, LedgerImplementsLog, Log!LogSpec
-----------------------------------------------------------------------------
Stage == {"new", "lookup", "reading", "probing", "polling", "extracting",
          "adding", "added", "clearing", "cleared", "over"}
JobState == [at : Stage, sites : SUBSET Site, now : SUBSET Site, tries : Nat,
             context : Nat \ {0}, changed : SUBSET Site]

JobsTyped == job \in [Job -> JobState] /\ \A j \in Job : job[j].context <= context /\ (Is(j, "lookup") => job[j].tries > 0)

PickerTyped ==
  /\ JobsTyped /\ context \in Nat \ {0} /\ saving \in BOOLEAN /\ chromes \subseteq Job
  /\ jar \subseteq Site /\ carried \subseteq Site /\ imported \subseteq Site /\ blurred \subseteq Site
  /\ answered \in Seq(Job)

Awaited(j) == job[j].at \in {"added", "cleared"}

(* A request whose call took effect has one answer under way, and no other  *)
(* has.                                                                     *)
AnswersAreOut ==
  /\ \A i, k \in DOMAIN answered : answered[i] = answered[k] => i = k
  /\ \A j \in Job : Awaited(j) <=> \E i \in DOMAIN answered : answered[i] = j

(* Of a site that is not blurred, the jar has what the last answer under    *)
(* way says, and else what the list says; a replacement carries the same.   *)
LastSays(i, s) ==
  /\ s \in job[answered[i]].now
  /\ \A k \in DOMAIN answered : k > i => s \notin job[answered[k]].now
Unheard(s) == \A i \in DOMAIN answered : s \notin job[answered[i]].now
GoesIn(i) == job[answered[i]].at = "added"
JarFollows ==
  \A s \in Site \ blurred :
    /\ Unheard(s) => (s \in jar <=> s \in imported)
    /\ \A i \in DOMAIN answered : LastSays(i, s) => (s \in jar <=> GoesIn(i))
    /\ saving => (s \in carried <=> s \in jar)

(* The list is compared with the jar only through the answers under way,   *)
(* and these only in order: ListIsTrue alone does not say which comes last. *)
PickerInv == PickerTyped /\ ChromeGoesWithImport /\ AnswersAreOut /\ JarFollows

(* Nothing is imported and no request is under way at the start.            *)
LEMMA PickerStarts == PickerInit => PickerInv
<1> SUFFICES ASSUME PickerInit PROVE PickerInv
  OBVIOUS
<1>1. \A j \in Job : job[j] = NewJob
  BY DEF PickerInit
<1>2. NewJob \in JobState /\ NewJob.at = "new" /\ NewJob.context = 1
  BY DEF NewJob, JobState, Stage
<1>3. JobsTyped
  BY <1>1, <1>2 DEF PickerInit, JobsTyped, Is
<1>4. PickerTyped
  <2>1. answered \in Seq(Job)
    BY EmptySeq DEF PickerInit
  <2>2. 1 \in Nat \ {0} /\ FALSE \in BOOLEAN
    OBVIOUS
  <2>3. context \in Nat \ {0} /\ saving \in BOOLEAN
    BY <2>2 DEF PickerInit
  <2> QED BY <1>3, <2>1, <2>3 DEF PickerInit, PickerTyped
<1>5. DOMAIN answered = {}
  BY DEF PickerInit
<1>6. AnswersAreOut
  BY <1>1, <1>2, <1>5 DEF AnswersAreOut, Awaited
<1>7. JarFollows
  BY <1>5 DEF JarFollows, PickerInit
<1> QED BY <1>4, <1>6, <1>7 DEF PickerInv, ChromeGoesWithImport, PickerInit

(* A step of a request that has no answer under way, before or after, and   *)
(* that touches neither the jar nor the list.                               *)
LEMMA StepAside ==
  ASSUME PickerInv, NEW j \in Job, NEW r \in JobState, job' = [job EXCEPT ![j] = r],
         ~Awaited(j), r.at \notin {"added", "cleared"}, r.at = "lookup" => r.tries > 0, r.context <= context,
         UNCHANGED <<imported, chromium>>, chromes' \subseteq Job,
         j \in chromes' => r.at \in {"polling", "extracting"}, chromes' \subseteq chromes \cup {j}
  PROVE  PickerInv'
<1> USE DEF PickerInv, chromium
<1>1. job \in [Job -> JobState]
  BY DEF PickerTyped, JobsTyped
<1>2. job'[j] = r /\ \A i \in Job \ {j} : job'[i] = job[i]
  BY <1>1
<1>3. job' \in [Job -> JobState]
  BY <1>1
<1>4. PickerTyped'
  BY <1>2, <1>3 DEF PickerTyped, JobsTyped, Is
<1>5. ChromeGoesWithImport'
  BY <1>2 DEF ChromeGoesWithImport, PickerTyped
<1>6. \A i \in Job : Awaited(i)' <=> Awaited(i)
  BY <1>2 DEF Awaited
<1>7. AnswersAreOut'
  BY <1>6 DEF AnswersAreOut
<1>8. \A i \in DOMAIN answered : answered[i] \in Job /\ Awaited(answered[i])
  BY ElementOfSeq, LenProperties DEF AnswersAreOut, PickerTyped
<1>9. \A i \in DOMAIN answered : job'[answered[i]] = job[answered[i]]
  BY <1>2, <1>8
<1>10. JarFollows'
  BY <1>9 DEF JarFollows, LastSays, Unheard, GoesIn
<1> QED BY <1>4, <1>5, <1>7, <1>10

(* Every answer under way belongs to a request that waits for it.           *)
LEMMA AnswersAreAwaited ==
  ASSUME PickerInv
  PROVE  \A i \in DOMAIN answered : answered[i] \in Job /\ Awaited(answered[i])
BY ElementOfSeq, LenProperties DEF PickerInv, AnswersAreOut, PickerTyped

(* A call takes effect, and its answer goes after those under way.          *)
LEMMA OneAnswerMore ==
  ASSUME PickerInv, NEW j \in Job, ~Awaited(j), Awaited(j)', NEW now, now = job'[j].now,
         \A i \in Job \ {j} : job'[i].at = job[i].at /\ job'[i].now = job[i].now,
         answered' = Append(answered, j),
         \A s \in Site \ blurred' :
           IF s \in now THEN s \in jar' <=> job'[j].at = "added" ELSE s \in jar' <=> s \in jar,
         saving => now \subseteq blurred',
         blurred \subseteq blurred', UNCHANGED <<imported, saving, carried>>
  PROVE  AnswersAreOut' /\ JarFollows'
<1> USE DEF PickerInv
<1>1. answered \in Seq(Job)
  BY DEF PickerTyped
<1>2. PICK n \in Nat : n = Len(answered)
  BY <1>1, LenProperties
<1>3. /\ DOMAIN answered = 1..n /\ DOMAIN answered' = 1..n + 1 /\ answered'[n + 1] = j
      /\ \A i \in 1..n : answered'[i] = answered[i]
  BY <1>1, <1>2, AppendProperties, LenProperties
<1>4. \A i : i \in 1..n + 1 <=> i \in 1..n \/ i = n + 1
  BY <1>2
<1>5. \A i \in 1..n : answered[i] \in Job \ {j} /\ n + 1 > i /\ i # n + 1
  BY <1>2, <1>3, AnswersAreAwaited
<1>6. \A i \in 1..n : /\ job'[answered'[i]].now = job[answered[i]].now
                      /\ job'[answered'[i]].at = job[answered[i]].at
  BY <1>3, <1>5
<1>7. AnswersAreOut'
  <2>1. ASSUME NEW i \in DOMAIN answered', NEW k \in DOMAIN answered', answered'[i] = answered'[k]
        PROVE  i = k
    BY <1>3, <1>4, <1>5, <2>1 DEF AnswersAreOut
  <2>2. ASSUME NEW i \in Job PROVE Awaited(i)' <=> \E k \in DOMAIN answered' : answered'[k] = i
    <3>1. CASE i = j
      BY <1>3, <1>4, <3>1
    <3>2. CASE i # j
      <4>1. Awaited(i)' <=> Awaited(i)
        BY <3>2 DEF Awaited
      <4>2. Awaited(i) <=> \E k \in 1..n : answered[k] = i
        BY <1>3 DEF AnswersAreOut
      <4> QED BY <1>3, <1>4, <3>2, <4>1, <4>2
    <3> QED BY <3>1, <3>2
  <2> QED BY <2>1, <2>2 DEF AnswersAreOut
<1>8. ASSUME NEW s \in Site \ blurred'
      PROVE  /\ Unheard(s)' => (s \in jar' <=> s \in imported')
             /\ \A i \in DOMAIN answered' : LastSays(i, s)' => (s \in jar' <=> GoesIn(i)')
             /\ saving' => (s \in carried' <=> s \in jar')
  <2>0. s \in Site \ blurred
    BY <1>8
  <2>1. CASE s \in now
    <3>1. ~Unheard(s)' /\ ~saving' /\ (s \in jar' <=> job'[j].at = "added")
      BY <1>3, <1>4, <1>8, <2>1 DEF Unheard
    <3>2. \A i \in 1..n : ~LastSays(i, s)'
      BY <1>3, <1>4, <1>5, <2>1 DEF LastSays
    <3>3. GoesIn(n + 1)' <=> job'[j].at = "added"
      BY <1>3 DEF GoesIn
    <3> QED BY <1>3, <1>4, <3>1, <3>2, <3>3
  <2>2. CASE s \notin now
    <3>1. s \in jar' <=> s \in jar
      BY <1>8, <2>2
    <3>2. Unheard(s)' => Unheard(s)
      BY <1>3, <1>4, <1>6 DEF Unheard
    <3>3. ~LastSays(n + 1, s)'
      BY <1>3, <2>2 DEF LastSays
    <3>4. \A i \in 1..n : LastSays(i, s)' => LastSays(i, s)
      BY <1>3, <1>4, <1>6 DEF LastSays
    <3>5. \A i \in 1..n : GoesIn(i)' <=> GoesIn(i)
      BY <1>6 DEF GoesIn
    <3>6. /\ Unheard(s) => (s \in jar <=> s \in imported)
          /\ \A i \in 1..n : LastSays(i, s) => (s \in jar <=> GoesIn(i))
          /\ saving => (s \in carried <=> s \in jar)
      BY <1>3, <2>0 DEF JarFollows
    <3> QED BY <1>3, <1>4, <3>1, <3>2, <3>3, <3>4, <3>5, <3>6
  <2> QED BY <2>1, <2>2
<1> QED BY <1>7, <1>8 DEF JarFollows

(* Where the k-th of the other answers was before the i-th left.            *)
Up(i, k) == IF k < i THEN k ELSE k + 1

(* An answer arrives, or is lost, and the others keep their order.          *)
LEMMA OneAnswerLess ==
  ASSUME PickerInv, NEW i \in DOMAIN answered, NEW j, j = answered[i], ~Awaited(j)',
         \A q \in Job \ {j} : job'[q] = job[q],
         DOMAIN answered' = 1..Len(answered) - 1,
         \A k \in DOMAIN answered' : answered'[k] = answered[Up(i, k)]
  PROVE  /\ AnswersAreOut'
         /\ \A k \in DOMAIN answered' : /\ Up(i, k) \in DOMAIN answered
                                        /\ GoesIn(k)' <=> GoesIn(Up(i, k))
         /\ \A s : /\ s \notin job[j].now /\ Unheard(s)' => Unheard(s)
                   /\ i = 1 /\ s \in job[j].now /\ Unheard(s)' => LastSays(1, s)
                   /\ i = 1 \/ s \notin job[j].now =>
                        \A k \in DOMAIN answered' : LastSays(k, s)' => LastSays(Up(i, k), s)
<1> USE DEF PickerInv
<1>1. PICK n \in Nat : n = Len(answered)
  BY LenProperties DEF PickerTyped
<1>2. DOMAIN answered = 1..n /\ DOMAIN answered' = 1..n - 1 /\ i \in 1..n
  BY <1>1, LenProperties DEF PickerTyped
<1>3. \A k \in 1..n - 1 : Up(i, k) \in 1..n /\ Up(i, k) # i
  BY <1>1, <1>2 DEF Up
<1>4. \A k \in 1..n : k # i => \E m \in 1..n - 1 : Up(i, m) = k
  <2> SUFFICES ASSUME NEW k \in 1..n, k # i PROVE \E m \in 1..n - 1 : Up(i, m) = k
    OBVIOUS
  <2>1. CASE k < i
    <3>1. k \in 1..n - 1 /\ Up(i, k) = k
      BY <1>1, <1>2, <2>1 DEF Up
    <3> QED BY <3>1
  <2>2. CASE k > i
    <3>1. k - 1 \in 1..n - 1 /\ Up(i, k - 1) = k
      BY <1>1, <1>2, <2>2 DEF Up
    <3> QED BY <3>1
  <2> QED BY <1>1, <1>2, <2>1, <2>2
<1>5. \A k, m \in 1..n - 1 : /\ Up(i, k) = Up(i, m) => k = m
                             /\ m > k <=> Up(i, m) > Up(i, k)
                             /\ i = 1 => Up(i, k) > i
  BY <1>1, <1>2 DEF Up
<1>6. \A k \in 1..n : answered[k] = j => k = i
  BY <1>2 DEF AnswersAreOut
<1>7. \A k \in 1..n - 1 : answered'[k] = answered[Up(i, k)] /\ answered[Up(i, k)] \in Job \ {j}
  BY <1>2, <1>3, <1>6, AnswersAreAwaited
<1>8. \A k \in 1..n - 1 : job'[answered'[k]] = job[answered[Up(i, k)]]
  BY <1>7
<1>9. AnswersAreOut'
  <2>1. \A k, m \in 1..n - 1 : answered'[k] = answered'[m] => k = m
    BY <1>2, <1>3, <1>5, <1>7 DEF AnswersAreOut
  <2>2. ASSUME NEW q \in Job PROVE Awaited(q)' <=> \E k \in 1..n - 1 : answered'[k] = q
    <3>1. CASE q = j
      BY <1>7, <3>1
    <3>2. CASE q # j
      <4>1. Awaited(q)' <=> \E k \in 1..n : answered[k] = q
        BY <1>2, <3>2 DEF AnswersAreOut, Awaited
      <4>2. \A k \in 1..n : answered[k] = q => k # i
        BY <3>2
      <4>3. ASSUME NEW k \in 1..n, answered[k] = q PROVE \E m \in 1..n - 1 : answered'[m] = q
        <5>1. PICK m \in 1..n - 1 : Up(i, m) = k
          BY <1>4, <4>2, <4>3
        <5> QED BY <1>7, <4>3, <5>1
      <4>4. ASSUME NEW m \in 1..n - 1, answered'[m] = q PROVE \E k \in 1..n : answered[k] = q
        BY <1>3, <1>7, <4>4
      <4> QED BY <4>1, <4>3, <4>4
    <3> QED BY <3>1, <3>2
  <2> QED BY <1>2, <2>1, <2>2 DEF AnswersAreOut
<1>10. ASSUME NEW s, s \notin job[j].now, Unheard(s)' PROVE Unheard(s)
  <2>1. \A k \in 1..n - 1 : s \notin job[answered[Up(i, k)]].now
    BY <1>2, <1>8, <1>10 DEF Unheard
  <2> QED BY <1>2, <1>4, <1>10, <2>1 DEF Unheard
<1>11. ASSUME NEW s, i = 1, s \in job[j].now, Unheard(s)' PROVE LastSays(1, s)
  <2>1. \A k \in 1..n - 1 : s \notin job[answered[Up(i, k)]].now
    BY <1>2, <1>8, <1>11 DEF Unheard
  <2>2. \A k \in 1..n : k > 1 => s \notin job[answered[k]].now
    BY <1>4, <1>11, <2>1
  <2> QED BY <1>2, <1>11, <2>2 DEF LastSays
<1>12. ASSUME NEW s, i = 1 \/ s \notin job[j].now, NEW k \in 1..n - 1, LastSays(k, s)'
       PROVE  LastSays(Up(i, k), s)
  <2>1. s \in job[answered[Up(i, k)]].now
    BY <1>8, <1>12 DEF LastSays
  <2>2. ASSUME NEW m \in 1..n, m > Up(i, k) PROVE s \notin job[answered[m]].now
    <3>1. CASE m = i
      BY <1>1, <1>3, <1>5, <1>12, <2>2, <3>1
    <3>2. CASE m # i
      <4>1. PICK l \in 1..n - 1 : Up(i, l) = m
        BY <1>4, <3>2
      <4>2. l > k
        BY <1>5, <2>2, <4>1
      <4> QED BY <1>2, <1>8, <1>12, <4>1, <4>2 DEF LastSays
    <3> QED BY <3>1, <3>2
  <2> QED BY <1>2, <2>1, <2>2 DEF LastSays
<1>13. \A k \in 1..n - 1 : GoesIn(k)' <=> GoesIn(Up(i, k))
  BY <1>8 DEF GoesIn
<1> QED BY <1>2, <1>3, <1>9, <1>10, <1>11, <1>12, <1>13

(* Such a step that goes on to another stage, with the sites it now         *)
(* handles.                                                                 *)
LEMMA MovesAside ==
  ASSUME PickerInv, NEW j \in Job, ~Awaited(j), NEW at \in Stage \ {"lookup", "added", "cleared"},
         NEW now, now \subseteq Site, NEW c \in Nat \ {0}, c <= context,
         job' = [job EXCEPT ![j].at = at, ![j].now = now, ![j].context = c],
         UNCHANGED <<imported, chromium>>, chromes' \subseteq chromes \cup {j},
         j \in chromes' => at \in {"polling", "extracting"}
  PROVE  PickerInv'
<1>1. job \in [Job -> JobState] /\ chromes \subseteq Job
  BY DEF PickerInv, PickerTyped, JobsTyped
<1>2. PICK r : r = [job[j] EXCEPT !.at = at, !.now = now, !.context = c]
  OBVIOUS
<1>3. r \in JobState /\ r.at = at /\ r.context = c
  BY <1>1, <1>2 DEF JobState
<1>4. job' = [job EXCEPT ![j] = r]
  BY <1>1, <1>2
<1>5. chromes' \subseteq Job
  BY <1>1
<1>6. r.at \notin {"added", "cleared"} /\ (r.at = "lookup" => r.tries > 0) /\ r.context <= context
  BY <1>3
<1>7. j \in chromes' => r.at \in {"polling", "extracting"}
  BY <1>3
<1> QED BY <1>3, <1>4, <1>5, <1>6, <1>7, StepAside

(* Such a step that only goes on to another stage.                          *)
LEMMA GoesToAside ==
  ASSUME PickerInv, NEW j \in Job, ~Awaited(j), NEW at \in Stage \ {"lookup", "added", "cleared"},
         GoesTo(j, at),
         UNCHANGED <<imported, chromium>>, chromes' \subseteq chromes \cup {j},
         j \in chromes' => at \in {"polling", "extracting"}
  PROVE  PickerInv'
<1>1. job \in [Job -> JobState] /\ job[j].context <= context
  BY DEF PickerInv, PickerTyped, JobsTyped
<1>2. job[j].now \subseteq Site /\ job[j].context \in Nat \ {0}
  BY <1>1 DEF JobState
<1>3. job' = [job EXCEPT ![j].at = at, ![j].now = job[j].now, ![j].context = job[j].context]
  BY <1>1 DEF GoesTo, JobState
<1> QED BY <1>1, <1>2, <1>3, MovesAside

(* The steps of an import up to addCookies keep the invariant: the key, the *)
(* database and the headless Chrome.                                        *)
LEMMA ImportStepKeeps == ASSUME PickerInv, NEW j \in Job, ImportStep(j) PROVE PickerInv'
<1>1. job \in [Job -> JobState] /\ chromes \subseteq Job /\ context \in Nat \ {0} /\ context <= context
      /\ (Is(j, "lookup") => job[j].tries > 0) /\ job[j].context <= context
  BY DEF PickerInv, PickerTyped, JobsTyped
<1>2. j \in chromes => job[j].at \in {"polling", "extracting"}
  BY DEF PickerInv, ChromeGoesWithImport
<1>3. ASSUME NEW at \in Stage \ {"added", "cleared"}, Is(j, at) PROVE ~Awaited(j)
  BY <1>3 DEF Is, Awaited
<1>4. /\ {"reading", "over", "probing", "polling", "extracting", "adding"}
            \subseteq Stage \ {"lookup", "added", "cleared"}
      /\ {"lookup", "reading", "probing", "polling", "extracting"} \subseteq Stage \ {"added", "cleared"}
  BY DEF Stage
<1>5. ASSUME NEW found \in Decrypted(j), Adds(j, found), ~Awaited(j), UNCHANGED chromium,
             chromes' \subseteq chromes \ {j}
      PROVE  PickerInv'
  <2>1. found \subseteq Site
    BY DEF Decrypted, SomeSites
  <2>2. chromes' \subseteq chromes \cup {j} /\ j \notin chromes'
    BY <1>5
  <2>3. UNCHANGED <<imported, chromium>>
    BY <1>5 DEF Adds
  <2>4. job' = [job EXCEPT ![j].at = "adding", ![j].now = found, ![j].context = context]
    BY <1>5 DEF Adds
  <2> QED BY <1>1, <1>4, <1>5, <2>1, <2>2, <2>3, <2>4, MovesAside
<1>6. CASE LookupAnswers(j)
  BY <1>2, <1>3, <1>4, <1>6, GoesToAside DEF LookupAnswers, Is
<1>7. CASE LookupFails(j)
  <2>1. PICK r : r = [job[j] EXCEPT !.tries = job[j].tries - 1,
                        !.at = IF job[j].tries > 1 THEN "lookup" ELSE IF platform = "linux" THEN "reading" ELSE "over"]
    OBVIOUS
  <2>2. job[j].tries \in Nat /\ job[j].tries > 0 /\ ~Awaited(j) /\ j \notin chromes
    BY <1>1, <1>2, <1>3, <1>4, <1>7 DEF LookupFails, JobState, Is
  <2>3. job[j].tries - 1 \in Nat /\ (job[j].tries > 1 => job[j].tries - 1 > 0)
    BY <2>2
  <2>4. r \in JobState /\ r.context = job[j].context /\ r.tries = job[j].tries - 1
        /\ r.at = (IF job[j].tries > 1 THEN "lookup" ELSE IF platform = "linux" THEN "reading" ELSE "over")
    BY <1>1, <2>1, <2>3 DEF JobState, Stage
  <2>5. r.at \notin {"added", "cleared"} /\ (r.at = "lookup" => r.tries > 0) /\ r.context <= context
    BY <1>1, <2>3, <2>4
  <2>6. job' = [job EXCEPT ![j] = r] /\ UNCHANGED <<imported, chromium>>
        /\ chromes' \subseteq Job /\ chromes' \subseteq chromes \cup {j} /\ j \notin chromes'
    BY <1>1, <1>7, <2>1, <2>2 DEF LookupFails
  <2> QED BY <2>2, <2>4, <2>5, <2>6, StepAside
<1>8. CASE DatabaseFails(j)
  BY <1>2, <1>3, <1>4, <1>8, GoesToAside DEF DatabaseFails, Is
<1>9. CASE ReadsDatabase(j)
  <2>1. ~Awaited(j) /\ j \notin chromes /\ UNCHANGED <<chromes, chromium>>
    BY <1>2, <1>3, <1>4, <1>9 DEF ReadsDatabase, Is
  <2>2. CASE FindsNothing(j)
    BY <1>4, <2>1, <2>2, GoesToAside DEF FindsNothing
  <2>3. CASE NeedsBrowser(j)
    BY <1>4, <2>1, <2>3, GoesToAside DEF NeedsBrowser
  <2>4. ASSUME NEW found \in Decrypted(j), Adds(j, found) PROVE PickerInv'
    BY <1>5, <2>1, <2>4
  <2> QED BY <1>9, <2>2, <2>3, <2>4 DEF ReadsDatabase
<1>10. CASE ChromeIsLaunched(j)
  <2>1. ~Awaited(j) /\ j \notin chromes /\ UNCHANGED <<imported, chromium>>
    BY <1>2, <1>3, <1>4, <1>10 DEF ChromeIsLaunched, Is
  <2>2. CASE GoesTo(j, "over") /\ UNCHANGED chromes
    BY <1>4, <2>1, <2>2, GoesToAside
  <2>3. CASE GoesTo(j, "polling") /\ chromes' = chromes \cup {j}
    BY <1>4, <2>1, <2>3, GoesToAside
  <2> QED BY <1>10, <2>2, <2>3 DEF ChromeIsLaunched
<1>11. CASE PageAppears(j)
  BY <1>3, <1>4, <1>11, GoesToAside DEF PageAppears
<1>12. CASE PollDeadline(j)
  BY <1>3, <1>4, <1>12, GoesToAside DEF PollDeadline
<1>13. CASE Extracts(j)
  <2>1. ~Awaited(j) /\ chromes' = chromes \ {j} /\ UNCHANGED chromium
    BY <1>3, <1>4, <1>13 DEF Extracts
  <2>2. CASE FindsNothing(j)
    BY <1>4, <2>1, <2>2, GoesToAside DEF FindsNothing
  <2>3. ASSUME NEW found \in Decrypted(j), Adds(j, found) PROVE PickerInv'
    BY <1>5, <2>1, <2>3
  <2> QED BY <1>13, <2>2, <2>3 DEF Extracts
<1>14. CASE ExtractionFails(j)
  BY <1>3, <1>4, <1>14, GoesToAside DEF ExtractionFails
<1>15. CASE ChromeDies(j)
  BY <1>15 DEF ChromeDies, chromium, PickerInv, PickerTyped, JobsTyped, ChromeGoesWithImport,
       AnswersAreOut, Awaited, JarFollows, LastSays, Unheard, GoesIn, Is
<1> QED BY <1>6, <1>7, <1>8, <1>9, <1>10, <1>11, <1>12, <1>13, <1>14, <1>15 DEF ImportStep

(* So does the arrival of a request to /import or /remove.                  *)
LEMMA BeginsKeeps ==
  ASSUME PickerInv, NEW j \in Job, NEW sites \in SomeSites, Import(j, sites) \/ Removal(j, sites)
  PROVE  PickerInv'
<1>1. job \in [Job -> JobState] /\ chromes \subseteq Job /\ context \in Nat \ {0} /\ context <= context
  BY DEF PickerInv, PickerTyped, JobsTyped
<1>2. ~Awaited(j) /\ j \notin chromes
  BY DEF Import, Removal, Is, Awaited, PickerInv, ChromeGoesWithImport
<1>3. chromes' = chromes /\ UNCHANGED <<imported, chromium>>
  BY DEF Import, Removal
<1>4. NewJob \in JobState /\ NewJob.context = 1
  BY DEF NewJob, JobState, Stage
<1>5. sites \in SUBSET Site
  BY DEF SomeSites
<1>6. CASE Import(j, sites)
  <2>0. PICK a \in {"reading", "lookup"} :
          a = IF platform = "win32" /\ keyCached THEN "reading" ELSE "lookup"
    OBVIOUS
  <2>00. PICK n \in {1, 3} : n = IF platform = "linux" THEN 3 ELSE 1
    OBVIOUS
  <2>1. PICK r : r = [NewJob EXCEPT !.sites = sites, !.at = a, !.tries = n]
    OBVIOUS
  <2>2. r \in JobState /\ r.context = 1 /\ r.at = a /\ r.tries > 0
    <3>1. a \in Stage /\ n \in Nat /\ n > 0
      BY DEF Stage
    <3>2. r.context = 1 /\ r.at = a /\ r.tries = n
      BY <1>4, <2>1 DEF JobState
    <3>3. r \in JobState
      BY <1>4, <1>5, <2>1, <3>1 DEF JobState
    <3> QED BY <3>1, <3>2, <3>3
  <2>3. r.context <= context
    BY <1>1, <2>2
  <2>4. job' = [job EXCEPT ![j] = r]
    BY <1>6, <2>0, <2>00, <2>1 DEF Import
  <2> QED BY <1>1, <1>2, <1>3, <2>0, <2>2, <2>3, <2>4, StepAside
<1>7. CASE Removal(j, sites)
  <2>1. PICK r : r = [NewJob EXCEPT !.at = "clearing", !.sites = sites, !.context = context]
    OBVIOUS
  <2>2. r \in JobState /\ r.context = context /\ r.at = "clearing"
    BY <1>1, <1>4, <1>5, <2>1 DEF JobState, Stage
  <2>3. r.context <= context
    BY <1>1, <2>2
  <2>4. job' = [job EXCEPT ![j] = r]
    BY <1>7, <2>1 DEF Removal
  <2> QED BY <1>1, <1>2, <1>3, <2>2, <2>3, <2>4, StepAside
<1> QED BY <1>6, <1>7

(* A call that takes effect moves its own request and is only noted by the  *)
(* others.                                                                  *)
LEMMA TakesEffectKeeps ==
  ASSUME PickerInv, NEW j \in Job, NEW at \in {"added", "cleared"}, NEW sites, sites \subseteq Site,
         NEW now, now \subseteq Site, TakesEffect(j, at, sites, now), UNCHANGED context
  PROVE  /\ JobsTyped' /\ job'[j].at = at /\ job'[j].now = now
         /\ \A i \in Job \ {j} : job'[i].at = job[i].at /\ job'[i].now = job[i].now
<1>1. job \in [Job -> JobState] /\ \A i \in Job : job[i].context <= context /\ (Is(i, "lookup") => job[i].tries > 0)
  BY DEF PickerInv, PickerTyped, JobsTyped
<1>2. ASSUME NEW i \in Job
      PROVE  /\ job'[i] \in JobState /\ job'[i].context = job[i].context /\ job'[i].tries = job[i].tries
             /\ job'[i].at = (IF i = j THEN at ELSE job[i].at)
             /\ job'[i].now = (IF i = j THEN now ELSE job[i].now)
  <2>1. job[i] \in JobState
    BY <1>1
  <2>2. CASE i = j
    <3>1. job'[i] = [job[i] EXCEPT !.at = at, !.now = now]
      BY <2>2 DEF TakesEffect
    <3> QED BY <2>1, <2>2, <3>1 DEF JobState, Stage
  <2>3. CASE i # j /\ Is(i, "clearing")
    <3>1. job'[i] = [job[i] EXCEPT !.changed = @ \cup sites]
      BY <2>3 DEF TakesEffect
    <3> QED BY <2>1, <2>3, <3>1 DEF JobState
  <2>4. CASE i # j /\ ~Is(i, "clearing")
    <3>1. job'[i] = job[i]
      BY <2>4 DEF TakesEffect
    <3> QED BY <2>1, <2>4, <3>1
  <2> QED BY <2>2, <2>3, <2>4
<1>3. job' \in [Job -> JobState]
  BY <1>2 DEF TakesEffect
<1>4. JobsTyped'
  BY <1>1, <1>2, <1>3 DEF JobsTyped, Is
<1> QED BY <1>2, <1>4

(* A call takes effect in the context: what it did to the jar is what its   *)
(* answer says, but of blurred sites.                                       *)
LEMMA EffectKeeps ==
  ASSUME PickerInv, NEW j \in Job, ~Awaited(j), j \notin chromes, NEW at \in {"added", "cleared"},
         NEW sites, sites \subseteq Site, NEW now, now \subseteq Site, TakesEffect(j, at, sites, now),
         answered' = Append(answered, j), jar' \subseteq Site, blurred' \subseteq Site,
         \A s \in Site \ blurred' :
           IF s \in now THEN s \in jar' <=> at = "added" ELSE s \in jar' <=> s \in jar,
         saving => now \subseteq blurred',
         blurred \subseteq blurred', UNCHANGED <<imported, saving, carried, context, chromes>>
  PROVE  PickerInv'
<1>1. /\ JobsTyped' /\ job'[j].at = at /\ job'[j].now = now
      /\ \A i \in Job \ {j} : job'[i].at = job[i].at /\ job'[i].now = job[i].now
  BY TakesEffectKeeps
<1>2. answered' \in Seq(Job)
  BY AppendProperties DEF PickerInv, PickerTyped
<1>3. PickerTyped'
  BY <1>1, <1>2 DEF PickerInv, PickerTyped
<1>4. ChromeGoesWithImport'
  BY <1>1 DEF PickerInv, ChromeGoesWithImport, PickerTyped
<1>5. Awaited(j)'
  BY <1>1 DEF Awaited
<1>6. AnswersAreOut' /\ JarFollows'
  BY <1>1, <1>5, OneAnswerMore
<1> QED BY <1>3, <1>4, <1>6 DEF PickerInv

(* addCookies takes effect.                                                 *)
LEMMA CookiesArriveKeeps == ASSUME PickerInv, NEW j \in Job, CookiesArrive(j) PROVE PickerInv'
<1>1. job[j].now \subseteq Site /\ jar \subseteq Site /\ blurred \subseteq Site
  BY DEF PickerInv, PickerTyped, JobsTyped, JobState
<1>2. ~Awaited(j) /\ j \notin chromes
  BY DEF CookiesArrive, Is, Awaited, PickerInv, ChromeGoesWithImport
<1>3. PICK now : now = job[j].now
  OBVIOUS
<1>4. /\ jar' = jar \cup now /\ TakesEffect(j, "added", now, now) /\ answered' = Append(answered, j)
      /\ blurred' = blurred \cup IF saving THEN now ELSE {}
      /\ UNCHANGED <<imported, saving, carried, context, chromes>>
  BY <1>3 DEF CookiesArrive, Blurs
<1>5. /\ jar' \subseteq Site /\ blurred' \subseteq Site /\ blurred \subseteq blurred'
      /\ saving => now \subseteq blurred'
  BY <1>1, <1>3, <1>4
<1>6. \A s \in Site \ blurred' :
        IF s \in now THEN s \in jar' <=> "added" = "added" ELSE s \in jar' <=> s \in jar
  BY <1>4
<1> QED BY <1>1, <1>2, <1>3, <1>4, <1>5, <1>6, EffectKeeps

(* clearCookies takes effect.                                               *)
LEMMA CookiesGoKeeps == ASSUME PickerInv, NEW j \in Job, CookiesGo(j) PROVE PickerInv'
<1>1. job[j].changed \subseteq Site /\ job[j].sites \subseteq Site /\ jar \subseteq Site /\ blurred \subseteq Site
  BY DEF PickerInv, PickerTyped, JobsTyped, JobState
<1>2. ~Awaited(j) /\ j \notin chromes
  BY DEF CookiesGo, Is, Awaited, PickerInv, ChromeGoesWithImport
<1>3. PICK changed : changed = job[j].changed
  OBVIOUS
<1>4. PICK s0 \in job[j].sites, staying \in SUBSET changed :
        /\ jar' = (jar \ ({s0} \cup changed)) \cup staying /\ TakesEffect(j, "cleared", {s0}, {s0})
        /\ blurred' = blurred \cup (changed \cup IF saving THEN {s0} ELSE {})
  BY <1>3 DEF CookiesGo, Blurs
<1>5. answered' = Append(answered, j) /\ UNCHANGED <<imported, saving, carried, context, chromes>>
  BY DEF CookiesGo
<1>6. PICK now : now = {s0}
  OBVIOUS
<1>7. /\ jar' \subseteq Site /\ blurred' \subseteq Site /\ blurred \subseteq blurred' /\ now \subseteq Site
      /\ saving => now \subseteq blurred'
  BY <1>1, <1>3, <1>4, <1>6
<1>8. \A s \in Site \ blurred' :
        IF s \in now THEN s \in jar' <=> "cleared" = "added" ELSE s \in jar' <=> s \in jar
  BY <1>4, <1>6
<1>9. TakesEffect(j, "cleared", now, now)
  BY <1>4, <1>6
<1> QED BY <1>2, <1>5, <1>7, <1>8, <1>9, EffectKeeps

(* An answer under way is taken from the sequence, wherever it is.          *)
LEMMA TakenOut ==
  ASSUME NEW q \in Seq(Job), NEW i \in DOMAIN q
  PROVE  /\ RemoveAt(q, i) \in Seq(Job) /\ DOMAIN RemoveAt(q, i) = 1..Len(q) - 1
         /\ \A k \in 1..Len(q) - 1 : RemoveAt(q, i)[k] = q[Up(i, k)]
<1>1. PICK n \in Nat : n = Len(q)
  BY LenProperties
<1>2. DOMAIN q = 1..n /\ i \in 1..n /\ \A k \in 1..n : q[k] \in Job
  BY <1>1, LenProperties, ElementOfSeq
<1>3. PICK a : a = SubSeq(q, 1, i - 1)
  OBVIOUS
<1>4. PICK b : b = SubSeq(q, i + 1, n)
  OBVIOUS
<1>5. a \in Seq(Job) /\ Len(a) = i - 1 /\ \A k \in 1..i - 1 : a[k] = q[k]
  BY <1>1, <1>2, <1>3, SubSeqProperties
<1>6. b \in Seq(Job) /\ Len(b) = n - i /\ \A k \in 1..n - i : b[k] = q[i + k]
  <2>1. i + 1 \in 1..n + 1 /\ n \in i..n
    BY <1>1, <1>2
  <2> QED BY <1>1, <1>2, <1>4, <2>1, SubSeqProperties
<1>7. /\ a \o b \in Seq(Job) /\ Len(a \o b) = n - 1
      /\ \A k \in 1..n - 1 : (a \o b)[k] = IF k <= i - 1 THEN a[k] ELSE b[k - (i - 1)]
  <2>1. /\ a \o b \in Seq(Job) /\ Len(a \o b) = Len(a) + Len(b)
        /\ \A k \in 1..Len(a) + Len(b) : (a \o b)[k] = IF k <= Len(a) THEN a[k] ELSE b[k - Len(a)]
    BY <1>5, <1>6, ConcatProperties
  <2>2. Len(a) + Len(b) = n - 1
    <3>1. i \in Nat /\ n \in Nat
      BY <1>1, <1>2
    <3>2. (i - 1) + (n - i) = n - 1
      BY <3>1
    <3>3. Len(a) = i - 1 /\ Len(b) = n - i
      BY <1>5, <1>6
    <3> QED BY <3>2, <3>3
  <2> QED BY <1>5, <2>1, <2>2
<1>8. \A k \in 1..n - 1 : (a \o b)[k] = q[Up(i, k)]
  <2> SUFFICES ASSUME NEW k \in 1..n - 1 PROVE (a \o b)[k] = q[Up(i, k)]
    OBVIOUS
  <2>1. CASE k <= i - 1
    BY <1>1, <1>2, <1>5, <1>7, <2>1 DEF Up
  <2>2. CASE ~(k <= i - 1)
    <3>1. k - (i - 1) \in 1..n - i /\ i + (k - (i - 1)) = k + 1 /\ ~(k < i)
      BY <1>1, <1>2, <2>2
    <3> QED BY <1>6, <1>7, <2>2, <3>1 DEF Up
  <2> QED BY <2>1, <2>2
<1>9. RemoveAt(q, i) = a \o b
  BY <1>1, <1>3, <1>4 DEF RemoveAt
<1> QED BY <1>1, <1>7, <1>8, <1>9, LenProperties

(* The next answer is the first of those under way.                         *)
LEMMA HeadTaken ==
  ASSUME NEW q \in Seq(Job), q # <<>>
  PROVE  /\ Tail(q) \in Seq(Job) /\ DOMAIN Tail(q) = 1..Len(q) - 1 /\ 1 \in DOMAIN q /\ Head(q) = q[1]
         /\ \A k \in 1..Len(q) - 1 : Tail(q)[k] = q[Up(1, k)]
<1>1. Tail(q) \in Seq(Job) /\ Len(Tail(q)) = Len(q) - 1 /\ \A k \in 1..Len(Tail(q)) : Tail(q)[k] = q[k + 1]
  BY HeadTailProperties
<1>2. Len(q) \in Nat /\ Len(q) > 0 /\ DOMAIN q = 1..Len(q)
  BY LenProperties, EmptySeq
<1>3. \A k \in 1..Len(q) - 1 : Up(1, k) = k + 1
  BY <1>2 DEF Up
<1> QED BY <1>1, <1>2, <1>3, LenProperties

(* Going on to another stage leaves a request well formed.                  *)
LEMMA JobGoesTo ==
  ASSUME NEW r \in JobState, NEW at \in Stage, NEW g, g = [r EXCEPT !.at = at]
  PROVE  g \in JobState /\ g.context = r.context /\ g.at = at
BY DEF JobState

(* The import hears of it and lists its sites.                              *)
LEMMA RecordsKeeps == ASSUME PickerInv, NEW j \in Job, Records(j) PROVE PickerInv'
<1>1. /\ answered # <<>> /\ Head(answered) = j /\ answered' = Tail(answered)
      /\ imported' = imported \cup job[j].now /\ GoesTo(j, "over") /\ Is(j, "added")
      /\ UNCHANGED <<chromes, context, jar, saving, carried, blurred>>
  BY DEF Records, NextAnswer
<1>2. job \in [Job -> JobState] /\ answered \in Seq(Job) /\ job[j].now \subseteq Site
  BY DEF PickerInv, PickerTyped, JobsTyped, JobState
<1>3. /\ answered' \in Seq(Job) /\ DOMAIN answered' = 1..Len(answered) - 1
      /\ 1 \in DOMAIN answered /\ j = answered[1]
      /\ \A k \in DOMAIN answered' : answered'[k] = answered[Up(1, k)]
  BY <1>1, <1>2, HeadTaken
<1>4. job'[j] = [job[j] EXCEPT !.at = "over"] /\ \A q \in Job \ {j} : job'[q] = job[q]
  BY <1>1, <1>2 DEF GoesTo
<1>5. job' \in [Job -> JobState] /\ job'[j].context = job[j].context /\ job'[j].at = "over"
  <2>1. job[j] \in JobState /\ "over" \in Stage
    BY <1>2 DEF Stage
  <2>2. job'[j] \in JobState /\ job'[j].context = job[j].context /\ job'[j].at = "over"
    BY <1>4, <2>1, JobGoesTo
  <2> QED BY <1>1, <1>2, <1>4, <2>2 DEF GoesTo
<1>6. JobsTyped'
  BY <1>1, <1>4, <1>5 DEF JobsTyped, Is, PickerInv, PickerTyped
<1>7. PickerTyped'
  BY <1>1, <1>2, <1>3, <1>6 DEF PickerInv, PickerTyped
<1>8. ChromeGoesWithImport'
  BY <1>1, <1>4 DEF PickerInv, ChromeGoesWithImport, PickerTyped, Is
<1>9. ~Awaited(j)'
  BY <1>5 DEF Awaited
<1>10. /\ AnswersAreOut'
       /\ \A k \in DOMAIN answered' : /\ Up(1, k) \in DOMAIN answered
                                      /\ GoesIn(k)' <=> GoesIn(Up(1, k))
       /\ \A s : /\ s \notin job[j].now /\ Unheard(s)' => Unheard(s)
                 /\ s \in job[j].now /\ Unheard(s)' => LastSays(1, s)
                 /\ \A k \in DOMAIN answered' : LastSays(k, s)' => LastSays(Up(1, k), s)
  BY <1>3, <1>4, <1>9, OneAnswerLess
<1>11. ASSUME NEW s \in Site \ blurred'
       PROVE  /\ Unheard(s)' => (s \in jar' <=> s \in imported')
              /\ \A k \in DOMAIN answered' : LastSays(k, s)' => (s \in jar' <=> GoesIn(k)')
              /\ saving' => (s \in carried' <=> s \in jar')
  <2>1. /\ Unheard(s) => (s \in jar <=> s \in imported)
        /\ \A i \in DOMAIN answered : LastSays(i, s) => (s \in jar <=> GoesIn(i))
        /\ saving => (s \in carried <=> s \in jar)
    BY <1>1, <1>11 DEF PickerInv, JarFollows
  <2>2. GoesIn(1)
    BY <1>1, <1>3 DEF GoesIn, Is
  <2>3. ASSUME Unheard(s)' PROVE s \in jar' <=> s \in imported'
    BY <1>1, <1>3, <1>10, <2>1, <2>2, <2>3
  <2>4. ASSUME NEW k \in DOMAIN answered', LastSays(k, s)' PROVE s \in jar' <=> GoesIn(k)'
    BY <1>1, <1>10, <2>1, <2>4
  <2> QED BY <1>1, <2>1, <2>3, <2>4
<1>12. JarFollows'
  BY <1>11 DEF JarFollows
<1> QED BY <1>7, <1>8, <1>10, <1>12 DEF PickerInv

(* The removal hears of it, unlists the site and goes on to the next.       *)
LEMMA UnlistsKeeps == ASSUME PickerInv, NEW j \in Job, Unlists(j) PROVE PickerInv'
<1>0. PICK left : left = job[j].sites \ job[j].now
  OBVIOUS
<1>00. PICK at \in {"over", "clearing"} : at = IF left = {} THEN "over" ELSE "clearing"
  OBVIOUS
<1>1. /\ answered # <<>> /\ Head(answered) = j /\ answered' = Tail(answered)
      /\ imported' = imported \ job[j].now /\ Is(j, "cleared")
      /\ job' = [job EXCEPT ![j].sites = left, ![j].changed = {}, ![j].at = at]
      /\ UNCHANGED <<chromes, context, jar, saving, carried, blurred>>
  BY <1>0, <1>00 DEF Unlists, NextAnswer
<1>2. job \in [Job -> JobState] /\ answered \in Seq(Job) /\ job[j].now \subseteq Site /\ left \subseteq Site
  BY <1>0 DEF PickerInv, PickerTyped, JobsTyped, JobState
<1>3. /\ answered' \in Seq(Job) /\ DOMAIN answered' = 1..Len(answered) - 1
      /\ 1 \in DOMAIN answered /\ j = answered[1]
      /\ \A k \in DOMAIN answered' : answered'[k] = answered[Up(1, k)]
  BY <1>1, <1>2, HeadTaken
<1>4. job'[j] = [job[j] EXCEPT !.sites = left, !.changed = {}, !.at = at]
      /\ \A q \in Job \ {j} : job'[q] = job[q]
  BY <1>1, <1>2
<1>5. job'[j] \in JobState /\ job'[j].context = job[j].context /\ job'[j].at = at
  <2>1. job[j] \in JobState /\ at \in Stage
    BY <1>2 DEF Stage
  <2>2. PICK r \in JobState : r = job[j]
    BY <2>1
  <2>3. PICK g : g = [r EXCEPT !.sites = left, !.changed = {}, !.at = at]
    OBVIOUS
  <2>4. g \in JobState /\ g.context = r.context /\ g.at = at
    <3>1. left \subseteq Site /\ at \in Stage
      BY <1>2, <2>1
    <3>2. g.context = r.context /\ g.at = at
      BY <2>3 DEF JobState
    <3>3. g \in JobState
      BY <2>3, <3>1 DEF JobState
    <3> QED BY <3>2, <3>3
  <2>5. job'[j] = g
    BY <1>4, <2>2, <2>3
  <2> QED BY <2>2, <2>4, <2>5
<1>55. job' \in [Job -> JobState]
  BY <1>1, <1>2, <1>4, <1>5
<1>6. JobsTyped'
  BY <1>1, <1>4, <1>5, <1>55 DEF JobsTyped, Is, PickerInv, PickerTyped
<1>7. PickerTyped'
  BY <1>1, <1>2, <1>3, <1>6 DEF PickerInv, PickerTyped
<1>8. ChromeGoesWithImport'
  BY <1>1, <1>4 DEF PickerInv, ChromeGoesWithImport, PickerTyped, Is
<1>9. ~Awaited(j)'
  BY <1>5 DEF Awaited
<1>10. /\ AnswersAreOut'
       /\ \A k \in DOMAIN answered' : /\ Up(1, k) \in DOMAIN answered
                                      /\ GoesIn(k)' <=> GoesIn(Up(1, k))
       /\ \A s : /\ s \notin job[j].now /\ Unheard(s)' => Unheard(s)
                 /\ s \in job[j].now /\ Unheard(s)' => LastSays(1, s)
                 /\ \A k \in DOMAIN answered' : LastSays(k, s)' => LastSays(Up(1, k), s)
  BY <1>3, <1>4, <1>9, OneAnswerLess
<1>11. ASSUME NEW s \in Site \ blurred'
       PROVE  /\ Unheard(s)' => (s \in jar' <=> s \in imported')
              /\ \A k \in DOMAIN answered' : LastSays(k, s)' => (s \in jar' <=> GoesIn(k)')
              /\ saving' => (s \in carried' <=> s \in jar')
  <2>1. /\ Unheard(s) => (s \in jar <=> s \in imported)
        /\ \A i \in DOMAIN answered : LastSays(i, s) => (s \in jar <=> GoesIn(i))
        /\ saving => (s \in carried <=> s \in jar)
    BY <1>1, <1>11 DEF PickerInv, JarFollows
  <2>2. ~GoesIn(1)
    BY <1>1, <1>3 DEF GoesIn, Is
  <2>3. ASSUME Unheard(s)' PROVE s \in jar' <=> s \in imported'
    BY <1>1, <1>3, <1>10, <2>1, <2>2, <2>3
  <2>4. ASSUME NEW k \in DOMAIN answered', LastSays(k, s)' PROVE s \in jar' <=> GoesIn(k)'
    BY <1>1, <1>10, <2>1, <2>4
  <2> QED BY <1>1, <2>1, <2>3, <2>4
<1>12. JarFollows'
  BY <1>11 DEF JarFollows
<1> QED BY <1>7, <1>8, <1>10, <1>12 DEF PickerInv

(* An answer that is lost leaves its sites blurred.                         *)
LEMMA LostAnswerKeeps ==
  ASSUME PickerInv, NEW j \in Job, GoesTo(j, "over"), job[j].at \in {"added", "cleared"}, LosesAnswer(j),
         Blurs(job[j].now), UNCHANGED <<chromes, context, jar, saving, carried, imported>>
  PROVE  PickerInv'
<1>2. job \in [Job -> JobState] /\ answered \in Seq(Job) /\ job[j].now \subseteq Site
  BY DEF PickerInv, PickerTyped, JobsTyped, JobState
<1>3. PICK i \in DOMAIN answered : answered[i] = j /\ answered' = RemoveAt(answered, i)
  BY DEF LosesAnswer
<1>33. /\ answered' \in Seq(Job) /\ DOMAIN answered' = 1..Len(answered) - 1
       /\ \A k \in DOMAIN answered' : answered'[k] = answered[Up(i, k)]
  BY <1>2, <1>3, TakenOut
<1>4. job'[j] = [job[j] EXCEPT !.at = "over"] /\ \A q \in Job \ {j} : job'[q] = job[q]
  BY <1>2 DEF GoesTo
<1>5. job' \in [Job -> JobState] /\ job'[j].context = job[j].context /\ job'[j].at = "over"
  <2>1. job[j] \in JobState /\ "over" \in Stage
    BY <1>2 DEF Stage
  <2>2. job'[j] \in JobState /\ job'[j].context = job[j].context /\ job'[j].at = "over"
    BY <1>4, <2>1, JobGoesTo
  <2> QED BY <1>2, <1>4, <2>2 DEF GoesTo
<1>6. JobsTyped'
  BY <1>4, <1>5 DEF JobsTyped, Is, PickerInv, PickerTyped
<1>66. blurred' \subseteq Site
  BY <1>2 DEF PickerInv, PickerTyped, Blurs
<1>7. PickerTyped'
  BY <1>2, <1>33, <1>6, <1>66 DEF PickerInv, PickerTyped
<1>8. ChromeGoesWithImport'
  BY <1>4 DEF PickerInv, ChromeGoesWithImport, PickerTyped
<1>9. ~Awaited(j)'
  BY <1>5 DEF Awaited
<1>10. /\ AnswersAreOut'
       /\ \A k \in DOMAIN answered' : /\ Up(i, k) \in DOMAIN answered
                                      /\ GoesIn(k)' <=> GoesIn(Up(i, k))
       /\ \A s : /\ s \notin job[j].now /\ Unheard(s)' => Unheard(s)
                 /\ s \notin job[j].now => \A k \in DOMAIN answered' : LastSays(k, s)' => LastSays(Up(i, k), s)
  BY <1>3, <1>33, <1>4, <1>9, OneAnswerLess
<1>11. ASSUME NEW s \in Site \ blurred'
       PROVE  /\ Unheard(s)' => (s \in jar' <=> s \in imported')
              /\ \A k \in DOMAIN answered' : LastSays(k, s)' => (s \in jar' <=> GoesIn(k)')
              /\ saving' => (s \in carried' <=> s \in jar')
  <2>0. s \in Site \ blurred /\ s \notin job[j].now
    BY <1>11 DEF Blurs
  <2>1. /\ Unheard(s) => (s \in jar <=> s \in imported)
        /\ \A k \in DOMAIN answered : LastSays(k, s) => (s \in jar <=> GoesIn(k))
        /\ saving => (s \in carried <=> s \in jar)
    BY <2>0 DEF PickerInv, JarFollows
  <2>3. ASSUME Unheard(s)' PROVE s \in jar' <=> s \in imported'
    BY <1>10, <2>0, <2>1, <2>3
  <2>4. ASSUME NEW k \in DOMAIN answered', LastSays(k, s)' PROVE s \in jar' <=> GoesIn(k)'
    BY <1>10, <2>0, <2>1, <2>4
  <2> QED BY <2>1, <2>3, <2>4
<1>12. JarFollows'
  BY <1>11 DEF JarFollows
<1> QED BY <1>7, <1>8, <1>10, <1>12 DEF PickerInv

(* A call on a context that was replaced fails.                             *)
LEMMA CallFailsKeeps == ASSUME PickerInv, NEW j \in Job, CallFails(j) PROVE PickerInv'
<1>1. GoesTo(j, "over") /\ UNCHANGED <<chromes, context, jar, saving, carried, imported>>
  BY DEF CallFails
<1>2. CASE job[j].at \in {"adding", "clearing"} /\ UNCHANGED <<answered, blurred>>
  <2>1. ~Awaited(j) /\ j \notin chromes /\ "over" \in Stage \ {"lookup", "added", "cleared"}
    BY <1>2 DEF Awaited, PickerInv, ChromeGoesWithImport, Stage
  <2> QED BY <1>1, <1>2, <2>1, GoesToAside DEF chromium
<1>3. CASE job[j].at \in {"added", "cleared"} /\ LosesAnswer(j) /\ Blurs(job[j].now)
  BY <1>1, <1>3, LostAnswerKeeps
<1> QED BY <1>2, <1>3 DEF CallFails

(* The replacement of the context carries what the jar has.                 *)
LEMMA ContextKeeps ==
  ASSUME PickerInv, ContextIsSaved \/ ContextIsReplaced \/ UNCHANGED pickerVars
  PROVE  PickerInv'
<1> USE DEF PickerInv
<1>1. UNCHANGED <<job, chromes, answered, imported, blurred>>
  BY DEF ContextIsSaved, ContextIsReplaced, pickerVars
<1>2. context \in Nat \ {0} /\ context' \in Nat \ {0} /\ context <= context'
  BY DEF ContextIsSaved, ContextIsReplaced, pickerVars, PickerTyped
<1>3. JobsTyped'
  <2>1. ASSUME NEW j \in Job PROVE job[j].context <= context'
    <3>1. job[j].context \in Nat /\ job[j].context <= context
      BY DEF PickerTyped, JobsTyped, JobState
    <3> QED BY <1>2, <3>1
  <2> QED BY <1>1, <2>1 DEF PickerTyped, JobsTyped, Is
<1>4. PickerTyped'
  BY <1>1, <1>2, <1>3 DEF ContextIsSaved, ContextIsReplaced, pickerVars, PickerTyped
<1>5. AnswersAreOut' /\ ChromeGoesWithImport'
  BY <1>1 DEF AnswersAreOut, ChromeGoesWithImport, Awaited
<1>6. ASSUME NEW s \in Site \ blurred'
      PROVE  /\ Unheard(s)' => (s \in jar' <=> s \in imported')
             /\ \A k \in DOMAIN answered' : LastSays(k, s)' => (s \in jar' <=> GoesIn(k)')
             /\ saving' => (s \in carried' <=> s \in jar')
  <2>1. /\ Unheard(s) => (s \in jar <=> s \in imported)
        /\ \A k \in DOMAIN answered : LastSays(k, s) => (s \in jar <=> GoesIn(k))
        /\ saving => (s \in carried <=> s \in jar)
    BY <1>1, <1>6 DEF JarFollows
  <2>2. s \in jar' <=> s \in jar
    BY <2>1 DEF ContextIsSaved, ContextIsReplaced, pickerVars
  <2>3. saving' => (s \in carried' <=> s \in jar')
    BY <2>1 DEF ContextIsSaved, ContextIsReplaced, pickerVars
  <2>4. /\ Unheard(s)' <=> Unheard(s)
        /\ \A k \in DOMAIN answered : (LastSays(k, s)' <=> LastSays(k, s)) /\ (GoesIn(k)' <=> GoesIn(k))
    BY <1>1 DEF Unheard, LastSays, GoesIn
  <2>5. Unheard(s)' => (s \in jar' <=> s \in imported')
    BY <1>1, <2>1, <2>2, <2>4
  <2>6. ASSUME NEW k \in DOMAIN answered', LastSays(k, s)' PROVE s \in jar' <=> GoesIn(k)'
    <3>1. k \in DOMAIN answered
      BY <1>1
    <3>2. LastSays(k, s)
      BY <2>4, <2>6, <3>1
    <3>3. GoesIn(k)' <=> GoesIn(k)
      BY <2>4, <3>1
    <3> QED BY <2>1, <2>2, <3>1, <3>2, <3>3
  <2> QED BY <2>3, <2>5, <2>6
<1>7. JarFollows'
  BY <1>6 DEF JarFollows
<1> QED BY <1>4, <1>5, <1>7

(* For any requests, sites and platform: what /imported lists is what the   *)
(* context has, up to answers under way and blurred sites, and no headless  *)
(* Chrome outlives its import (cookie-picker-routes.ts, cookie-import-      *)
(* browser.ts).                                                             *)
THEOREM PickerCorrectHolds == PickerSpec => []PickerCorrect
<1>1. PickerInv /\ [PickerNext]_pickerVars => PickerInv'
  BY BeginsKeeps, ImportStepKeeps, CookiesArriveKeeps, CookiesGoKeeps, RecordsKeeps, UnlistsKeeps,
     CallFailsKeeps, ContextKeeps DEF PickerNext
<1>2. PickerInv => PickerCorrect
  <2> SUFFICES ASSUME PickerInv PROVE PickerCorrect
    OBVIOUS
  <2> USE DEF PickerInv
  <2>1. ASSUME NEW j \in Job
        PROVE  job[j].now \subseteq Site /\ job[j].sites \subseteq Site /\ job[j].context \in 1..context
    <3>1. job[j] \in JobState /\ job[j].context <= context /\ context \in Nat
      BY DEF PickerTyped, JobsTyped
    <3> QED BY <3>1 DEF JobState
  <2>2. PickerTypeOK
    BY <2>1 DEF PickerTypeOK, PickerTyped
  <2>3. ASSUME NEW s \in Site \ blurred, ~(s \in jar <=> s \in imported)
        PROVE  \E j \in Job : job[j].at \in {"added", "cleared"} /\ s \in job[j].now
    <3>1. ~Unheard(s)
      BY <2>3 DEF JarFollows
    <3>2. PICK i \in DOMAIN answered : s \in job[answered[i]].now
      BY <3>1 DEF Unheard
    <3> QED BY <3>2, AnswersAreAwaited DEF Awaited
  <2>4. ListIsTrue
    <3>1. \A s \in Site : ((s \in jar) # (s \in imported)) => ~(s \in jar <=> s \in imported)
      OBVIOUS
    <3> QED BY <2>3, <3>1 DEF ListIsTrue
  <2> QED BY <2>2, <2>4 DEF PickerCorrect
<1> QED BY <1>1, <1>2, PickerStarts, PTL DEF PickerSpec
-----------------------------------------------------------------------------
(* Snapshots and logs: a snapshot is written whole or not at all, and a     *)
(* cursor separates what a log has from what its ring may still have.       *)

Tabs == [on : BOOLEAN, seen : SUBSET Tab]

SnapshotsTyped ==
  /\ phase \in {"up", "final", "closing", "dead"} /\ headed \in BOOLEAN /\ excused \in BOOLEAN
  /\ pages \subseteq Tab /\ todo \subseteq Tab /\ kept \subseteq Tab
  /\ tick \in Tabs /\ final \in Tabs
  /\ saved \in [form : {"none", "whole"}, tabs : SUBSET Tab]

(* Until the final snapshot has been written, what the shutdown found open  *)
(* and the user has not closed is open; then no other snapshot is under way.*)
LastWord ==
  /\ phase = "up" => kept = {} /\ ~final.on
  /\ phase = "final" => kept \subseteq pages
  /\ phase \in {"final", "closing"} /\ ~excused => ~tick.on
  /\ phase = "closing" /\ ~excused => ~final.on
  /\ phase = "dead" => ~tick.on /\ ~final.on

SnapshotInv == SnapshotsTyped /\ pages \cap todo = {} /\ LastWord /\ FinalSnapshotStands

(* A daemon that starts without snapshots has none that could overwrite the *)
(* last.                                                                    *)
LEMMA SnapshotStarts == PersistInit => SnapshotInv
<1> SUFFICES ASSUME PersistInit PROVE SnapshotInv
  OBVIOUS
<1>1. Idle \in Tabs /\ ~Idle.on
  BY DEF Idle, Tabs
<1>2. NoFile \in [form : {"none", "whole"}, tabs : SUBSET Tab]
  BY DEF NoFile
<1>3. SnapshotsTyped
  BY <1>1, <1>2 DEF PersistInit, SnapshotsTyped
<1> QED BY <1>1, <1>3 DEF PersistInit, SnapshotInv, LastWord, FinalSnapshotStands

(* Every step of the daemon, of a snapshot and of the user keeps it.        *)
LEMMA SnapshotStep == SnapshotInv /\ (PersistNext \/ UNCHANGED persistVars) => SnapshotInv'
<1> SUFFICES ASSUME SnapshotInv, PersistNext \/ UNCHANGED persistVars PROVE SnapshotInv'
  OBVIOUS
<1> USE DEF SnapshotInv, SnapshotsTyped, LastWord, FinalSnapshotStands
<1>0. /\ Idle \in Tabs /\ Fresh \in Tabs /\ ~Idle.on /\ Fresh.on
  BY DEF Idle, Fresh, Tabs
<1>1. CASE TickStarts
  BY <1>0, <1>1 DEF TickStarts
<1>2. CASE Saving
  <2>1. ASSUME NEW snap \in {tick, final}, NEW s, NEW t \in pages, s = [snap EXCEPT !.seen = snap.seen \cup {t}]
        PROVE  s \in Tabs /\ s.on = snap.on
    BY <2>1 DEF Tabs
  <2>2. CASE Sees(tick) /\ UNCHANGED final
    BY <1>2, <2>1, <2>2 DEF Saving, Sees
  <2>3. CASE Sees(final) /\ UNCHANGED tick
    BY <1>2, <2>1, <2>3 DEF Saving, Sees
  <2> QED BY <1>2, <2>2, <2>3 DEF Saving
<1>3. CASE Persists
  <2>1. /\ Snapshot(tick.seen) \in [form : {"none", "whole"}, tabs : SUBSET Tab]
        /\ Snapshot(final.seen) \in [form : {"none", "whole"}, tabs : SUBSET Tab]
        /\ Snapshot(final.seen).tabs = final.seen
    BY DEF Snapshot, Tabs
  <2>2. CASE Whole(tick) /\ saved' = Snapshot(tick.seen) /\ tick' = Idle /\ UNCHANGED <<final, phase>>
    BY <1>0, <1>3, <2>1, <2>2 DEF Persists, Whole
  <2>3. CASE Whole(final) /\ saved' = Snapshot(final.seen) /\ final' = Idle /\ UNCHANGED tick /\ phase' = "closing"
    BY <1>0, <1>3, <2>1, <2>3 DEF Persists, Whole
  <2> QED BY <1>3, <2>2, <2>3 DEF Persists
<1>4. CASE Kill
  BY <1>0, <1>4 DEF Kill
<1>5. CASE TabOpens
  BY <1>5 DEF TabOpens
<1>6. CASE TabCloses
  BY <1>6 DEF TabCloses
<1>7. CASE ContextSwaps
  BY <1>7 DEF ContextSwaps
<1>8. CASE TabRestored
  BY <1>8 DEF TabRestored
<1>9. CASE Handoff
  BY <1>9 DEF Handoff
<1>10. CASE ShutdownBegins
  <2>1. tick.on \in BOOLEAN /\ excused' = tick.on
    BY <1>10 DEF ShutdownBegins, Tabs
  <2>2. excused' \in BOOLEAN /\ (~excused' => ~tick.on)
    BY <2>1
  <2>3. CASE headed
    BY <1>0, <1>10, <2>2, <2>3 DEF ShutdownBegins
  <2>4. CASE ~headed
    BY <1>0, <1>10, <2>2, <2>4 DEF ShutdownBegins
  <2> QED BY <2>3, <2>4
<1>11. CASE DeadlinePasses
  BY <1>11 DEF DeadlinePasses
<1>12. CASE PageGoes
  BY <1>12 DEF PageGoes
<1>13. CASE DaemonEnds
  BY <1>0, <1>13 DEF DaemonEnds
<1>14. CASE Starts
  <2>1. saved.tabs \subseteq Tab /\ NoFile \in [form : {"none", "whole"}, tabs : SUBSET Tab]
    BY DEF NoFile
  <2> QED BY <1>0, <1>14, <2>1 DEF Starts
<1>15. CASE PersistFails
  <2>1. CASE tick.on /\ tick' = Idle /\ UNCHANGED <<final, phase, excused>>
    BY <1>0, <1>15, <2>1 DEF PersistFails
  <2>2. CASE final.on /\ final' = Idle /\ phase' = "closing" /\ excused' = TRUE /\ UNCHANGED tick
    BY <1>0, <1>15, <2>2 DEF PersistFails
  <2> QED BY <1>15, <2>1, <2>2 DEF PersistFails
<1>16. CASE UNCHANGED persistVars
  BY <1>16 DEF persistVars
<1> QED BY <1>1, <1>2, <1>3, <1>4, <1>5, <1>6, <1>7, <1>8, <1>9, <1>10, <1>11, <1>12, <1>13, <1>14, <1>15,
    <1>16 DEF PersistNext

(* So the file is whole and the final snapshot is the last word.            *)
LEMMA SnapshotInvIsSafe == SnapshotInv => SnapshotSafe
<1> SUFFICES ASSUME SnapshotInv PROVE SnapshotSafe
  OBVIOUS
<1>1. tick.seen \subseteq Tab /\ final.seen \subseteq Tab /\ saved.tabs \subseteq Tab
  BY DEF SnapshotInv, SnapshotsTyped, Tabs
<1>2. saved # Torn
  BY DEF SnapshotInv, SnapshotsTyped, Torn
<1> QED BY <1>1, <1>2 DEF SnapshotInv, SnapshotsTyped, SnapshotSafe, PersistTypeOK, FileIsIntact

-----------------------------------------------------------------------------
RingsTyped ==
  /\ ring \in [Buffer -> Seq(Nat)] /\ added \in [Buffer -> Nat] /\ flushed \in [Buffer -> Nat]
  /\ logFile \in [Buffer -> Seq(Nat)] /\ DOMAIN gone = Buffer

(* A ring holds the last of the entries that were added.                    *)
RingInv(b) ==
  /\ Len(ring[b]) <= Capacity /\ Len(ring[b]) <= added[b]
  /\ \A i \in 1..Len(ring[b]) : ring[b][i] = added[b] - Len(ring[b]) + i

(* The cursor separates what the log has from what the rings may still      *)
(* have.                                                                    *)
CursorInv(b) ==
  /\ flushed[b] <= added[b]
  /\ \A i \in 1..Len(logFile[b]) : logFile[b][i] \in 1..flushed[b]
  /\ \A i \in 1..Len(logFile[b]) - 1 : logFile[b][i] < logFile[b][i + 1]
  /\ \A e \in 1..flushed[b] : e \in Entries(logFile[b]) \/ e \in gone[b]
  /\ \A e \in flushed[b] + 1..added[b] : e \in Entries(ring[b]) \/ e \in gone[b]

LogInv == RingsTyped /\ \A b \in Buffer : RingInv(b) /\ CursorInv(b)

(* Empty rings and empty logs.                                              *)
LEMMA LogStarts == FlushInit => LogInv
<1> SUFFICES ASSUME FlushInit PROVE LogInv
  OBVIOUS
<1>1. <<>> \in Seq(Nat) /\ Len(<<>>) = 0
  BY EmptySeq
<1>2. RingsTyped
  BY <1>1 DEF FlushInit, RingsTyped
<1>3. ASSUME NEW b \in Buffer PROVE RingInv(b) /\ CursorInv(b)
  <2>1. ring[b] = <<>> /\ logFile[b] = <<>> /\ added[b] = 0 /\ flushed[b] = 0
    BY DEF FlushInit
  <2>2. Len(ring[b]) = 0 /\ Len(logFile[b]) = 0
    BY <1>1, <2>1
  <2> QED BY <2>1, <2>2, RingsHoldSomething DEF RingInv, CursorInv
<1> QED BY <1>2, <1>3 DEF LogInv

(* What a flush finds new in the ring of a buffer is what the ring has      *)
(* beyond the cursor, in order.                                             *)
LEMMA NewIsBeyond ==
  ASSUME RingsTyped, NEW b \in Buffer, RingInv(b), CursorInv(b),
         NEW l \in Nat, l = Len(ring[b])
  PROVE  /\ New(b) \in Seq(Nat)
         /\ \E m \in Nat : /\ m = Len(New(b)) /\ m <= l /\ m <= added[b] - flushed[b]
                           /\ m = l \/ m = added[b] - flushed[b]
                           /\ \A i \in 1..m : New(b)[i] = added[b] - m + i
<1>1. PICK q \in Seq(Nat) : q = ring[b]
  BY DEF RingsTyped
<1>2. PICK a \in Nat : a = added[b]
  BY DEF RingsTyped
<1>3. PICK f \in Nat : f = flushed[b]
  BY DEF RingsTyped
<1>4. f <= a /\ l = Len(q) /\ l <= a /\ \A i \in 1..l : q[i] = a - l + i
  BY <1>1, <1>2, <1>3 DEF RingInv, CursorInv
<1>5. PICK n \in Nat : n = a - f
  BY <1>2, <1>3, <1>4
<1>6. PICK k \in Nat : k = IF n < l THEN l - n + 1 ELSE 1
  <2>1. CASE n < l
    <3>1. l - n + 1 \in Nat
      BY <2>1
    <3> QED BY <2>1, <3>1
  <2>2. CASE ~(n < l)
    BY <2>2
  <2> QED BY <2>1, <2>2
<1>66. (k = l - n + 1 /\ n < l) \/ (k = 1 /\ l <= n)
  BY <1>6
<1>7. New(b) = SubSeq(q, k, l)
  BY <1>1, <1>2, <1>3, <1>4, <1>5, <1>6 DEF New, LastOnes
<1>8. k \in 1..l + 1 /\ l \in k - 1..l
  BY <1>66
<1>9. \A i \in 1..l : q[i] \in Nat
  BY <1>1, <1>4, ElementOfSeq, LenProperties
<1>10. /\ SubSeq(q, k, l) \in Seq(Nat) /\ Len(SubSeq(q, k, l)) = l - k + 1
       /\ \A i \in 1..l - k + 1 : SubSeq(q, k, l)[i] = q[k + i - 1]
  BY <1>1, <1>4, <1>8, <1>9, SubSeqProperties
<1>111. PICK m \in Nat : m = l - k + 1
  <2>1. l - k + 1 \in Nat
    BY <1>8
  <2> QED BY <2>1
<1>11. m = l - k + 1 /\ m <= l /\ m = Len(New(b))
  BY <1>7, <1>8, <1>10, <1>111
<1>12. m <= a - f /\ (m = l \/ m = a - f)
  <2>1. CASE k = l - n + 1 /\ n < l
    <3>1. m = n
      BY <1>11, <2>1
    <3> QED BY <1>5, <3>1
  <2>2. CASE k = 1 /\ l <= n
    <3>1. m = l
      BY <1>11, <2>2
    <3> QED BY <1>5, <2>2, <3>1
  <2> QED BY <1>66, <2>1, <2>2
<1>13. ASSUME NEW i \in 1..m PROVE New(b)[i] = a - m + i
  <2>1. k + i - 1 \in 1..l /\ a - l + (k + i - 1) = a - m + i
    <3>1. i \in Nat /\ 1 <= i /\ i <= m /\ 1 <= k /\ m = l - k + 1
      BY <1>8, <1>11
    <3> QED BY <3>1
  <2>2. q[k + i - 1] = a - l + (k + i - 1)
    BY <1>4, <2>1
  <2> QED BY <1>7, <1>10, <1>11, <2>1, <2>2
<1> QED BY <1>2, <1>3, <1>7, <1>10, <1>11, <1>12, <1>13

(* Appending what is new: the cursor is at the last entry, in order, and    *)
(* everything up to there is logged or gone.                                *)
LEMMA FlushedBuffer ==
  ASSUME RingsTyped, NEW b \in Buffer, RingInv(b), CursorInv(b),
         logFile'[b] = logFile[b] \o New(b), flushed'[b] = added[b],
         ring' = ring, added' = added, gone' = gone
  PROVE  logFile'[b] \in Seq(Nat) /\ CursorInv(b)'
<1>1. PICK q \in Seq(Nat) : q = ring[b]
  BY DEF RingsTyped
<1>2. PICK a \in Nat : a = added[b]
  BY DEF RingsTyped
<1>3. PICK f \in Nat : f = flushed[b]
  BY DEF RingsTyped
<1>4. PICK g \in Seq(Nat) : g = logFile[b]
  BY DEF RingsTyped
<1>5. PICK l \in Nat : l = Len(ring[b])
  BY <1>1, LenProperties
<1>6. New(b) \in Seq(Nat)
  BY <1>5, NewIsBeyond
<1>7. PICK m \in Nat :
        /\ m = Len(New(b)) /\ m <= l /\ m <= added[b] - flushed[b]
        /\ m = l \/ m = added[b] - flushed[b]
        /\ \A i \in 1..m : New(b)[i] = added[b] - m + i
  BY <1>5, NewIsBeyond
<1>8. PICK w \in Seq(Nat) : w = New(b)
  BY <1>6
<1>9. m <= l /\ m <= a - f /\ (m = l \/ m = a - f) /\ \A i \in 1..m : w[i] = a - m + i
  BY <1>2, <1>3, <1>7, <1>8
<1>10. PICK n \in Nat : n = Len(g)
  BY <1>4, LenProperties
<1>11. /\ f <= a /\ l <= a
       /\ \A i \in 1..n : g[i] \in 1..f
       /\ \A i \in 1..n - 1 : g[i] < g[i + 1]
       /\ \A e \in 1..f : e \in Entries(g) \/ e \in gone[b]
       /\ \A e \in f + 1..a : e \in Entries(q) \/ e \in gone[b]
       /\ \A i \in 1..l : q[i] = a - l + i
  BY <1>1, <1>2, <1>3, <1>4, <1>5, <1>10 DEF CursorInv, RingInv
<1>12. PICK h : h = g \o w
  OBVIOUS
<1>13. /\ h \in Seq(Nat) /\ Len(h) = n + m
       /\ \A i \in 1..n + m : h[i] = IF i <= n THEN g[i] ELSE w[i - n]
  BY <1>7, <1>8, <1>10, <1>12, ConcatProperties
<1>14. /\ \A i \in 1..n : h[i] = g[i]
       /\ \A i \in 1..m : h[n + i] = w[i]
  <2>1. \A i \in 1..n : i \in 1..n + m /\ i <= n
    OBVIOUS
  <2>2. \A i \in 1..m : n + i \in 1..n + m /\ ~(n + i <= n) /\ (n + i) - n = i
    OBVIOUS
  <2> QED BY <1>13, <2>1, <2>2
<1>15. DOMAIN h = 1..n + m /\ DOMAIN g = 1..n /\ DOMAIN q = 1..l
  BY <1>1, <1>5, <1>10, <1>13, LenProperties
<1>16. f <= a - m
  BY <1>9, <1>11
<1>17. ASSUME NEW i \in 1..n + m PROVE h[i] \in 1..a
  <2>1. CASE i <= n
    <3>1. i \in 1..n
      BY <2>1
    <3>2. g[i] \in 1..f
      BY <1>11, <3>1
    <3> QED BY <1>11, <1>14, <3>1, <3>2
  <2>2. CASE ~(i <= n)
    <3>1. PICK k \in 1..m : i = n + k
      <4>1. i - n \in 1..m /\ i = n + (i - n)
        BY <2>2
      <4> QED BY <4>1
    <3>2. h[i] = a - m + k
      BY <1>9, <1>14, <3>1
    <3>3. m <= a
      BY <1>9, <1>11
    <3> QED BY <3>1, <3>2, <3>3
  <2> QED BY <2>1, <2>2
<1>18. ASSUME NEW i \in 1..n + m - 1 PROVE h[i] < h[i + 1]
  <2>1. CASE i < n
    <3>1. i \in 1..n - 1 /\ i \in 1..n /\ i + 1 \in 1..n
      BY <2>1
    <3> QED BY <1>11, <1>14, <3>1
  <2>2. CASE i = n
    <3>1. n \in 1..n /\ 1 \in 1..m
      BY <2>2
    <3>2. g[n] \in 1..f /\ h[n] = g[n]
      BY <1>11, <1>14, <3>1
    <3>3. h[n + 1] = a - m + 1
      BY <1>9, <1>14, <3>1
    <3> QED BY <1>16, <2>2, <3>2, <3>3
  <2>3. CASE i > n
    <3>1. PICK k \in 1..m : i = n + k /\ k + 1 \in 1..m
      <4>1. i \in Nat /\ n < i /\ i <= n + m - 1
        BY <2>3
      <4>2. PICK k \in Nat : k = i - n
        <5>1. i - n \in Nat
          BY <4>1
        <5> QED BY <5>1
      <4>3. k \in 1..m /\ k + 1 \in 1..m /\ i = n + k
        BY <4>1, <4>2
      <4> QED BY <4>3
    <3>2. h[i] = a - m + k
      BY <1>9, <1>14, <3>1
    <3>3. h[n + (k + 1)] = a - m + (k + 1)
      BY <1>9, <1>14, <3>1
    <3>4. n \in Nat /\ k \in Nat
      BY <2>3, <3>1
    <3>5. i + 1 = n + (k + 1)
      BY <3>1, <3>4
    <3>6. h[i + 1] = a - m + (k + 1)
      BY <3>3, <3>5
    <3> QED BY <3>2, <3>4, <3>6
  <2> QED BY <2>1, <2>2, <2>3
<1>19. ASSUME NEW e \in 1..a, e \notin gone[b] PROVE e \in Entries(h)
  <2>1. CASE e <= f
    <3>1. e \in Entries(g)
      BY <1>11, <1>19, <2>1
    <3>2. PICK i \in 1..n : g[i] = e
      BY <1>15, <3>1 DEF Entries
    <3>3. i \in 1..n + m
      OBVIOUS
    <3> QED BY <1>14, <1>15, <3>2, <3>3 DEF Entries
  <2>2. CASE ~(e <= f)
    <3>1. e \in f + 1..a
      BY <2>2
    <3>2. e \in Entries(q)
      BY <1>11, <1>19, <3>1
    <3>3. PICK k \in 1..l : q[k] = e
      BY <1>15, <3>2 DEF Entries
    <3>4. e = a - l + k
      BY <1>11, <3>3
    <3>5. k - (l - m) \in 1..m
      BY <1>9, <2>2, <3>4
    <3>6. w[k - (l - m)] = a - m + (k - (l - m))
      BY <1>9, <3>5
    <3>7. a - m + (k - (l - m)) = e
      BY <3>4
    <3>8. n + (k - (l - m)) \in 1..n + m
      BY <3>5
    <3> QED BY <1>14, <1>15, <3>5, <3>6, <3>7, <3>8 DEF Entries
  <2> QED BY <2>1, <2>2
<1>20. logFile'[b] = h /\ flushed'[b] = a /\ added'[b] = a /\ gone'[b] = gone[b]
  BY <1>2, <1>4, <1>8, <1>12
<1>21. \A e : e \notin a + 1..a
  OBVIOUS
<1>22. Len(logFile'[b]) = n + m
  BY <1>13, <1>20
<1> QED BY <1>13, <1>17, <1>18, <1>19, <1>20, <1>21, <1>22 DEF CursorInv

(* A buffer that a step leaves alone.                                       *)
LEMMA OtherBuffer ==
  ASSUME NEW b \in Buffer, RingInv(b), CursorInv(b),
         ring'[b] = ring[b], added'[b] = added[b], flushed'[b] = flushed[b],
         logFile'[b] = logFile[b], gone'[b] = gone[b]
  PROVE  RingInv(b)' /\ CursorInv(b)'
BY DEF RingInv, CursorInv

(* A flush appends to the logs of the first buffers and moves their         *)
(* cursors.                                                                 *)
LEMMA FlushKeeps == LogInv /\ FlushBuffers => LogInv'
<1> SUFFICES ASSUME LogInv, FlushBuffers PROVE LogInv'
  OBVIOUS
<1> USE DEF LogInv
<1>1. ring' = ring /\ added' = added /\ gone' = gone
  BY DEF FlushBuffers
<1>2. PICK n \in 0..Buffers : Flushes(n)
  BY DEF FlushBuffers
<1>3. ASSUME NEW b \in Buffer
      PROVE  logFile'[b] \in Seq(Nat) /\ flushed'[b] \in Nat /\ CursorInv(b)'
  <2>1. logFile[b] \in Seq(Nat) /\ flushed[b] \in Nat /\ added[b] \in Nat
    BY DEF RingsTyped
  <2>2. CASE b <= n
    <3>1. logFile'[b] = logFile[b] \o New(b) /\ flushed'[b] = added[b]
      BY <1>2, <2>2 DEF Flushes
    <3> QED BY <1>1, <2>1, <3>1, FlushedBuffer
  <2>3. CASE ~(b <= n)
    <3>1. logFile'[b] = logFile[b] /\ flushed'[b] = flushed[b]
      BY <1>2, <2>3 DEF Flushes
    <3> QED BY <1>1, <2>1, <3>1, OtherBuffer
  <2> QED BY <2>2, <2>3
<1>4. logFile' \in [Buffer -> Seq(Nat)] /\ flushed' \in [Buffer -> Nat]
  BY <1>2, <1>3 DEF Flushes
<1>5. \A b \in Buffer : RingInv(b)'
  BY <1>1 DEF RingInv
<1> QED BY <1>1, <1>3, <1>4, <1>5 DEF RingsTyped

(* A new entry pushes the oldest out of a full ring, which is then gone.    *)
LEMMA PushKeeps == ASSUME LogInv, NEW b \in Buffer, Push(b) PROVE LogInv'
<1> USE DEF LogInv
<1>1. PICK q \in Seq(Nat) : q = ring[b]
  BY DEF RingsTyped
<1>2. PICK a \in Nat : a = added[b]
  BY DEF RingsTyped
<1>3. PICK l \in Nat : l = Len(q)
  BY LenProperties
<1>4. PICK rest : rest = IF l = Capacity THEN Tail(q) ELSE q
  OBVIOUS
<1>5. PICK lost : lost = IF l = Capacity THEN {Head(q)} ELSE {}
  OBVIOUS
<1>6. /\ added' = [added EXCEPT ![b] = a + 1]
      /\ ring' = [ring EXCEPT ![b] = Append(rest, a + 1)]
      /\ gone' = [gone EXCEPT ![b] = gone[b] \cup lost]
      /\ flushed' = flushed /\ logFile' = logFile
  BY <1>1, <1>2, <1>3, <1>4, <1>5 DEF Push
<1>7. /\ l <= Capacity /\ l <= a /\ DOMAIN q = 1..l
      /\ \A i \in 1..l : q[i] = a - l + i
  BY <1>1, <1>2, <1>3, LenProperties DEF RingInv
<1>8. PICK k \in Nat : k = IF l = Capacity THEN l - 1 ELSE l
  <2>1. CASE l = Capacity
    <3>1. l - 1 \in Nat
      BY <2>1, RingsHoldSomething
    <3> QED BY <2>1, <3>1
  <2> QED BY <2>1
<1>9. /\ rest \in Seq(Nat) /\ Len(rest) = k
      /\ \A i \in 1..k : rest[i] = a - k + i
      /\ k + 1 <= Capacity /\ k <= l
  <2>1. CASE l = Capacity
    <3>1. k = l - 1 /\ rest = Tail(q) /\ q # <<>>
      BY <1>3, <1>4, <1>8, <2>1, RingsHoldSomething, EmptySeq
    <3>2. rest \in Seq(Nat) /\ Len(rest) = k /\ \A i \in 1..k : rest[i] = q[i + 1]
      BY <1>3, <3>1, HeadTailProperties
    <3>3. ASSUME NEW i \in 1..k PROVE rest[i] = a - k + i
      <4>1. i + 1 \in 1..l /\ a - l + (i + 1) = a - k + i
        BY <3>1
      <4> QED BY <1>7, <3>2, <4>1
    <3>4. k + 1 <= Capacity /\ k <= l
      BY <2>1, <3>1
    <3> QED BY <3>2, <3>3, <3>4
  <2>2. CASE l # Capacity
    <3>1. k = l /\ rest = q
      BY <1>4, <1>8, <2>2
    <3>2. k + 1 <= Capacity
      BY <1>7, <2>2, <3>1, RingsHoldSomething
    <3> QED BY <1>3, <1>7, <3>1, <3>2
  <2> QED BY <2>1, <2>2
<1>10. PICK h : h = Append(rest, a + 1)
  OBVIOUS
<1>11. /\ h \in Seq(Nat) /\ Len(h) = k + 1 /\ h[k + 1] = a + 1
       /\ \A i \in 1..k : h[i] = rest[i]
  <2>1. a + 1 \in Nat
    OBVIOUS
  <2>2. /\ h \in Seq(Nat) /\ Len(h) = Len(rest) + 1 /\ h[Len(rest) + 1] = a + 1
        /\ \A i \in 1..Len(rest) : h[i] = rest[i]
    BY <1>9, <1>10, <2>1, AppendProperties
  <2> QED BY <1>9, <2>2
<1>12. DOMAIN h = 1..k + 1
  BY <1>11, LenProperties
<1>13. ASSUME NEW i \in 1..k + 1 PROVE h[i] = (a + 1) - (k + 1) + i
  <2>1. CASE i = k + 1
    BY <1>11, <2>1
  <2>2. CASE i # k + 1
    <3>1. i \in 1..k /\ a - k + i = (a + 1) - (k + 1) + i
      BY <2>2
    <3> QED BY <1>9, <1>11, <3>1
  <2> QED BY <2>1, <2>2
<1>14. ring'[b] = h /\ added'[b] = a + 1 /\ gone'[b] = gone[b] \cup lost
  BY <1>6, <1>10 DEF RingsTyped
<1>15. ASSUME NEW e \in 1..a, e \in Entries(q) PROVE e \in Entries(h) \cup lost
  <2>1. PICK i \in 1..l : q[i] = e
    BY <1>7, <1>15 DEF Entries
  <2>2. CASE l = Capacity /\ i = 1
    <3>1. Head(q) = e
      BY <1>3, <2>1, <2>2, HeadTailProperties
    <3> QED BY <1>5, <2>2, <3>1
  <2>3. CASE ~(l = Capacity /\ i = 1)
    <3>1. PICK j \in 1..k : a - k + j = a - l + i
      <4>1. CASE l = Capacity
        <5>1. k = l - 1 /\ i # 1
          BY <1>8, <2>3, <4>1
        <5>2. i - 1 \in 1..k /\ a - k + (i - 1) = a - l + i
          BY <5>1
        <5> QED BY <5>2
      <4>2. CASE l # Capacity
        <5>1. k = l
          BY <1>8, <4>2
        <5> QED BY <5>1
      <4> QED BY <4>1, <4>2
    <3>2. h[j] = e /\ j \in 1..k + 1
      <4>1. h[j] = a - k + j
        BY <1>9, <1>11
      <4>2. e = a - l + i
        BY <1>7, <2>1
      <4>3. j \in 1..k + 1
        OBVIOUS
      <4> QED BY <3>1, <4>1, <4>2, <4>3
    <3> QED BY <1>12, <3>2 DEF Entries
  <2> QED BY <2>2, <2>3
<1>16. a + 1 \in Entries(h)
  BY <1>11, <1>12 DEF Entries
<1>17. RingInv(b)'
  <2>1. Len(ring'[b]) = k + 1
    BY <1>11, <1>14
  <2>2. k + 1 <= a + 1
    BY <1>7, <1>9
  <2> QED BY <1>9, <1>13, <1>14, <2>1, <2>2 DEF RingInv
<1>18. CursorInv(b)'
  <2>0. PICK f \in Nat : f = flushed[b]
    BY DEF RingsTyped
  <2>1. PICK g \in Seq(Nat) : g = logFile[b]
    BY DEF RingsTyped
  <2>2. /\ f <= a
        /\ \A i \in 1..Len(g) : g[i] \in 1..f
        /\ \A i \in 1..Len(g) - 1 : g[i] < g[i + 1]
        /\ \A e \in 1..f : e \in Entries(g) \/ e \in gone[b]
        /\ \A e \in f + 1..a : e \in Entries(q) \/ e \in gone[b]
    BY <1>1, <1>2, <2>0, <2>1 DEF CursorInv
  <2>3. f <= a + 1
    BY <2>2
  <2>4. ASSUME NEW e \in f + 1..a + 1 PROVE e \in Entries(h) \/ e \in gone'[b]
    <3>1. CASE e = a + 1
      BY <1>16, <3>1
    <3>2. CASE e # a + 1
      <4>1. e \in f + 1..a /\ e \in 1..a
        BY <3>2
      <4> QED BY <1>14, <1>15, <2>2, <4>1
    <3> QED BY <3>1, <3>2
  <2>5. flushed'[b] = f /\ logFile'[b] = g
    BY <1>6, <2>0, <2>1
  <2>6. \A e \in 1..f : e \in Entries(g) \/ e \in gone'[b]
    BY <1>14, <2>2
  <2> QED BY <1>14, <2>2, <2>3, <2>4, <2>5, <2>6 DEF CursorInv
<1>19. ASSUME NEW c \in Buffer \ {b} PROVE RingInv(c)' /\ CursorInv(c)'
  <2>1. ring'[c] = ring[c] /\ added'[c] = added[c] /\ gone'[c] = gone[c]
        /\ flushed'[c] = flushed[c] /\ logFile'[c] = logFile[c]
    BY <1>6 DEF RingsTyped
  <2> QED BY <2>1, OtherBuffer
<1>20. RingsTyped'
  BY <1>6, <1>10, <1>11 DEF RingsTyped
<1> QED BY <1>17, <1>18, <1>19, <1>20

(* Clearing a ring loses what it held.                                      *)
LEMMA ClearKeeps == ASSUME LogInv, NEW b \in Buffer, Clear(b) PROVE LogInv'
<1> USE DEF LogInv
<1>1. /\ ring' = [ring EXCEPT ![b] = <<>>]
      /\ gone' = [gone EXCEPT ![b] = gone[b] \cup Entries(ring[b])]
      /\ added' = added /\ flushed' = flushed /\ logFile' = logFile
  BY DEF Clear
<1>2. <<>> \in Seq(Nat) /\ Len(<<>>) = 0
  BY EmptySeq
<1>3. ring'[b] = <<>> /\ gone'[b] = gone[b] \cup Entries(ring[b]) /\ added[b] \in Nat
  BY <1>1 DEF RingsTyped
<1>4. RingInv(b)'
  <2>1. Len(ring'[b]) = 0
    BY <1>2, <1>3
  <2> QED BY <1>1, <1>3, <2>1, RingsHoldSomething DEF RingInv
<1>5. CursorInv(b)'
  BY <1>1, <1>3 DEF CursorInv
<1>6. ASSUME NEW c \in Buffer \ {b} PROVE RingInv(c)' /\ CursorInv(c)'
  <2>1. ring'[c] = ring[c] /\ added'[c] = added[c] /\ gone'[c] = gone[c]
        /\ flushed'[c] = flushed[c] /\ logFile'[c] = logFile[c]
    BY <1>1 DEF RingsTyped
  <2> QED BY <2>1, OtherBuffer
<1>7. RingsTyped'
  BY <1>1, <1>2 DEF RingsTyped
<1> QED BY <1>4, <1>5, <1>6, <1>7

(* So every log is ordered, and complete but for what is gone.              *)
LEMMA LogInvIsSafe == LogInv => LogSafe
<1> SUFFICES ASSUME LogInv, NEW b \in Buffer
             PROVE  /\ Len(ring[b]) <= Capacity /\ flushed[b] <= added[b]
                    /\ Entries(logFile[b]) \subseteq 1..added[b]
                    /\ \A i \in 1..Len(logFile[b]) - 1 : logFile[b][i] < logFile[b][i + 1]
                    /\ \A e \in 1..flushed[b] : e \in Entries(logFile[b]) \cup gone[b]
  BY DEF LogSafe, FlushTypeOK, LogIsOrdered, LogIsComplete
<1>1. RingInv(b) /\ CursorInv(b) /\ logFile[b] \in Seq(Nat) /\ flushed[b] \in Nat /\ added[b] \in Nat
  BY DEF LogInv, RingsTyped
<1>2. DOMAIN logFile[b] = 1..Len(logFile[b])
  BY <1>1, LenProperties
<1>3. Entries(logFile[b]) \subseteq 1..added[b]
  <2> SUFFICES ASSUME NEW i \in 1..Len(logFile[b]) PROVE logFile[b][i] \in 1..added[b]
    BY <1>2 DEF Entries
  <2>1. logFile[b][i] \in 1..flushed[b] /\ flushed[b] <= added[b]
    BY <1>1 DEF CursorInv
  <2> QED BY <1>1, <2>1
<1> QED BY <1>1, <1>3 DEF RingInv, CursorInv

(* What the daemon leaves on disk stays usable, for any number of tabs,     *)
(* rings of any capacity, and any interleaving of snapshots, flushes, user  *)
(* actions and ends: the snapshot file is never torn, the final snapshot is *)
(* not overwritten by an older one, and no log misses, repeats or reorders  *)
(* an entry that the rings still had (session-persist.ts, buffers.ts,       *)
(* server.ts).                                                              *)
THEOREM FilesSafeHolds == DiskSpec => []FilesSafe
<1> DEFINE DiskInv == SnapshotInv /\ LogInv
<1>1. PersistInit /\ FlushInit => DiskInv
  BY SnapshotStarts, LogStarts
<1>2. DiskInv /\ [DiskNext]_DiskVars => DiskInv'
  <2> SUFFICES ASSUME DiskInv, [DiskNext]_DiskVars PROVE DiskInv'
    OBVIOUS
  <2>1. SnapshotInv'
    BY SnapshotStep DEF DiskNext, DiskVars
  <2>2. LogInv'
    <3>1. CASE FlushNext
      BY <3>1, FlushKeeps, PushKeeps, ClearKeeps DEF FlushNext
    <3>2. CASE UNCHANGED flushVars
      BY <3>2 DEF flushVars, LogInv, RingsTyped, RingInv, CursorInv
    <3> QED BY <3>1, <3>2 DEF DiskNext, DiskVars
  <2> QED BY <2>1, <2>2
<1>3. DiskInv => FilesSafe
  BY SnapshotInvIsSafe, LogInvIsSafe DEF FilesSafe
<1> QED BY <1>1, <1>2, <1>3, PTL DEF DiskSpec
-----------------------------------------------------------------------------
(* The X servers of headed daemons: who may be named by a state file, and   *)
(* that a name with its start time means one process.                       *)

Process == [kind : {"none", "xvfb", "other"}, since : Nat]
StartedPid == [pid : 1..MaxPids, since : Nat \ {0}]
XvfbName == StartedPid \cup {NoXvfb}
OwnerState == [at : {"down", "picked", "waiting", "launching", "up"}, display : Nat, xvfb : XvfbName]

ProcessesTyped ==
  /\ clock \in Nat /\ proc \in [1..MaxPids -> Process] /\ serving \in [Display -> 0..MaxPids]
  /\ \A p \in 1..MaxPids : proc[p].since <= clock
  /\ \A p \in 1..MaxPids : IsOn(p) => proc[p].since > 0

(* A daemon in state s whose state file names r, when the last start was    *)
(* at c.                                                                    *)
OwnerFits(s, r, c) ==
  /\ s.xvfb.since <= c /\ r.since <= c
  /\ s.at \in {"down", "picked"} => s.xvfb = NoXvfb
  /\ s.at \in {"picked", "waiting", "launching"} => r = NoXvfb /\ s.display \in Display
  /\ s.at \in {"waiting", "launching", "up"} => s.xvfb # NoXvfb
  /\ s.at = "up" => r \in {s.xvfb, NoXvfb}

OwnersTyped ==
  /\ xd \in [Owner -> OwnerState] /\ record \in [Owner -> XvfbName]
  /\ \A d \in Owner : OwnerFits(xd[d], record[d], clock)

(* Start times tell processes apart: the pid with that start time is the    *)
(* Xvfb, or nothing has both.                                               *)
NamesXvfb(x) == x # NoXvfb /\ proc[x.pid].since = x.since => proc[x.pid].kind = "xvfb"
NamesAreXvfbs == \A d \in Owner : NamesXvfb(xd[d].xvfb) /\ NamesXvfb(record[d])

(* A display is served by an Xvfb that somebody can name, with its start    *)
(* time, or that is one of those whose name was lost.                       *)
Names(x, p) == x.pid = p /\ x.since = proc[p].since
Lost(p) == [pid |-> p, since |-> proc[p].since] \in stray
Named(p) == Lost(p) \/ \E d \in Owner : Names(xd[d].xvfb, p) \/ Names(record[d], p)
ServedIsNamed ==
  \A n \in Display : serving[n] # NoPid => proc[serving[n]].kind = "xvfb" /\ Named(serving[n])

XvfbInv == ProcessesTyped /\ OwnersTyped /\ NamesAreXvfbs /\ ServedIsNamed

(* Nobody is not a process.                                                 *)
LEMMA XvfbNames ==
  NoXvfb \in XvfbName /\ NoXvfb.since = 0 /\ NoXvfb.pid = NoPid /\ ~(NoPid \in 1..MaxPids)
BY PidsBounded DEF XvfbName, NoXvfb, NoPid

(* A name is that of a process, or of nobody.                               *)
LEMMA NameRange ==
  ASSUME NEW x \in XvfbName
  PROVE  /\ x.pid \in 0..MaxPids /\ x.since \in Nat
         /\ x # NoXvfb => x.pid \in 1..MaxPids /\ x.since > 0
         /\ x.pid # NoPid => x # NoXvfb
BY PidsBounded DEF XvfbName, StartedPid, NoXvfb, NoPid

(* A name is the pid and the start time of what it names.                   *)
LEMMA NameIs ==
  ASSUME NEW x \in XvfbName, NEW p, p # NoPid, Names(x, p)
  PROVE  x = [pid |-> p, since |-> proc[p].since]
<1>1. x \in StartedPid
  BY XvfbNames DEF XvfbName, Names
<1> QED BY <1>1 DEF StartedPid, Names

(* No daemon, no process.                                                   *)
LEMMA XvfbStarts == XvfbInit => XvfbInv
<1> SUFFICES ASSUME XvfbInit PROVE XvfbInv
  OBVIOUS
<1>1. ProcessesTyped
  BY PidsBounded DEF XvfbInit, ProcessesTyped, Process, Dead, IsOn, NoPid
<1>2. OwnersTyped
  <2>1. Down \in OwnerState /\ Down.at = "down" /\ Down.xvfb = NoXvfb
    BY XvfbNames DEF Down, OwnerState
  <2>2. OwnerFits(Down, NoXvfb, 0)
    BY <2>1, XvfbNames DEF OwnerFits
  <2>3. \A d \in Owner : xd[d] = Down /\ record[d] = NoXvfb /\ clock = 0
    BY DEF XvfbInit
  <2> QED BY <2>1, <2>2, <2>3, XvfbNames DEF XvfbInit, OwnersTyped
<1>3. NamesAreXvfbs /\ ServedIsNamed
  BY DEF XvfbInit, NamesAreXvfbs, NamesXvfb, ServedIsNamed, Down
<1> QED BY <1>1, <1>2, <1>3 DEF XvfbInv

(* A process ends, and whatever it served is free.                          *)
LEMMA EndedKeeps ==
  ASSUME XvfbInv, NEW p \in 1..MaxPids, Ended(p), clock' = clock
  PROVE  /\ ProcessesTyped'
         /\ \A n \in Display : /\ serving'[n] \in {NoPid, serving[n]} /\ serving'[n] # p
                               /\ serving'[n] # NoPid => proc'[serving'[n]] = proc[serving'[n]]
         /\ \A q \in 1..MaxPids : proc'[q] = IF q = p THEN Dead ELSE proc[q]
<1>1. /\ proc' = [proc EXCEPT ![p] = Dead]
      /\ serving' = [n \in Display |-> IF serving[n] = p THEN NoPid ELSE serving[n]]
  BY DEF Ended
<1>2. proc \in [1..MaxPids -> Process] /\ serving \in [Display -> 0..MaxPids] /\ clock \in Nat
  BY DEF XvfbInv, ProcessesTyped
<1>3. Dead \in Process /\ Dead.since = 0 /\ Dead.kind = "none"
  BY DEF Dead, Process
<1>4. \A q \in 1..MaxPids : proc'[q] = IF q = p THEN Dead ELSE proc[q]
  BY <1>1, <1>2
<1>5. \A n \in Display : serving'[n] = IF serving[n] = p THEN NoPid ELSE serving[n]
  BY <1>1
<1>6. proc' \in [1..MaxPids -> Process]
  BY <1>1, <1>2, <1>3
<1>7. serving' \in [Display -> 0..MaxPids]
  BY <1>1, <1>2, PidsBounded DEF NoPid
<1>8. ProcessesTyped'
  BY <1>2, <1>3, <1>4, <1>6, <1>7 DEF XvfbInv, ProcessesTyped, IsOn
<1>9. p # NoPid
  BY PidsBounded DEF NoPid
<1>10. ASSUME NEW n \in Display
       PROVE  /\ serving'[n] \in {NoPid, serving[n]} /\ serving'[n] # p
              /\ serving'[n] # NoPid => proc'[serving'[n]] = proc[serving'[n]]
  <2>1. serving[n] \in 0..MaxPids
    BY <1>2
  <2>2. CASE serving[n] = p
    BY <1>5, <1>9, <2>2
  <2>3. CASE serving[n] # p /\ serving[n] # NoPid
    <3>1. serving[n] \in 1..MaxPids
      BY <2>1, <2>3, PidsBounded DEF NoPid
    <3> QED BY <1>4, <1>5, <2>3, <3>1
  <2>4. CASE serving[n] = NoPid
    BY <1>5, <1>9, <2>4
  <2> QED BY <2>2, <2>3, <2>4
<1> QED BY <1>4, <1>8, <1>10

(* A daemon moves on.                                                       *)
LEMMA OwnerMoves ==
  ASSUME OwnersTyped, clock \in Nat, clock' \in Nat, clock <= clock', NEW d \in Owner,
         NEW s \in OwnerState, NEW r \in XvfbName, OwnerFits(s, r, clock'),
         xd' = [xd EXCEPT ![d] = s], record' = [record EXCEPT ![d] = r]
  PROVE  /\ OwnersTyped'
         /\ xd'[d] = s /\ record'[d] = r
         /\ \A o \in Owner \ {d} : xd'[o] = xd[o] /\ record'[o] = record[o]
<1>1. xd \in [Owner -> OwnerState] /\ record \in [Owner -> XvfbName]
  BY DEF OwnersTyped
<1>2. xd' \in [Owner -> OwnerState] /\ record' \in [Owner -> XvfbName]
  BY <1>1
<1>3. xd'[d] = s /\ record'[d] = r
  BY <1>1
<1>4. \A o \in Owner \ {d} : xd'[o] = xd[o] /\ record'[o] = record[o]
  BY <1>1
<1>5. ASSUME NEW o \in Owner \ {d} PROVE OwnerFits(xd'[o], record'[o], clock')
  <2>1. OwnerFits(xd[o], record[o], clock)
    BY DEF OwnersTyped
  <2>2. PICK x \in XvfbName : x = xd[o].xvfb
    BY <1>1 DEF OwnerState
  <2>3. PICK y \in XvfbName : y = record[o]
    BY <1>1
  <2>4. x.since \in Nat /\ y.since \in Nat
    BY NameRange
  <2>5. x.since <= clock /\ y.since <= clock
    BY <2>1, <2>2, <2>3 DEF OwnerFits
  <2>6. x.since <= clock' /\ y.since <= clock'
    BY <2>4, <2>5
  <2> QED BY <1>4, <2>1, <2>2, <2>3, <2>6 DEF OwnerFits
<1>6. ASSUME NEW o \in Owner PROVE OwnerFits(xd'[o], record'[o], clock')
  BY <1>3, <1>5
<1> QED BY <1>2, <1>3, <1>4, <1>6 DEF OwnersTyped

(* Nothing starts: what is named stays an Xvfb.                             *)
LEMMA NameKept ==
  ASSUME XvfbInv, NEW x \in XvfbName, NamesXvfb(x),
         \A q \in 1..MaxPids : proc'[q] = proc[q] \/ proc'[q] = Dead
  PROVE  NamesXvfb(x)'
<1>1. CASE x = NoXvfb
  BY <1>1 DEF NamesXvfb
<1>2. CASE x # NoXvfb
  <2>1. x.pid \in 1..MaxPids /\ x.since > 0 /\ x.since \in Nat
    BY <1>2, NameRange
  <2>2. Dead.since = 0
    BY DEF Dead
  <2> QED BY <2>1, <2>2 DEF NamesXvfb
<1> QED BY <1>1, <1>2

(* Nobody takes a new name, and the Xvfb of a served display keeps one.     *)
LEMMA NamesGo ==
  ASSUME XvfbInv, OwnersTyped', ProcessesTyped', stray \subseteq stray',
         \A o \in Owner : /\ xd'[o].xvfb \in {xd[o].xvfb, record[o], NoXvfb}
                          /\ record'[o] \in {xd[o].xvfb, record[o], NoXvfb},
         \A q \in 1..MaxPids : proc'[q] = proc[q] \/ proc'[q] = Dead,
         \A n \in Display : serving'[n] # NoPid =>
           serving'[n] = serving[n] /\ proc'[serving[n]] = proc[serving[n]],
         \A n \in Display, o \in Owner :
           serving'[n] # NoPid /\ (Names(xd[o].xvfb, serving[n]) \/ Names(record[o], serving[n]))
           => \/ Names(xd'[o].xvfb, serving[n]) \/ Names(record'[o], serving[n])
              \/ [pid |-> serving[n], since |-> proc[serving[n]].since] \in stray'
  PROVE  XvfbInv'
<1>1. ASSUME NEW o \in Owner
      PROVE  xd[o].xvfb \in XvfbName /\ record[o] \in XvfbName
  BY DEF XvfbInv, OwnersTyped, OwnerState
<1>2. ASSUME NEW o \in Owner PROVE (NamesXvfb(xd[o].xvfb) /\ NamesXvfb(record[o]))'
  <2>1. PICK x \in XvfbName : x = xd[o].xvfb
    BY <1>1
  <2>2. PICK y \in XvfbName : y = record[o]
    BY <1>1
  <2>3. NamesXvfb(x) /\ NamesXvfb(y)
    BY <2>1, <2>2 DEF XvfbInv, NamesAreXvfbs
  <2>4. NamesXvfb(x)' /\ NamesXvfb(y)'
    BY <2>3, NameKept
  <2>5. NamesXvfb(NoXvfb)'
    BY DEF NamesXvfb
  <2>6. xd'[o].xvfb \in {x, y, NoXvfb} /\ record'[o] \in {x, y, NoXvfb}
    BY <2>1, <2>2
  <2> QED BY <2>4, <2>5, <2>6 DEF NamesXvfb
<1>3. ASSUME NEW n \in Display, serving'[n] # NoPid
      PROVE  (proc[serving[n]].kind = "xvfb" /\ Named(serving[n]))'
  <2>1. serving[n] # NoPid /\ serving'[n] = serving[n] /\ proc'[serving[n]] = proc[serving[n]]
    BY <1>3
  <2>2. proc[serving[n]].kind = "xvfb" /\ Named(serving[n])
    BY <2>1 DEF XvfbInv, ServedIsNamed
  <2>3. CASE Lost(serving[n])
    BY <2>1, <2>2, <2>3 DEF Named, Lost
  <2>4. ASSUME NEW o \in Owner, Names(xd[o].xvfb, serving[n]) \/ Names(record[o], serving[n])
        PROVE  Named(serving[n])'
    <3>1. CASE Names(xd'[o].xvfb, serving[n]) \/ Names(record'[o], serving[n])
      BY <2>1, <3>1 DEF Named, Names
    <3>2. CASE [pid |-> serving[n], since |-> proc[serving[n]].since] \in stray'
      BY <2>1, <3>2 DEF Named, Lost
    <3> QED BY <1>3, <2>4, <3>1, <3>2
  <2> QED BY <2>1, <2>2, <2>3, <2>4 DEF Named
<1>4. NamesAreXvfbs' /\ ServedIsNamed'
  BY <1>2, <1>3 DEF NamesAreXvfbs, ServedIsNamed
<1> QED BY <1>4 DEF XvfbInv

(* Letting go of an Xvfb: it ends, or serves nothing.                       *)
LEMMA LetGo ==
  ASSUME XvfbInv, NEW x \in XvfbName, clock' = clock,
         \/ x.pid \in 1..MaxPids /\ Ended(x.pid)
         \/ /\ serving' = serving /\ proc' = proc
            /\ \A n \in Display : serving[n] # NoPid => ~Names(x, serving[n])
  PROVE  /\ ProcessesTyped'
         /\ \A q \in 1..MaxPids : proc'[q] = proc[q] \/ proc'[q] = Dead
         /\ \A n \in Display : serving'[n] # NoPid =>
              serving'[n] = serving[n] /\ proc'[serving[n]] = proc[serving[n]] /\ ~Names(x, serving[n])
<1>1. CASE x.pid \in 1..MaxPids /\ Ended(x.pid)
  <2>1. PICK p \in 1..MaxPids : p = x.pid
    BY <1>1
  <2>2. Ended(p)
    BY <1>1, <2>1
  <2> QED BY <2>1, <2>2, EndedKeeps DEF Names
<1>2. CASE /\ serving' = serving /\ proc' = proc
           /\ \A n \in Display : serving[n] # NoPid => ~Names(x, serving[n])
  BY <1>2 DEF XvfbInv, ProcessesTyped, IsOn
<1> QED BY <1>1, <1>2

(* A cleanup ends the process, unless its pid is no longer that Xvfb.       *)
LEMMA CleanupLetsGo ==
  ASSUME XvfbInv, NEW x \in XvfbName, CleanupXvfb(x)
  PROVE  \/ x.pid \in 1..MaxPids /\ Ended(x.pid)
         \/ /\ serving' = serving /\ proc' = proc
            /\ \A n \in Display : serving[n] # NoPid => ~Names(x, serving[n])
<1>1. x.pid \in 0..MaxPids
  BY NameRange
<1>2. CASE IsOurXvfb(x)
  <2>1. x.pid \in 1..MaxPids
    BY <1>1, <1>2, PidsBounded DEF IsOurXvfb, NoPid
  <2> QED BY <1>2, <2>1 DEF CleanupXvfb
<1>3. CASE ~IsOurXvfb(x)
  BY <1>3 DEF CleanupXvfb, IsOurXvfb, Names, XvfbInv, ServedIsNamed
<1> QED BY <1>2, <1>3

-----------------------------------------------------------------------------
(* A daemon that is not there has no Xvfb.                                  *)
LEMMA DownOwner == Down \in OwnerState /\ Down.at = "down" /\ Down.xvfb = NoXvfb
BY XvfbNames DEF Down, OwnerState

(* A daemon that ends lets go of its Xvfb and of the name.                  *)
LEMMA OwnerExitsKeeps == ASSUME XvfbInv, NEW d \in Owner, OwnerExits(d) PROVE XvfbInv'
<1>1. /\ xd' = [xd EXCEPT ![d] = Down] /\ record' = [record EXCEPT ![d] = NoXvfb]
      /\ CleanupXvfb(xd[d].xvfb) /\ clock' = clock /\ stray' = stray
      /\ xd[d].at \in {"launching", "up"}
  BY DEF OwnerExits
<1>2. PICK x \in XvfbName : x = xd[d].xvfb
  BY DEF XvfbInv, OwnersTyped, OwnerState
<1>3. record[d] \in {x, NoXvfb}
  BY <1>1, <1>2 DEF XvfbInv, OwnersTyped, OwnerFits
<1>4. OwnersTyped /\ clock \in Nat /\ clock' \in Nat /\ clock <= clock'
  BY <1>1 DEF XvfbInv, ProcessesTyped
<1>5. OwnerFits(Down, NoXvfb, clock')
  BY <1>4, DownOwner, XvfbNames DEF OwnerFits
<1>6. /\ OwnersTyped' /\ xd'[d] = Down /\ record'[d] = NoXvfb
      /\ \A o \in Owner \ {d} : xd'[o] = xd[o] /\ record'[o] = record[o]
  BY <1>1, <1>4, <1>5, DownOwner, XvfbNames, OwnerMoves
<1>7. CleanupXvfb(x)
  BY <1>1, <1>2
<1>8. /\ ProcessesTyped'
      /\ \A q \in 1..MaxPids : proc'[q] = proc[q] \/ proc'[q] = Dead
      /\ \A n \in Display : serving'[n] # NoPid =>
           serving'[n] = serving[n] /\ proc'[serving[n]] = proc[serving[n]] /\ ~Names(x, serving[n])
  BY <1>1, <1>7, CleanupLetsGo, LetGo
<1>9. \A o \in Owner : /\ xd'[o].xvfb \in {xd[o].xvfb, record[o], NoXvfb}
                       /\ record'[o] \in {xd[o].xvfb, record[o], NoXvfb}
  BY <1>6, DownOwner
<1>10. \A n \in Display, o \in Owner :
           serving'[n] # NoPid /\ (Names(xd[o].xvfb, serving[n]) \/ Names(record[o], serving[n]))
           => Names(xd'[o].xvfb, serving[n]) \/ Names(record'[o], serving[n])
  <2>1. \A n \in Display : serving'[n] # NoPid => ~Names(NoXvfb, serving[n])
    BY <1>8, XvfbNames DEF Names
  <2> QED BY <1>2, <1>3, <1>6, <1>8, <2>1
<1> QED BY <1>1, <1>6, <1>8, <1>9, <1>10, NamesGo

(* A disconnect does so for a daemon that was killed,                       *)
LEMMA DisconnectsKeeps == ASSUME XvfbInv, NEW d \in Owner, Disconnects(d) PROVE XvfbInv'
<1>1. /\ xd' = xd /\ record' = [record EXCEPT ![d] = NoXvfb]
      /\ CleanupXvfb(record[d]) /\ clock' = clock /\ stray' = stray /\ xd[d].at = "down"
  BY DEF Disconnects
<1>2. PICK x \in XvfbName : x = record[d]
  BY DEF XvfbInv, OwnersTyped
<1>3. PICK s \in OwnerState : s = xd[d]
  BY DEF XvfbInv, OwnersTyped
<1>4. OwnersTyped /\ clock \in Nat /\ clock' \in Nat /\ clock <= clock'
  BY <1>1 DEF XvfbInv, ProcessesTyped
<1>5. s.at = "down" /\ s.xvfb = NoXvfb
  BY <1>1, <1>3 DEF XvfbInv, OwnersTyped, OwnerFits
<1>6. OwnerFits(s, NoXvfb, clock')
  BY <1>4, <1>5, XvfbNames DEF OwnerFits
<1>7. xd' = [xd EXCEPT ![d] = s]
  BY <1>1, <1>3 DEF XvfbInv, OwnersTyped
<1>8. /\ OwnersTyped' /\ record'[d] = NoXvfb
      /\ \A o \in Owner \ {d} : record'[o] = record[o]
  <2>1. record' = [record EXCEPT ![d] = NoXvfb] /\ NoXvfb \in XvfbName
    BY <1>1, XvfbNames
  <2> QED BY <1>4, <1>6, <1>7, <2>1, OwnerMoves
<1>9. CleanupXvfb(x)
  BY <1>1, <1>2
<1>10. /\ ProcessesTyped'
       /\ \A q \in 1..MaxPids : proc'[q] = proc[q] \/ proc'[q] = Dead
       /\ \A n \in Display : serving'[n] # NoPid =>
            serving'[n] = serving[n] /\ proc'[serving[n]] = proc[serving[n]] /\ ~Names(x, serving[n])
  BY <1>1, <1>9, CleanupLetsGo, LetGo
<1>11. \A o \in Owner : /\ xd'[o].xvfb \in {xd[o].xvfb, record[o], NoXvfb}
                        /\ record'[o] \in {xd[o].xvfb, record[o], NoXvfb}
  BY <1>1, <1>8
<1>12. \A n \in Display, o \in Owner :
           serving'[n] # NoPid /\ (Names(xd[o].xvfb, serving[n]) \/ Names(record[o], serving[n]))
           => Names(xd'[o].xvfb, serving[n]) \/ Names(record'[o], serving[n])
  BY <1>1, <1>2, <1>8, <1>10
<1> QED BY <1>1, <1>8, <1>10, <1>11, <1>12, NamesGo

(* and after a kill the state file is what names the Xvfb, if it does.      *)
LEMMA XvfbKilledKeeps == ASSUME XvfbInv, NEW d \in Owner, XvfbKilled(d) PROVE XvfbInv'
<1>1. /\ xd' = [xd EXCEPT ![d] = Down]
      /\ stray' = stray \cup (IF record[d] = xd[d].xvfb THEN {} ELSE {xd[d].xvfb})
      /\ record' = record /\ clock' = clock /\ proc' = proc /\ serving' = serving
  BY DEF XvfbKilled
<1>2. PICK x \in XvfbName : x = record[d]
  BY DEF XvfbInv, OwnersTyped
<1>3. OwnersTyped /\ clock \in Nat /\ clock' \in Nat /\ clock <= clock' /\ ProcessesTyped'
  BY <1>1 DEF XvfbInv, ProcessesTyped, IsOn
<1>4. PICK y \in XvfbName : y = xd[d].xvfb
  BY DEF XvfbInv, OwnersTyped, OwnerState
<1>5. x.since <= clock
  BY <1>2 DEF XvfbInv, OwnersTyped, OwnerFits
<1>6. OwnerFits(Down, x, clock')
  BY <1>1, <1>3, <1>5, DownOwner, XvfbNames DEF OwnerFits
<1>7. record' = [record EXCEPT ![d] = x]
  BY <1>1, <1>2 DEF XvfbInv, OwnersTyped
<1>8. /\ OwnersTyped' /\ xd'[d] = Down
      /\ \A o \in Owner \ {d} : xd'[o] = xd[o]
  BY <1>1, <1>3, <1>6, <1>7, DownOwner, OwnerMoves
<1>9. \A o \in Owner : /\ xd'[o].xvfb \in {xd[o].xvfb, record[o], NoXvfb}
                       /\ record'[o] \in {xd[o].xvfb, record[o], NoXvfb}
  BY <1>1, <1>8, DownOwner
<1>10. \A n \in Display, o \in Owner :
           serving'[n] # NoPid /\ (Names(xd[o].xvfb, serving[n]) \/ Names(record[o], serving[n]))
           => \/ Names(xd'[o].xvfb, serving[n]) \/ Names(record'[o], serving[n])
              \/ [pid |-> serving[n], since |-> proc[serving[n]].since] \in stray'
  <2>1. ASSUME NEW n \in Display, serving'[n] # NoPid, Names(y, serving[n])
        PROVE  Names(record'[d], serving[n]) \/ [pid |-> serving[n], since |-> proc[serving[n]].since] \in stray'
    <3>1. y = [pid |-> serving[n], since |-> proc[serving[n]].since]
      BY <1>1, <2>1, NameIs
    <3>2. CASE x = y
      BY <1>1, <1>2, <2>1, <3>2
    <3>3. CASE x # y
      BY <1>1, <1>2, <1>4, <3>1, <3>3
    <3> QED BY <3>2, <3>3
  <2> QED BY <1>1, <1>4, <1>8, <2>1
<1> QED BY <1>1, <1>3, <1>8, <1>9, <1>10, NamesGo

(* A state file that is unlinked loses the name.                            *)
LEMMA UnlinksKeeps == ASSUME XvfbInv, NEW d \in Owner, Unlinks(d) PROVE XvfbInv'
<1>1. /\ xd' = xd /\ record' = [record EXCEPT ![d] = NoXvfb] /\ stray' = stray \cup {record[d]}
      /\ clock' = clock /\ proc' = proc /\ serving' = serving /\ record[d] # NoXvfb
  BY DEF Unlinks
<1>2. PICK x \in XvfbName : x = record[d]
  BY DEF XvfbInv, OwnersTyped
<1>3. PICK s \in OwnerState : s = xd[d]
  BY DEF XvfbInv, OwnersTyped
<1>4. OwnersTyped /\ clock \in Nat /\ clock' \in Nat /\ clock <= clock' /\ ProcessesTyped'
  BY <1>1 DEF XvfbInv, ProcessesTyped, IsOn
<1>5. OwnerFits(s, NoXvfb, clock')
  BY <1>1, <1>3, <1>4, XvfbNames DEF OwnersTyped, OwnerFits
<1>6. xd' = [xd EXCEPT ![d] = s]
  BY <1>1, <1>3 DEF XvfbInv, OwnersTyped
<1>7. /\ OwnersTyped' /\ record'[d] = NoXvfb
      /\ \A o \in Owner \ {d} : record'[o] = record[o]
  <2>1. record' = [record EXCEPT ![d] = NoXvfb] /\ NoXvfb \in XvfbName
    BY <1>1, XvfbNames
  <2> QED BY <1>4, <1>5, <1>6, <2>1, OwnerMoves
<1>8. \A o \in Owner : /\ xd'[o].xvfb \in {xd[o].xvfb, record[o], NoXvfb}
                       /\ record'[o] \in {xd[o].xvfb, record[o], NoXvfb}
  BY <1>1, <1>7
<1>9. ASSUME NEW n \in Display, serving'[n] # NoPid, Names(x, serving[n])
      PROVE  [pid |-> serving[n], since |-> proc[serving[n]].since] \in stray'
  <2>1. x = [pid |-> serving[n], since |-> proc[serving[n]].since]
    BY <1>1, <1>9, NameIs
  <2> QED BY <1>1, <1>2, <2>1
<1>10. \A n \in Display, o \in Owner :
           serving'[n] # NoPid /\ (Names(xd[o].xvfb, serving[n]) \/ Names(record[o], serving[n]))
           => \/ Names(xd'[o].xvfb, serving[n]) \/ Names(record'[o], serving[n])
              \/ [pid |-> serving[n], since |-> proc[serving[n]].since] \in stray'
  BY <1>1, <1>2, <1>7, <1>9
<1> QED BY <1>1, <1>4, <1>7, <1>8, <1>10, NamesGo

(* The browser may be launched, or the Xvfb that did not answer ends.       *)
LEMMA ReadyKeeps == ASSUME XvfbInv, NEW d \in Owner, Ready(d) PROVE XvfbInv'
<1>1. xd[d].at = "waiting" /\ clock' = clock /\ record' = record /\ stray' = stray
  BY DEF Ready
<1>2. PICK s \in OwnerState : s = xd[d]
  BY DEF XvfbInv, OwnersTyped
<1>3. PICK x \in XvfbName : x = xd[d].xvfb
  BY DEF XvfbInv, OwnersTyped, OwnerState
<1>4. OwnersTyped /\ clock \in Nat /\ clock' \in Nat /\ clock <= clock'
  BY <1>1 DEF XvfbInv, ProcessesTyped
<1>5. /\ record[d] = NoXvfb /\ x # NoXvfb /\ x.since <= clock /\ s.xvfb = x
      /\ s.display \in Display
  BY <1>1, <1>2, <1>3 DEF XvfbInv, OwnersTyped, OwnerFits
<1>6. CASE /\ xd' = [xd EXCEPT ![d].at = "launching"]
           /\ serving' = serving /\ proc' = proc
  <2>1. PICK t \in OwnerState : t = [s EXCEPT !.at = "launching"]
    BY DEF OwnerState
  <2>2. t.at = "launching" /\ t.xvfb = x /\ t.display = s.display
    BY <1>5, <2>1 DEF OwnerState
  <2>3. OwnerFits(t, NoXvfb, clock')
    BY <1>1, <1>4, <1>5, <2>2, XvfbNames DEF OwnerFits
  <2>4. xd' = [xd EXCEPT ![d] = t] /\ record' = [record EXCEPT ![d] = NoXvfb]
    BY <1>1, <1>2, <1>5, <1>6, <2>1 DEF XvfbInv, OwnersTyped
  <2>5. /\ OwnersTyped' /\ xd'[d] = t /\ record'[d] = NoXvfb
        /\ \A o \in Owner \ {d} : xd'[o] = xd[o] /\ record'[o] = record[o]
    <3>1. t \in OwnerState /\ NoXvfb \in XvfbName /\ d \in Owner
      BY XvfbNames
    <3> QED BY <1>4, <2>3, <2>4, <3>1, OwnerMoves
  <2>6. ProcessesTyped'
    BY <1>1, <1>6 DEF XvfbInv, ProcessesTyped, IsOn
  <2>7. \A o \in Owner : xd'[o].xvfb = xd[o].xvfb /\ record'[o] = record[o]
    BY <1>3, <1>5, <2>2, <2>5
  <2> QED BY <1>1, <1>6, <2>5, <2>6, <2>7, NamesGo
<1>7. CASE /\ xd' = [xd EXCEPT ![d] = Down]
           /\ IF proc[xd[d].xvfb.pid].since = xd[d].xvfb.since THEN Ended(xd[d].xvfb.pid)
              ELSE serving' = serving /\ proc' = proc
  <2>1. OwnerFits(Down, NoXvfb, clock')
    BY <1>4, DownOwner, XvfbNames DEF OwnerFits
  <2>2. record' = [record EXCEPT ![d] = NoXvfb]
    BY <1>1, <1>5 DEF XvfbInv, OwnersTyped
  <2>3. /\ OwnersTyped' /\ xd'[d] = Down /\ record'[d] = NoXvfb
        /\ \A o \in Owner \ {d} : xd'[o] = xd[o] /\ record'[o] = record[o]
    <3>1. xd' = [xd EXCEPT ![d] = Down] /\ Down \in OwnerState /\ NoXvfb \in XvfbName
      BY <1>7, DownOwner, XvfbNames
    <3> QED BY <1>4, <2>1, <2>2, <3>1, OwnerMoves
  <2>4. \/ x.pid \in 1..MaxPids /\ Ended(x.pid)
        \/ /\ serving' = serving /\ proc' = proc
           /\ \A n \in Display : serving[n] # NoPid => ~Names(x, serving[n])
    <3>1. x.pid \in 1..MaxPids
      BY <1>5, NameRange
    <3> QED BY <1>3, <1>7, <3>1 DEF Names
  <2>5. /\ ProcessesTyped'
        /\ \A q \in 1..MaxPids : proc'[q] = proc[q] \/ proc'[q] = Dead
        /\ \A n \in Display : serving'[n] # NoPid =>
             serving'[n] = serving[n] /\ proc'[serving[n]] = proc[serving[n]] /\ ~Names(x, serving[n])
    BY <1>1, <2>4, LetGo
  <2>6. \A o \in Owner : /\ xd'[o].xvfb \in {xd[o].xvfb, record[o], NoXvfb}
                         /\ record'[o] \in {xd[o].xvfb, record[o], NoXvfb}
    BY <2>3, DownOwner
  <2>7. \A n \in Display, o \in Owner :
           serving'[n] # NoPid /\ (Names(xd[o].xvfb, serving[n]) \/ Names(record[o], serving[n]))
           => Names(xd'[o].xvfb, serving[n]) \/ Names(record'[o], serving[n])
    BY <1>3, <1>5, <2>3, <2>5
  <2> QED BY <1>1, <2>3, <2>5, <2>6, <2>7, NamesGo
<1> QED BY <1>6, <1>7 DEF Ready

(* With the browser up, the state file names the Xvfb.                      *)
LEMMA RecordsXvfbKeeps == ASSUME XvfbInv, NEW d \in Owner, RecordsXvfb(d) PROVE XvfbInv'
<1>1. /\ xd[d].at = "launching" /\ clock' = clock /\ stray' = stray
      /\ xd' = [xd EXCEPT ![d].at = "up"] /\ record' = [record EXCEPT ![d] = xd[d].xvfb]
      /\ serving' = serving /\ proc' = proc
  BY DEF RecordsXvfb
<1>2. PICK s \in OwnerState : s = xd[d]
  BY DEF XvfbInv, OwnersTyped
<1>3. PICK x \in XvfbName : x = xd[d].xvfb
  BY DEF XvfbInv, OwnersTyped, OwnerState
<1>4. OwnersTyped /\ clock \in Nat /\ clock' \in Nat /\ clock <= clock'
  BY <1>1 DEF XvfbInv, ProcessesTyped
<1>5. /\ record[d] = NoXvfb /\ x # NoXvfb /\ x.since <= clock /\ s.xvfb = x
  BY <1>1, <1>2, <1>3 DEF XvfbInv, OwnersTyped, OwnerFits
<1>6. PICK t \in OwnerState : t = [s EXCEPT !.at = "up"]
  BY DEF OwnerState
<1>7. t.at = "up" /\ t.xvfb = x
  BY <1>5, <1>6 DEF OwnerState
<1>8. OwnerFits(t, x, clock')
  BY <1>1, <1>5, <1>7 DEF OwnerFits
<1>9. xd' = [xd EXCEPT ![d] = t] /\ record' = [record EXCEPT ![d] = x]
  BY <1>1, <1>2, <1>3, <1>6 DEF XvfbInv, OwnersTyped
<1>10. /\ OwnersTyped' /\ xd'[d] = t /\ record'[d] = x
       /\ \A o \in Owner \ {d} : xd'[o] = xd[o] /\ record'[o] = record[o]
  <2>1. t \in OwnerState /\ x \in XvfbName /\ d \in Owner
    OBVIOUS
  <2> QED BY <1>4, <1>8, <1>9, <2>1, OwnerMoves
<1>11. ProcessesTyped'
  BY <1>1 DEF XvfbInv, ProcessesTyped, IsOn
<1>12. \A o \in Owner : /\ xd'[o].xvfb \in {xd[o].xvfb, record[o], NoXvfb}
                        /\ record'[o] \in {xd[o].xvfb, record[o], NoXvfb}
  BY <1>3, <1>7, <1>10
<1>13. \A n \in Display, o \in Owner :
         serving'[n] # NoPid /\ (Names(xd[o].xvfb, serving[n]) \/ Names(record[o], serving[n]))
         => Names(xd'[o].xvfb, serving[n]) \/ Names(record'[o], serving[n])
  <2>1. ASSUME NEW n \in Display, serving'[n] # NoPid PROVE ~Names(NoXvfb, serving[n])
    BY <1>1, <2>1, XvfbNames DEF Names
  <2> QED BY <1>3, <1>5, <1>7, <1>10, <2>1
<1> QED BY <1>1, <1>10, <1>11, <1>12, <1>13, NamesGo

(* A process ends by itself.                                                *)
LEMMA ProcessEndsKeeps == XvfbInv /\ ProcessEnds => XvfbInv'
<1> SUFFICES ASSUME XvfbInv, NEW p \in 1..MaxPids, Ended(p), UNCHANGED <<xd, clock, record, stray, launches>>
             PROVE  XvfbInv'
  BY DEF ProcessEnds
<1>1. /\ ProcessesTyped'
      /\ \A n \in Display : /\ serving'[n] \in {NoPid, serving[n]} /\ serving'[n] # p
                            /\ serving'[n] # NoPid => proc'[serving'[n]] = proc[serving'[n]]
      /\ \A q \in 1..MaxPids : proc'[q] = IF q = p THEN Dead ELSE proc[q]
  BY EndedKeeps
<1>2. OwnersTyped'
  BY DEF XvfbInv, OwnersTyped
<1>3. \A q \in 1..MaxPids : proc'[q] = proc[q] \/ proc'[q] = Dead
  BY <1>1
<1>4. \A n \in Display : serving'[n] # NoPid =>
        serving'[n] = serving[n] /\ proc'[serving[n]] = proc[serving[n]]
  BY <1>1
<1>5. xd' = xd /\ record' = record /\ stray' = stray
  OBVIOUS
<1> QED BY <1>1, <1>2, <1>3, <1>4, <1>5, NamesGo

-----------------------------------------------------------------------------
(* An Xvfb is wanted, spawned and bound.                                    *)
LEMMA PicksKeeps == ASSUME XvfbInv, NEW d \in Owner, Picks(d) PROVE XvfbInv'
<1>1. PICK n \in Display : xd' = [xd EXCEPT ![d] = [Down EXCEPT !.at = "picked", !.display = n]]
  BY DEF Picks
<1>2. /\ record[d] = NoXvfb /\ xd[d].at = "down" /\ n \in Nat
      /\ stray' = stray /\ record' = record /\ clock' = clock /\ proc' = proc /\ serving' = serving
  BY PidsBounded DEF Picks
<1>3. PICK s : s = [Down EXCEPT !.at = "picked", !.display = n]
  OBVIOUS
<1>4. s \in OwnerState /\ s.at = "picked" /\ s.xvfb = NoXvfb /\ s.display = n
  BY <1>2, <1>3, DownOwner DEF Down, OwnerState
<1>5. OwnersTyped /\ clock \in Nat /\ clock' \in Nat /\ clock <= clock' /\ ProcessesTyped'
  BY <1>2 DEF XvfbInv, ProcessesTyped, IsOn
<1>6. OwnerFits(s, NoXvfb, clock')
  BY <1>4, <1>5, XvfbNames DEF OwnerFits
<1>7. xd[d].xvfb = NoXvfb
  BY <1>2 DEF XvfbInv, OwnersTyped, OwnerFits
<1>8. record' = [record EXCEPT ![d] = NoXvfb] /\ NoXvfb \in XvfbName
  BY <1>2, XvfbNames DEF XvfbInv, OwnersTyped
<1>9. xd' = [xd EXCEPT ![d] = s]
  BY <1>1, <1>3
<1>10. /\ OwnersTyped' /\ xd'[d] = s
       /\ \A o \in Owner \ {d} : xd'[o] = xd[o]
  BY <1>4, <1>5, <1>6, <1>8, <1>9, OwnerMoves
<1>11. \A o \in Owner : /\ xd'[o].xvfb \in {xd[o].xvfb, record[o], NoXvfb}
                        /\ record'[o] \in {xd[o].xvfb, record[o], NoXvfb}
  BY <1>2, <1>4, <1>10
<1>12. \A m \in Display, o \in Owner :
           serving'[m] # NoPid /\ (Names(xd[o].xvfb, serving[m]) \/ Names(record[o], serving[m]))
           => Names(xd'[o].xvfb, serving[m]) \/ Names(record'[o], serving[m])
  BY <1>2, <1>4, <1>7, <1>10
<1> QED BY <1>2, <1>5, <1>10, <1>11, <1>12, NamesGo

(* A process that starts now has no name yet.                               *)
LEMMA NewProcess ==
  ASSUME XvfbInv, NEW p \in 1..MaxPids, ~IsOn(p), clock' = clock + 1, serving' = serving,
         NEW kind \in {"other", "xvfb"}, proc' = [proc EXCEPT ![p] = [kind |-> kind, since |-> clock + 1]]
  PROVE  /\ ProcessesTyped'
         /\ \A q \in 1..MaxPids \ {p} : proc'[q] = proc[q]
         /\ proc'[p].kind = kind /\ proc'[p].since = clock + 1
         /\ \A n \in Display : serving[n] # NoPid =>
              proc'[serving[n]] = proc[serving[n]] /\ proc[serving[n]].kind = "xvfb" /\ Named(serving[n])
<1>1. clock \in Nat /\ proc \in [1..MaxPids -> Process] /\ serving \in [Display -> 0..MaxPids]
  BY DEF XvfbInv, ProcessesTyped
<1>2. PICK r \in Process : r = [kind |-> kind, since |-> clock + 1]
  BY <1>1 DEF Process
<1>3. r.kind = kind /\ r.since = clock + 1
  BY <1>2
<1>4. proc' = [proc EXCEPT ![p] = r]
  BY <1>2
<1>5. proc' \in [1..MaxPids -> Process]
  BY <1>1, <1>4
<1>6. \A q \in 1..MaxPids \ {p} : proc'[q] = proc[q]
  BY <1>1, <1>4
<1>7. proc'[p] = r
  BY <1>1, <1>4
<1>8. ASSUME NEW q \in 1..MaxPids PROVE proc'[q].since <= clock + 1 /\ (IsOn(q)' => proc'[q].since > 0)
  <2>1. CASE q = p
    BY <1>1, <1>3, <1>7, <2>1
  <2>2. CASE q # p
    <3>1. PICK k \in Nat : k = proc[q].since
      BY <1>1 DEF Process
    <3>2. k <= clock /\ (IsOn(q) => k > 0)
      BY <3>1 DEF XvfbInv, ProcessesTyped
    <3>3. k <= clock + 1
      BY <1>1, <3>2
    <3> QED BY <1>6, <2>2, <3>1, <3>2, <3>3 DEF IsOn
  <2> QED BY <2>1, <2>2
<1>9. ProcessesTyped'
  BY <1>1, <1>5, <1>8 DEF ProcessesTyped
<1>10. ASSUME NEW n \in Display, serving[n] # NoPid
       PROVE  proc'[serving[n]] = proc[serving[n]] /\ proc[serving[n]].kind = "xvfb" /\ Named(serving[n])
  <2>1. proc[serving[n]].kind = "xvfb" /\ Named(serving[n])
    BY <1>10 DEF XvfbInv, ServedIsNamed
  <2>2. serving[n] \in 0..MaxPids
    BY <1>1
  <2>3. serving[n] \in 1..MaxPids
    BY <1>10, <2>2, PidsBounded DEF NoPid
  <2>4. serving[n] # p
    BY <2>1 DEF IsOn
  <2> QED BY <1>6, <2>1, <2>3, <2>4
<1> QED BY <1>3, <1>6, <1>7, <1>9, <1>10

(* What is named already started before.                                    *)
LEMMA OldName ==
  ASSUME XvfbInv, NEW x \in XvfbName, NamesXvfb(x), x.since <= clock, NEW p \in 1..MaxPids,
         \A q \in 1..MaxPids \ {p} : proc'[q] = proc[q], proc'[p].since = clock + 1
  PROVE  NamesXvfb(x)'
<1>1. CASE x = NoXvfb
  BY <1>1 DEF NamesXvfb
<1>2. CASE x # NoXvfb
  <2>1. x.pid \in 1..MaxPids /\ x.since \in Nat /\ clock \in Nat
    BY <1>2, NameRange DEF XvfbInv, ProcessesTyped
  <2>2. x.since # clock + 1
    BY <2>1
  <2>3. CASE x.pid = p
    BY <2>2, <2>3 DEF NamesXvfb
  <2>4. CASE x.pid # p
    <3>1. proc'[x.pid] = proc[x.pid]
      BY <2>1, <2>4
    <3> QED BY <3>1 DEF NamesXvfb
  <2> QED BY <2>3, <2>4
<1> QED BY <1>1, <1>2

(* A pid comes back with a start time that no name has.                     *)
LEMMA PidReusedKeeps == XvfbInv /\ PidReused => XvfbInv'
<1> SUFFICES ASSUME XvfbInv, PidReused PROVE XvfbInv'
  OBVIOUS
<1>1. PICK p \in 1..MaxPids, kind \in {"other", "xvfb"} :
        ~IsOn(p) /\ proc' = [proc EXCEPT ![p] = [kind |-> kind, since |-> clock + 1]]
  BY DEF PidReused
<1>2. clock' = clock + 1 /\ serving' = serving /\ xd' = xd /\ record' = record /\ stray' = stray
  BY DEF PidReused
<1>3. /\ ProcessesTyped'
      /\ \A q \in 1..MaxPids \ {p} : proc'[q] = proc[q]
      /\ proc'[p].since = clock + 1
      /\ \A n \in Display : serving[n] # NoPid =>
           proc'[serving[n]] = proc[serving[n]] /\ proc[serving[n]].kind = "xvfb" /\ Named(serving[n])
  BY <1>1, <1>2, NewProcess
<1>4. ASSUME NEW o \in Owner
      PROVE  /\ OwnerFits(xd[o], record[o], clock + 1)
             /\ (NamesXvfb(xd[o].xvfb) /\ NamesXvfb(record[o]))'
  <2>1. OwnerFits(xd[o], record[o], clock) /\ clock \in Nat
    BY DEF XvfbInv, OwnersTyped, ProcessesTyped
  <2>2. PICK x \in XvfbName : x = xd[o].xvfb
    BY DEF XvfbInv, OwnersTyped, OwnerState
  <2>3. PICK y \in XvfbName : y = record[o]
    BY DEF XvfbInv, OwnersTyped
  <2>4. x.since \in Nat /\ y.since \in Nat /\ x.since <= clock /\ y.since <= clock
    BY <2>1, <2>2, <2>3, NameRange DEF OwnerFits
  <2>5. x.since <= clock + 1 /\ y.since <= clock + 1
    BY <2>1, <2>4
  <2>6. NamesXvfb(x) /\ NamesXvfb(y)
    BY <2>2, <2>3 DEF XvfbInv, NamesAreXvfbs
  <2>7. NamesXvfb(x)' /\ NamesXvfb(y)'
    BY <1>3, <2>4, <2>6, OldName
  <2> QED BY <1>2, <2>1, <2>2, <2>3, <2>5, <2>7 DEF OwnerFits, NamesXvfb
<1>5. OwnersTyped'
  BY <1>2, <1>4 DEF XvfbInv, OwnersTyped
<1>6. NamesAreXvfbs'
  BY <1>4 DEF NamesAreXvfbs
<1>7. ASSUME NEW n \in Display, serving[n] # NoPid
      PROVE  proc'[serving[n]].kind = "xvfb" /\ Named(serving[n])'
  <2>1. proc'[serving[n]] = proc[serving[n]] /\ proc[serving[n]].kind = "xvfb" /\ Named(serving[n])
    BY <1>3, <1>7
  <2>2. CASE Lost(serving[n])
    BY <1>2, <2>1, <2>2 DEF Named, Lost
  <2>3. CASE \E o \in Owner : Names(xd[o].xvfb, serving[n]) \/ Names(record[o], serving[n])
    BY <1>2, <2>1, <2>3 DEF Named, Names
  <2> QED BY <2>1, <2>2, <2>3 DEF Named
<1>8. ServedIsNamed'
  BY <1>2, <1>7 DEF ServedIsNamed, Named, Names, Lost
<1> QED BY <1>3, <1>5, <1>6, <1>8 DEF XvfbInv

(* So does the Xvfb of a daemon, which names it from then on.               *)
LEMMA SpawnsXvfbKeeps == ASSUME XvfbInv, NEW d \in Owner, SpawnsXvfb(d) PROVE XvfbInv'
<1>1. PICK p \in 1..MaxPids :
        /\ ~IsOn(p)
        /\ proc' = [proc EXCEPT ![p] = [kind |-> "xvfb", since |-> clock + 1]]
        /\ xd' = [xd EXCEPT ![d].at = "waiting", ![d].xvfb = [pid |-> p, since |-> clock + 1]]
  BY DEF SpawnsXvfb
<1>2. /\ clock' = clock + 1 /\ serving' = serving /\ record' = record /\ xd[d].at = "picked"
      /\ stray' = stray
  BY DEF SpawnsXvfb
<1>3. /\ ProcessesTyped'
      /\ \A q \in 1..MaxPids \ {p} : proc'[q] = proc[q]
      /\ proc'[p].kind = "xvfb" /\ proc'[p].since = clock + 1
      /\ \A n \in Display : serving[n] # NoPid =>
           proc'[serving[n]] = proc[serving[n]] /\ proc[serving[n]].kind = "xvfb" /\ Named(serving[n])
  BY <1>1, <1>2, NewProcess
<1>4. OwnersTyped /\ clock \in Nat /\ clock' \in Nat /\ clock <= clock'
  BY <1>2 DEF XvfbInv, ProcessesTyped
<1>5. PICK s \in OwnerState : s = xd[d]
  BY DEF XvfbInv, OwnersTyped
<1>6. s.at = "picked" /\ s.xvfb = NoXvfb /\ record[d] = NoXvfb /\ s.display \in Display
  BY <1>2, <1>5 DEF XvfbInv, OwnersTyped, OwnerFits
<1>7. PICK x \in XvfbName : x = [pid |-> p, since |-> clock + 1]
  <2>1. clock + 1 \in Nat \ {0}
    BY <1>4
  <2> QED BY <2>1 DEF XvfbName, StartedPid
<1>8. x.pid = p /\ x.since = clock + 1 /\ x # NoXvfb
  BY <1>7, PidsBounded DEF NoXvfb, NoPid
<1>9. PICK t \in OwnerState : t = [s EXCEPT !.at = "waiting", !.xvfb = x]
  BY DEF OwnerState
<1>10. t.at = "waiting" /\ t.xvfb = x /\ t.display = s.display
  BY <1>9 DEF OwnerState
<1>11. OwnerFits(t, NoXvfb, clock')
  BY <1>2, <1>4, <1>6, <1>8, <1>10, XvfbNames DEF OwnerFits
<1>12. xd' = [xd EXCEPT ![d] = t]
  BY <1>1, <1>4, <1>5, <1>7, <1>9 DEF OwnersTyped
<1>13. record' = [record EXCEPT ![d] = NoXvfb] /\ NoXvfb \in XvfbName
  BY <1>2, <1>4, <1>6, XvfbNames DEF OwnersTyped
<1>14. /\ OwnersTyped' /\ xd'[d] = t
       /\ \A o \in Owner \ {d} : xd'[o] = xd[o]
  BY <1>4, <1>11, <1>12, <1>13, OwnerMoves
<1>15. ASSUME NEW o \in Owner, NEW y \in XvfbName, y = record[o] \/ (o # d /\ y = xd[o].xvfb)
       PROVE  NamesXvfb(y)'
  <2>1. NamesXvfb(y) /\ y.since <= clock
    BY <1>15 DEF XvfbInv, NamesAreXvfbs, OwnersTyped, OwnerFits
  <2> QED BY <1>3, <2>1, OldName
<1>16. NamesXvfb(x)'
  BY <1>3, <1>8 DEF NamesXvfb
<1>17. ASSUME NEW o \in Owner PROVE (NamesXvfb(xd[o].xvfb) /\ NamesXvfb(record[o]))'
  <2>1. PICK y \in XvfbName : y = record[o]
    BY <1>4 DEF OwnersTyped
  <2>2. NamesXvfb(record[o])'
    BY <1>2, <1>15, <2>1 DEF NamesXvfb
  <2>3. CASE o = d
    BY <1>10, <1>14, <1>16, <2>2, <2>3 DEF NamesXvfb
  <2>4. CASE o # d
    <3>1. PICK z \in XvfbName : z = xd[o].xvfb
      BY <1>4 DEF OwnersTyped, OwnerState
    <3>2. NamesXvfb(z)'
      BY <1>15, <2>4, <3>1
    <3> QED BY <1>14, <2>2, <2>4, <3>1, <3>2 DEF NamesXvfb
  <2> QED BY <2>3, <2>4
<1>18. ASSUME NEW n \in Display, serving[n] # NoPid
       PROVE  (proc[serving[n]].kind = "xvfb" /\ Named(serving[n]))'
  <2>1. ASSUME NEW o \in Owner, Names(xd[o].xvfb, serving[n]) \/ Names(record[o], serving[n])
        PROVE  Named(serving[n])'
    <3>1. o # d
      BY <1>5, <1>6, <1>18, <2>1, XvfbNames DEF Names
    <3> QED BY <1>2, <1>3, <1>14, <1>18, <2>1, <3>1 DEF Named, Names
  <2>2. CASE Lost(serving[n])
    BY <1>2, <1>3, <1>18, <2>2 DEF Named, Lost
  <2> QED BY <1>2, <1>3, <1>18, <2>1, <2>2 DEF Named
<1>19. NamesAreXvfbs' /\ ServedIsNamed'
  BY <1>2, <1>17, <1>18 DEF NamesAreXvfbs, ServedIsNamed
<1> QED BY <1>3, <1>14, <1>19 DEF XvfbInv

(* It takes the display, or ends because another has it.                    *)
LEMMA XvfbBindsKeeps == ASSUME XvfbInv, NEW d \in Owner, XvfbBinds(d) PROVE XvfbInv'
<1>1. /\ xd[d].at = "waiting" /\ proc[xd[d].xvfb.pid].since = xd[d].xvfb.since
      /\ xd' = xd /\ clock' = clock /\ record' = record /\ stray' = stray
  BY DEF XvfbBinds
<1>2. PICK x \in XvfbName : x = xd[d].xvfb
  BY DEF XvfbInv, OwnersTyped, OwnerState
<1>3. x # NoXvfb /\ xd[d].display \in Display
  BY <1>1, <1>2 DEF XvfbInv, OwnersTyped, OwnerFits
<1>4. PICK p \in 1..MaxPids : p = x.pid
  BY <1>3, NameRange
<1>5. proc[p].kind = "xvfb" /\ Names(x, p)
  BY <1>1, <1>2, <1>3, <1>4 DEF XvfbInv, NamesAreXvfbs, NamesXvfb, Names
<1>6. OwnersTyped'
  BY <1>1 DEF XvfbInv, OwnersTyped
<1>7. CASE serving' = [serving EXCEPT ![xd[d].display] = xd[d].xvfb.pid] /\ UNCHANGED proc
  <2>1. PICK n \in Display : n = xd[d].display
    BY <1>3
  <2>2. serving \in [Display -> 0..MaxPids] /\ p \in 0..MaxPids
    BY PidsBounded DEF XvfbInv, ProcessesTyped
  <2>3. serving' = [serving EXCEPT ![n] = p] /\ proc' = proc
    BY <1>2, <1>4, <1>7, <2>1
  <2>4. ProcessesTyped'
    BY <1>1, <2>2, <2>3 DEF XvfbInv, ProcessesTyped, IsOn
  <2>5. NamesAreXvfbs'
    BY <1>1, <2>3 DEF XvfbInv, NamesAreXvfbs, NamesXvfb
  <2>6. ASSUME NEW m \in Display, serving'[m] # NoPid
        PROVE  (proc[serving[m]].kind = "xvfb" /\ Named(serving[m]))'
    <3>1. CASE m = n
      BY <1>1, <1>2, <1>5, <2>2, <2>3, <3>1 DEF Named, Names
    <3>2. CASE m # n
      <4>1. serving'[m] = serving[m]
        BY <2>2, <2>3, <3>2
      <4> QED BY <1>1, <2>3, <2>6, <4>1 DEF XvfbInv, ServedIsNamed, Named, Names, Lost
    <3> QED BY <3>1, <3>2
  <2>7. ServedIsNamed'
    BY <2>6 DEF ServedIsNamed
  <2> QED BY <1>6, <2>4, <2>5, <2>7 DEF XvfbInv
<1>8. CASE Ended(xd[d].xvfb.pid)
  <2>1. Ended(p)
    BY <1>2, <1>4, <1>8
  <2>2. /\ ProcessesTyped'
        /\ \A n \in Display : /\ serving'[n] \in {NoPid, serving[n]} /\ serving'[n] # p
                              /\ serving'[n] # NoPid => proc'[serving'[n]] = proc[serving'[n]]
        /\ \A q \in 1..MaxPids : proc'[q] = IF q = p THEN Dead ELSE proc[q]
    BY <1>1, <2>1, EndedKeeps
  <2>3. \A q \in 1..MaxPids : proc'[q] = proc[q] \/ proc'[q] = Dead
    BY <2>2
  <2>4. \A n \in Display : serving'[n] # NoPid =>
          serving'[n] = serving[n] /\ proc'[serving[n]] = proc[serving[n]]
    BY <2>2
  <2> QED BY <1>1, <1>6, <2>2, <2>3, <2>4, NamesGo
<1> QED BY <1>7, <1>8 DEF XvfbBinds

(* Every step keeps the invariant.                                          *)
LEMMA XvfbStepKeeps == XvfbInv /\ [XvfbNext]_xvfbVars => XvfbInv'
<1> SUFFICES ASSUME XvfbInv, [XvfbNext]_xvfbVars PROVE XvfbInv'
  OBVIOUS
<1>1. CASE XvfbNext
  BY <1>1, PicksKeeps, SpawnsXvfbKeeps, XvfbBindsKeeps, ReadyKeeps, RecordsXvfbKeeps, OwnerExitsKeeps,
     XvfbKilledKeeps, UnlinksKeeps, DisconnectsKeeps, ProcessEndsKeeps, PidReusedKeeps DEF XvfbNext
<1>2. CASE UNCHANGED xvfbVars
  BY <1>2 DEF xvfbVars, XvfbInv, ProcessesTyped, IsOn, OwnersTyped, NamesAreXvfbs, NamesXvfb,
              ServedIsNamed, Named, Names, Lost
<1> QED BY <1>1, <1>2

(* So every display that is served can be given back, or its name was lost. *)
LEMMA XvfbInvIsSafe == XvfbInv => XvfbTypeOK /\ DisplaysAreReturned
<1> SUFFICES ASSUME XvfbInv PROVE XvfbTypeOK /\ DisplaysAreReturned
  OBVIOUS
<1>1. ASSUME NEW d \in Owner
      PROVE  xd[d].at \in {"down", "picked", "waiting", "launching", "up"} /\ xd[d].xvfb.pid \in 0..MaxPids
  <2>1. PICK x \in XvfbName : x = xd[d].xvfb
    BY DEF XvfbInv, OwnersTyped, OwnerState
  <2>2. x.pid \in 0..MaxPids
    BY NameRange
  <2> QED BY <2>1, <2>2 DEF XvfbInv, OwnersTyped, OwnerState
<1>2. XvfbTypeOK
  BY <1>1 DEF XvfbInv, ServedIsNamed, XvfbTypeOK
<1>3. DisplaysAreReturned
  BY DEF XvfbInv, ServedIsNamed, Named, Names, Lost, Known, DisplaysAreReturned
<1> QED BY <1>2, <1>3

(* A cleanup ends the process that it was given, or none.                   *)
LEMMA CleanupEndsOwn ==
  ASSUME XvfbInv, NEW x \in XvfbName, CleanupXvfb(x), NEW p \in 1..MaxPids,
         IsOn(p), proc'[p].kind = "none"
  PROVE  x = [pid |-> p, since |-> proc[p].since]
<1>1. IsOurXvfb(x) /\ Ended(x.pid)
  BY DEF CleanupXvfb, IsOn
<1>2. x # NoXvfb
  BY <1>1, XvfbNames DEF IsOurXvfb
<1>3. x \in StartedPid
  BY <1>2 DEF XvfbName
<1>4. x.pid = p
  BY <1>1, <1>3 DEF Ended, IsOn, XvfbInv, ProcessesTyped, StartedPid
<1>5. x.since = proc[p].since
  BY <1>1, <1>4 DEF IsOurXvfb
<1> QED BY <1>3, <1>4, <1>5 DEF StartedPid

(* The exit of a daemon and a disconnect end the Xvfb that they know.       *)
LEMMA KillsOwnXvfb ==
  ASSUME XvfbInv, NEW d \in Owner, OwnerExits(d) \/ Disconnects(d),
         NEW p \in 1..MaxPids, IsOn(p), proc'[p].kind = "none"
  PROVE  [pid |-> p, since |-> proc[p].since] \in {xd[d].xvfb, record[d]}
<1>1. CASE OwnerExits(d)
  <2>1. PICK x \in XvfbName : x = xd[d].xvfb
    BY DEF XvfbInv, OwnersTyped, OwnerState
  <2>2. CleanupXvfb(x)
    BY <1>1, <2>1 DEF OwnerExits
  <2> QED BY <2>1, <2>2, CleanupEndsOwn
<1>2. CASE Disconnects(d)
  <2>1. PICK x \in XvfbName : x = record[d]
    BY DEF XvfbInv, OwnersTyped
  <2>2. CleanupXvfb(x)
    BY <1>2, <2>1 DEF Disconnects
  <2> QED BY <2>1, <2>2, CleanupEndsOwn
<1> QED BY <1>1, <1>2

(* For any number of daemons, displays and pids: every display that an Xvfb *)
(* serves belongs to a daemon, or to a state file that names the process,   *)
(* unless its daemon was killed before it had written the file or the file  *)
(* was unlinked; and a daemon that exits, or a disconnect from a dead one,  *)
(* ends no process but the one whose pid and start time were recorded,      *)
(* although pids are reused (xvfb.ts, server.ts, cli.ts).                   *)
THEOREM XvfbCorrectHolds == XvfbSpec => XvfbCorrect
<1>1. XvfbInv /\ [XvfbNext]_xvfbVars =>
        [\A d \in Owner : OwnerExits(d) \/ Disconnects(d) =>
           \A p \in 1..MaxPids : IsOn(p) /\ proc'[p].kind = "none"
              => [pid |-> p, since |-> proc[p].since] \in {xd[d].xvfb, record[d]}]_xvfbVars
  BY KillsOwnXvfb
<1> QED BY <1>1, XvfbStarts, XvfbStepKeeps, XvfbInvIsSafe, PTL
        DEF XvfbSpec, XvfbCorrect, OnlyOwnXvfbKilled
-----------------------------------------------------------------------------
(***************************************************************************)
(* Starting and stopping the daemon.  Daemons age (Ages): what an          *)
(* invocation once knew to be dead or outdated stays so, which is why a    *)
(* decision taken on an old look at the state file is still good when it   *)
(* is carried out (KnowsDead, AsksToKill).  A lock file whose owner is     *)
(* alive names an invocation that is still at one of the places where it   *)
(* holds it (InPlace, LockInv).                                            *)
(***************************************************************************)

Places == {"new", "gone", "probing", "killing", "finishing", "sending", "locking", "opened",
           "locked", "waiting", "takeover", "reaping", "spawning", "polling", "forgetting",
           "deciding", "connected", "pairing", "supervising"}
Invocation == [at : Places, cmd : Command, force : BOOLEAN, seen : Daemon \cup {NoDaemon},
               alive : BOOLEAN, holds : BOOLEAN, count : Nat, tries : 0..1, switching : BOOLEAN,
               headed : BOOLEAN]
DaemonProcess == [at : {"none", "booting", "up", "busy", "closing", "dead"}, headed : BOOLEAN,
            old : BOOLEAN, used : BOOLEAN, chromium : BOOLEAN]
LockRecord == [by : Cli, written : BOOLEAN, live : BOOLEAN]

DaemonTypes ==
  /\ stateFile \in Daemon \cup {NoDaemon}
  /\ dm \in [Daemon -> DaemonProcess]
  /\ \A d \in Daemon : dm[d].at = "none" => dm[d] = Unborn
  /\ newBinary \in BOOLEAN

Born(d) == d # NoDaemon => dm[d].at # "none"

Queueing == {"locking", "opened", "takeover", "locked"}
Holding == {"locked", "killing", "reaping", "spawning", "polling"}
InPlace(r) ==
  /\ r.holds => r.at \in Holding
  /\ r.at = "locked" => r.holds
  /\ r.at \in Queueing \cup {"probing"} \/ r.holds
       => ~(r.cmd = "stop" /\ r.force) /\ r.cmd # "disconnect"
KnowsDead(r) == r.at \in {"probing", "deciding"} => r.alive \/ ~Live(r.seen)
AsksToKill(r) ==
  r.at \in Queueing \cup {"killing"} /\ Live(r.seen)
    => r.force \/ r.cmd = "disconnect" \/ Outdated(r.seen) \/ r.switching

InvocationsInv ==
  /\ cli \in [Cli -> Invocation]
  /\ \A c \in Cli : Born(cli[c].seen) /\ InPlace(cli[c]) /\ KnowsDead(cli[c]) /\ AsksToKill(cli[c])

LockInv ==
  /\ lockFile \in LockRecord \cup {NoLock}
  /\ lockFile # NoLock /\ lockFile.live =>
       cli[lockFile.by].holds \/ cli[lockFile.by].at = "opened"

StartInv == DaemonTypes /\ Born(stateFile) /\ InvocationsInv /\ LockInv /\ faults \in 0..MaxFaults
Ages ==
  /\ DaemonTypes'
  /\ \A d \in Daemon : dm[d].at # "none" =>
       /\ dm'[d].at # "none" /\ dm'[d].old = dm[d].old
       /\ dm[d].at = "dead" => dm'[d].at = "dead"
  /\ newBinary => newBinary'

(* The number that stands for no daemon is not that of one.                 *)
LEMMA NoDaemonIsNone == NoDaemon \notin Daemon
  BY StartBounds DEF NoDaemon, Daemon


(* Daemons only age (Ages) when one of them changes in a way that a process *)
(* can: one that was spawned stays of its version, and a dead one stays     *)
(* dead.                                                                    *)
LEMMA OneAges ==
  ASSUME DaemonTypes, stateFile' \in Daemon \cup {NoDaemon}, newBinary' = newBinary,
         NEW d \in Daemon, NEW p \in DaemonProcess, dm' = [dm EXCEPT ![d] = p],
         p.at # "none", dm[d].at # "none" => p.old = dm[d].old,
         dm[d].at = "dead" => p.at = "dead"
  PROVE  Ages
<1>1. /\ dm \in [Daemon -> DaemonProcess] /\ newBinary \in BOOLEAN
      /\ \A e \in Daemon : dm[e].at = "none" => dm[e] = Unborn
  BY DEF DaemonTypes
<1>2. dm' \in [Daemon -> DaemonProcess] /\ dm'[d] = p /\ \A e \in Daemon \ {d} : dm'[e] = dm[e]
  BY <1>1
<1>3. \A e \in Daemon : dm'[e].at = "none" => dm'[e] = Unborn
  BY <1>1, <1>2
<1>4. DaemonTypes'
  BY <1>1, <1>2, <1>3 DEF DaemonTypes, Unborn
<1>5. ASSUME NEW e \in Daemon, dm[e].at # "none"
      PROVE  /\ dm'[e].at # "none" /\ dm'[e].old = dm[e].old
             /\ dm[e].at = "dead" => dm'[e].at = "dead"
  <2>1. CASE e = d
    BY <1>2, <1>5, <2>1
  <2>2. CASE e # d
    BY <1>2, <1>5, <2>2
  <2>3. QED
    BY <2>1, <2>2
<1>6. QED
  BY <1>4, <1>5 DEF Ages

(* They age when none changes,                                              *)
LEMMA NoneAges ==
  ASSUME DaemonTypes, stateFile' \in Daemon \cup {NoDaemon}, newBinary' \in BOOLEAN,
         newBinary => newBinary', dm' = dm
  PROVE  Ages
BY DEF Ages, DaemonTypes, Unborn

(* A process in its next stage is a process of the same version.            *)
LEMMA ProcessMoves ==
  ASSUME NEW p \in DaemonProcess, NEW x \in {"booting", "up", "busy", "closing", "dead"}
  PROVE  /\ [p EXCEPT !.at = x] \in DaemonProcess
         /\ [p EXCEPT !.at = x].at = x
         /\ [p EXCEPT !.at = x].old = p.old
BY DEF DaemonProcess

(* So is one whose Chromium is gone.                                        *)
LEMMA BrowserEnds ==
  ASSUME NEW p \in DaemonProcess
  PROVE  /\ [p EXCEPT !.chromium = FALSE] \in DaemonProcess
         /\ [p EXCEPT !.chromium = FALSE].at = p.at
         /\ [p EXCEPT !.chromium = FALSE].old = p.old
         /\ p = Unborn => [p EXCEPT !.chromium = FALSE] = Unborn
<1>1. [p EXCEPT !.chromium = FALSE] \in DaemonProcess
  BY DEF DaemonProcess
<1>2. [p EXCEPT !.chromium = FALSE].at = p.at
  BY DEF DaemonProcess
<1>3. [p EXCEPT !.chromium = FALSE].old = p.old
  BY DEF DaemonProcess
<1>4. ASSUME p = Unborn PROVE [p EXCEPT !.chromium = FALSE] = Unborn
  <2>1. p.chromium = FALSE
    BY <1>4 DEF Unborn
  <2>2. [p EXCEPT !.chromium = FALSE] = p
    BY <2>1 DEF DaemonProcess
  <2>3. QED
    BY <1>4, <2>2
<1>5. QED
  BY <1>1, <1>2, <1>3, <1>4

(* Reaping any set of Chromiums lets the daemons age.                       *)
LEMMA BrowsersEnd ==
  ASSUME DaemonTypes, stateFile' \in Daemon \cup {NoDaemon}, newBinary' = newBinary,
         NEW S \in SUBSET Daemon,
         dm' = [d \in Daemon |-> IF d \in S THEN [dm[d] EXCEPT !.chromium = FALSE] ELSE dm[d]]
  PROVE  Ages
<1>1. /\ dm \in [Daemon -> DaemonProcess] /\ newBinary \in BOOLEAN
      /\ \A d \in Daemon : dm[d].at = "none" => dm[d] = Unborn
  BY DEF DaemonTypes
<1>2. ASSUME NEW d \in Daemon
      PROVE  /\ dm'[d] \in DaemonProcess /\ dm'[d].at = dm[d].at /\ dm'[d].old = dm[d].old
             /\ dm[d] = Unborn => dm'[d] = Unborn
  <2>1. dm[d] \in DaemonProcess
    BY <1>1
  <2>2. CASE d \in S
    <3>1. dm'[d] = [dm[d] EXCEPT !.chromium = FALSE]
      BY <2>2
    <3>2. QED
      BY <2>1, <3>1, BrowserEnds
  <2>3. CASE d \notin S
    BY <2>1, <2>3
  <2>4. QED
    BY <2>2, <2>3
<1>3. dm' \in [Daemon -> DaemonProcess]
  BY <1>2
<1>4. DaemonTypes'
  BY <1>1, <1>2, <1>3 DEF DaemonTypes, Unborn
<1>5. QED
  BY <1>1, <1>2, <1>4 DEF Ages

(* So does one that moves to its next stage,                                *)
LEMMA MoveAges ==
  ASSUME DaemonTypes, stateFile' \in Daemon \cup {NoDaemon}, newBinary' = newBinary,
         NEW d \in Daemon, NEW x \in {"booting", "up", "busy", "closing", "dead"},
         dm[d].at \in {"booting", "up", "busy", "closing"}, dm' = [dm EXCEPT ![d].at = x]
  PROVE  Ages
<1>1. dm \in [Daemon -> DaemonProcess] /\ dm[d] \in DaemonProcess
  BY DEF DaemonTypes
<1>2. PICK p : p = [dm[d] EXCEPT !.at = x]
  OBVIOUS
<1>3. dm' = [dm EXCEPT ![d] = p]
  BY <1>1, <1>2
<1>4. p \in DaemonProcess /\ p.at = x /\ p.old = dm[d].old
  BY <1>1, <1>2, ProcessMoves, Zenon
<1>5. QED
  BY <1>3, <1>4, OneAges

(* with or without its Chromium.                                            *)
LEMMA MoveWithBrowserAges ==
  ASSUME DaemonTypes, stateFile' \in Daemon \cup {NoDaemon}, newBinary' = newBinary,
         NEW d \in Daemon, NEW x \in {"booting", "up", "busy", "closing", "dead"}, NEW b \in BOOLEAN,
         dm[d].at \in {"booting", "up", "busy", "closing"},
         dm' = [dm EXCEPT ![d].at = x, ![d].chromium = b]
  PROVE  Ages
<1>1. dm \in [Daemon -> DaemonProcess] /\ dm[d] \in DaemonProcess
  BY DEF DaemonTypes
<1>2. PICK p : p = [dm[d] EXCEPT !.at = x, !.chromium = b]
  OBVIOUS
<1>3. dm' = [dm EXCEPT ![d] = p]
  BY <1>1, <1>2
<1>4. p \in DaemonProcess
  BY <1>1, <1>2 DEF DaemonProcess
<1>5. p.at = x /\ p.old = dm[d].old
  BY <1>1, <1>2 DEF DaemonProcess
<1>6. QED
  BY <1>3, <1>4, <1>5, OneAges

(* Every process ages *)
(* killServer ends one process, or none.                                    *)
LEMMA KillsAges ==
  ASSUME StartInv, NEW c \in Cli, Kills(c)
  PROVE  Ages
<1>1. /\ DaemonTypes /\ dm \in [Daemon -> DaemonProcess]
  BY DEF StartInv, DaemonTypes
<1>2. newBinary' = newBinary /\ newBinary \in BOOLEAN /\ stateFile \in Daemon \cup {NoDaemon}
  BY <1>1 DEF Kills, DaemonTypes
<1>3. PICK d : d = cli[c].seen
  OBVIOUS
<1>4. d \in Daemon \cup {NoDaemon}
  BY <1>3 DEF StartInv, InvocationsInv, Invocation
<1>5. CASE Live(d)
  <2>1. d \in Daemon /\ dm[d].at \in {"booting", "up", "busy", "closing"}
    BY <1>4, <1>5 DEF Live
  <2>2. PICK survives \in BOOLEAN :
          dm' = [dm EXCEPT ![d].at = "dead", ![d].chromium = survives /\ dm[d].chromium]
    BY <1>3, <1>5 DEF Kills
  <2>3. PICK b \in BOOLEAN : b = (survives /\ dm[d].chromium)
    <3>1. (survives /\ dm[d].chromium) \in BOOLEAN
      OBVIOUS
    <3>2. QED
      BY <3>1, Zenon
  <2>4. dm' = [dm EXCEPT ![d].at = "dead", ![d].chromium = b]
    BY <2>2, <2>3
  <2>5. stateFile' \in Daemon \cup {NoDaemon}
    BY <1>2, <1>3, <1>5 DEF Kills
  <2>6. QED
    BY <1>1, <1>2, <2>1, <2>4, <2>5, MoveWithBrowserAges
<1>6. CASE ~Live(d)
  <2>1. dm' = dm /\ stateFile' = stateFile
    BY <1>3, <1>6 DEF Kills
  <2>2. QED
    BY <1>1, <1>2, <2>1, NoneAges
<1>7. QED
  BY <1>5, <1>6

(* startServer makes one that was not there.                                *)
LEMMA SpawnsAges ==
  ASSUME StartInv, NEW c \in Cli, Spawns(c)
  PROVE  Ages
<1>1. /\ DaemonTypes /\ dm \in [Daemon -> DaemonProcess] /\ cli[c] \in Invocation
  BY DEF StartInv, DaemonTypes, InvocationsInv
<1>2. /\ newBinary' = newBinary /\ newBinary \in BOOLEAN /\ stateFile' = NoDaemon
  BY <1>1 DEF Spawns, DaemonTypes
<1>3. PICK unborn : unborn = {d \in Daemon : dm[d] = Unborn}
  OBVIOUS
<1>4. CASE unborn = {}
  <2>1. dm' = dm
    BY <1>3, <1>4 DEF Spawns
  <2>2. QED
    BY <1>1, <1>2, <2>1, NoneAges
<1>5. CASE unborn # {}
  <2>1. PICK d : d = CHOOSE x \in unborn : \A e \in unborn : x <= e
    OBVIOUS
  <2>2. PICK showing : showing = (cli[c].cmd = "connect" \/ cli[c].switching \/ cli[c].headed)
    OBVIOUS
  <2>3. PICK p : p = Spawned(showing)
    OBVIOUS
  <2>4. dm' = [dm EXCEPT ![d] = p]
    BY <1>3, <1>5, <2>1, <2>2, <2>3 DEF Spawns
  <2>5. \E x \in unborn : \A e \in unborn : x <= e
    <3>1. unborn \in SUBSET Nat
      BY <1>3, StartBounds DEF Daemon
    <3>2. QED
      BY <1>5, <3>1, FirstBroken
  <2>6. d \in unborn
    BY <2>1, <2>5
  <2>7. d \in Daemon /\ dm[d] = Unborn /\ dm[d].at = "none"
    BY <1>3, <2>6 DEF Unborn
  <2>8. showing \in BOOLEAN
    BY <1>1, <2>2 DEF Invocation
  <2>9. p \in DaemonProcess /\ p.at = "booting"
    BY <1>2, <2>3, <2>8 DEF Spawned, DaemonProcess, Unborn
  <2>10. QED
    BY <1>1, <1>2, <2>4, <2>7, <2>9, OneAges
<1>6. QED
  BY <1>4, <1>5

(* The other steps of the command line that reach daemons reap Chromiums,   *)
(* or tell a daemon something.                                              *)
LEMMA OtherCliAges ==
  ASSUME StartInv, NEW c \in Cli,
         \/ Reaps(c) \/ Answered(c) \/ Finishes(c) \/ Forgets(c) \/ SupervisorIsStopped(c)
  PROVE  Ages
<1>1. /\ DaemonTypes /\ dm \in [Daemon -> DaemonProcess] /\ cli[c] \in Invocation
      /\ stateFile \in Daemon \cup {NoDaemon}
  BY DEF StartInv, DaemonTypes, InvocationsInv
<1>2. newBinary' = newBinary /\ newBinary \in BOOLEAN
  BY <1>1 DEF Reaps, Answered, Finishes, Forgets, SupervisorIsStopped, DaemonTypes
<1>3. stateFile' \in Daemon \cup {NoDaemon}
  BY <1>1 DEF Reaps, Answered, Finishes, Forgets, SupervisorIsStopped
<1>4. cli[c].seen \in Daemon \cup {NoDaemon}
  BY <1>1 DEF Invocation
<1>5. CASE Reaps(c)
  <2>1. PICK S : S = {d \in Daemon : Reaped(d)}
    OBVIOUS
  <2>2. dm' = [d \in Daemon |-> IF d \in S THEN [dm[d] EXCEPT !.chromium = FALSE] ELSE dm[d]]
    BY <1>5, <2>1 DEF Reaps
  <2>3. QED
    BY <1>1, <1>2, <1>3, <2>1, <2>2, BrowsersEnd
<1>6. CASE Forgets(c)
  <2>1. PICK S : S = {d \in Daemon : dm[d].headed}
    OBVIOUS
  <2>2. dm' = [d \in Daemon |-> IF d \in S THEN [dm[d] EXCEPT !.chromium = FALSE] ELSE dm[d]]
    BY <1>6, <2>1 DEF Forgets
  <2>3. QED
    BY <1>1, <1>2, <1>3, <2>1, <2>2, BrowsersEnd
<1>7. CASE Finishes(c)
  <2>1. PICK e : e = cli[c].seen
    OBVIOUS
  <2>2. dm' = [dm EXCEPT ![e].chromium = FALSE]
    BY <1>7, <2>1 DEF Finishes
  <2>3. PICK S : S = {e} \cap Daemon
    OBVIOUS
  <2>4. dm' = [d \in Daemon |-> IF d \in S THEN [dm[d] EXCEPT !.chromium = FALSE] ELSE dm[d]]
    BY <1>1, <2>2, <2>3
  <2>5. QED
    BY <1>1, <1>2, <1>3, <2>3, <2>4, BrowsersEnd
<1>8. CASE Answered(c)
  <2>1. PICK d : d = cli[c].seen
    OBVIOUS
  <2>2. d \in Daemon /\ dm[d].at \in {"up", "closing"}
    BY <1>4, <1>8, <2>1 DEF Answered, Answers
  <2>3. CASE cli[c].cmd \in {"stop", "disconnect"}
    <3>1. dm' = [dm EXCEPT ![d].at = "closing"]
      BY <1>8, <2>1, <2>3 DEF Answered
    <3>2. QED
      BY <1>1, <1>2, <1>3, <2>2, <3>1, MoveAges
  <2>4. CASE cli[c].cmd \notin {"stop", "disconnect"}
    <3>1. dm' = [dm EXCEPT ![d].used = TRUE]
      BY <1>8, <2>1, <2>4 DEF Answered
    <3>2. PICK p : p = [dm[d] EXCEPT !.used = TRUE]
      OBVIOUS
    <3>3. dm' = [dm EXCEPT ![d] = p] /\ dm[d] \in DaemonProcess
      BY <1>1, <2>2, <3>1, <3>2
    <3>4. p \in DaemonProcess
      BY <3>2, <3>3 DEF DaemonProcess
    <3>5. p.at = dm[d].at /\ p.old = dm[d].old
      BY <3>2, <3>3 DEF DaemonProcess
    <3>6. QED
      BY <1>1, <1>2, <1>3, <2>2, <3>3, <3>4, <3>5, OneAges
  <2>5. QED
    BY <2>3, <2>4
<1>9. CASE SupervisorIsStopped(c)
  <2>1. PICK d : d = stateFile
    OBVIOUS
  <2>2. CASE Live(d) /\ dm[d].headed /\ dm[d].at # "booting"
    <3>1. dm' = [dm EXCEPT ![d].at = "closing"]
      BY <1>9, <2>1, <2>2 DEF SupervisorIsStopped
    <3>2. d \in Daemon /\ dm[d].at \in {"booting", "up", "busy", "closing"}
      BY <1>1, <2>1, <2>2 DEF Live
    <3>3. QED
      BY <1>1, <1>2, <1>3, <3>1, <3>2, MoveAges
  <2>3. CASE ~(Live(d) /\ dm[d].headed /\ dm[d].at # "booting")
    <3>1. dm' = dm
      BY <1>9, <2>1, <2>3 DEF SupervisorIsStopped
    <3>2. QED
      BY <1>1, <1>2, <1>3, <3>1, NoneAges
  <2>4. QED
    BY <2>2, <2>3
<1>10. QED
  BY <1>5, <1>6, <1>7, <1>8, <1>9

(* What a daemon does by itself is aging too.                               *)
LEMMA DaemonAges ==
  ASSUME StartInv, NEW d \in Daemon, DaemonStep(d)
  PROVE  Ages
<1>1. /\ DaemonTypes /\ dm \in [Daemon -> DaemonProcess] /\ dm[d] \in DaemonProcess
      /\ stateFile \in Daemon \cup {NoDaemon}
  BY DEF StartInv, DaemonTypes
<1>2. newBinary' = newBinary /\ newBinary \in BOOLEAN
  BY <1>1 DEF DaemonTypes, DaemonStep, Boots, BootFails, GetsBusy, GetsFree, IdleTimeout,
              LosesBrowser, Exits, Crashes
<1>3. stateFile' \in Daemon \cup {NoDaemon}
  BY <1>1 DEF DaemonStep, Boots, BootFails, GetsBusy, GetsFree, IdleTimeout, LosesBrowser,
              Exits, Crashes
<1>4. CASE Boots(d)
  <2>1. dm' = [dm EXCEPT ![d].at = "up", ![d].chromium = TRUE]
    BY <1>4 DEF Boots
  <2>2. dm[d].at = "booting"
    BY <1>4 DEF Boots
  <2>3. QED
    BY <1>1, <1>2, <1>3, <2>1, <2>2, MoveWithBrowserAges
<1>5. CASE Exits(d)
  <2>1. PICK survives \in BOOLEAN :
          dm' = [dm EXCEPT ![d].at = "dead", ![d].chromium = survives /\ dm[d].chromium]
    BY <1>5 DEF Exits
  <2>2. PICK b \in BOOLEAN : b = (survives /\ dm[d].chromium)
    <3>1. (survives /\ dm[d].chromium) \in BOOLEAN
      OBVIOUS
    <3>2. QED
      BY <3>1, Zenon
  <2>3. dm' = [dm EXCEPT ![d].at = "dead", ![d].chromium = b]
    BY <2>1, <2>2
  <2>4. dm[d].at = "closing"
    BY <1>5 DEF Exits
  <2>5. QED
    BY <1>1, <1>2, <1>3, <2>3, <2>4, MoveWithBrowserAges
<1>6. CASE BootFails(d) \/ GetsBusy(d) \/ GetsFree(d) \/ IdleTimeout(d) \/ LosesBrowser(d) \/ Crashes(d)
  <2>1. PICK x \in {"booting", "up", "busy", "closing", "dead"} : dm' = [dm EXCEPT ![d].at = x]
    BY <1>6 DEF BootFails, GetsBusy, GetsFree, IdleTimeout, LosesBrowser, Crashes
  <2>2. dm[d].at \in {"booting", "up", "busy", "closing"}
    BY <1>6 DEF BootFails, GetsBusy, GetsFree, IdleTimeout, LosesBrowser, Crashes
  <2>3. QED
    BY <1>1, <1>2, <1>3, <2>1, <2>2, MoveAges
<1>7. QED
  BY <1>4, <1>5, <1>6 DEF DaemonStep

(* What an invocation has seen of a daemon changes one way: the dead do not *)
(* come back and the outdated stay so.                                      *)
LEMMA Later ==
  ASSUME DaemonTypes, Ages, NEW d \in Daemon \cup {NoDaemon}, Born(d)
  PROVE  Born(d)' /\ (Live(d)' => Live(d)) /\ (Outdated(d) => Outdated(d)')
<1>1. CASE d = NoDaemon
  BY <1>1 DEF Born, Live, Outdated
<1>2. CASE d # NoDaemon
  <2>1. d \in Daemon /\ dm[d].at # "none"
    BY <1>2 DEF Born
  <2>2. /\ dm'[d].at # "none" /\ dm'[d].old = dm[d].old
        /\ dm[d].at = "dead" => dm'[d].at = "dead"
        /\ newBinary => newBinary'
    BY <2>1 DEF Ages
  <2>3. dm[d].at \in {"none", "booting", "up", "busy", "closing", "dead"}
    BY <2>1 DEF DaemonTypes, DaemonProcess
  <2>4. QED
    BY <2>1, <2>2, <2>3 DEF Born, Live, Outdated
<1>3. QED
  BY <1>1, <1>2

(* One invocation moves, and all daemons age: the others know what they     *)
(* knew.                                                                    *)
LEMMA InvocationKeeps ==
  ASSUME InvocationsInv, DaemonTypes, Ages, NEW c \in Cli, NEW r \in Invocation,
         cli' = [cli EXCEPT ![c] = r],
         Born(r.seen)', InPlace(r), KnowsDead(r)', AsksToKill(r)'
  PROVE  InvocationsInv'
<1>1. cli \in [Cli -> Invocation]
  BY DEF InvocationsInv
<1>2. cli' \in [Cli -> Invocation] /\ cli'[c] = r /\ \A e \in Cli \ {c} : cli'[e] = cli[e]
  BY <1>1
<1>3. ASSUME NEW e \in Cli
      PROVE  (Born(cli[e].seen) /\ InPlace(cli[e]) /\ KnowsDead(cli[e]) /\ AsksToKill(cli[e]))'
  <2>1. CASE e = c
    BY <1>2, <2>1 DEF Born, InPlace, KnowsDead, AsksToKill, Live, Outdated
  <2>2. CASE e # c
    <3>1. PICK q \in Invocation : q = cli[e]
      BY <1>1
    <3>2. cli'[e] = q
      BY <1>2, <2>2, <3>1
    <3>3. PICK d : d = q.seen
      OBVIOUS
    <3>4. d \in Daemon \cup {NoDaemon}
      BY <3>3 DEF Invocation
    <3>5. Born(q.seen) /\ InPlace(q) /\ KnowsDead(q) /\ AsksToKill(q)
      BY <3>1 DEF InvocationsInv
    <3>6. Born(d)
      BY <3>3, <3>5
    <3>7. Born(d)' /\ (Live(d)' => Live(d)) /\ (Outdated(d) => Outdated(d)')
      BY <3>4, <3>6, Later
    <3>8. Born(q.seen)' /\ KnowsDead(q)' /\ AsksToKill(q)'
      BY <3>3, <3>5, <3>7 DEF KnowsDead, AsksToKill, Born, Live, Outdated
    <3>9. QED
      BY <3>2, <3>5, <3>8 DEF Born, InPlace, KnowsDead, AsksToKill, Live, Outdated
  <2>3. QED
    BY <2>1, <2>2
<1>4. QED
  BY <1>2, <1>3 DEF InvocationsInv

(* None moves.                                                              *)
LEMMA InvocationsKept ==
  ASSUME InvocationsInv, DaemonTypes, Ages, cli' = cli
  PROVE  InvocationsInv'
<1>1. cli \in [Cli -> Invocation]
  BY DEF InvocationsInv
<1>2. ASSUME NEW e \in Cli
      PROVE  (Born(cli[e].seen) /\ InPlace(cli[e]) /\ KnowsDead(cli[e]) /\ AsksToKill(cli[e]))'
  <2>1. PICK q \in Invocation : q = cli[e]
    BY <1>1
  <2>2. cli'[e] = q
    BY <2>1
  <2>3. PICK d : d = q.seen
    OBVIOUS
  <2>4. d \in Daemon \cup {NoDaemon}
    BY <2>3 DEF Invocation
  <2>5. Born(q.seen) /\ InPlace(q) /\ KnowsDead(q) /\ AsksToKill(q)
    BY <2>1 DEF InvocationsInv
  <2>6. Born(d)
    BY <2>3, <2>5
  <2>7. Born(d)' /\ (Live(d)' => Live(d)) /\ (Outdated(d) => Outdated(d)')
    BY <2>4, <2>6, Later
  <2>8. Born(q.seen)' /\ KnowsDead(q)' /\ AsksToKill(q)'
    BY <2>3, <2>5, <2>7 DEF KnowsDead, AsksToKill, Born, Live, Outdated
  <2>9. QED
    BY <2>2, <2>5, <2>8 DEF Born, InPlace, KnowsDead, AsksToKill, Live, Outdated
<1>3. QED
  BY <1>1, <1>2 DEF InvocationsInv

(* An invocation that has ended, or has nothing to do with the lock or a kill *)
Calm == {"new", "gone", "finishing", "sending", "waiting", "forgetting", "connected",
         "pairing", "supervising"}

(* Nothing is asked of an invocation that is at none of the critical        *)
(* places.                                                                  *)
LEMMA CalmKeeps ==
  ASSUME InvocationsInv, DaemonTypes, Ages, NEW c \in Cli, NEW r \in Invocation,
         cli' = [cli EXCEPT ![c] = r], r.at \in Calm, ~r.holds, Born(r.seen)'
  PROVE  InvocationsInv'
<1>1. r.at \notin Holding /\ r.at # "locked" /\ r.at \notin Queueing \cup {"probing"}
      /\ r.at \notin {"probing", "deciding"} /\ r.at \notin Queueing \cup {"killing"}
  BY DEF Calm, Holding, Queueing
<1>2. InPlace(r)
  BY <1>1 DEF InPlace
<1>3. KnowsDead(r)' /\ AsksToKill(r)'
  BY <1>1 DEF KnowsDead, AsksToKill
<1>4. QED
  BY <1>2, <1>3, InvocationKeeps

(* A move changes the place of an invocation only.                          *)
LEMMA Moved ==
  ASSUME NEW q \in Invocation, NEW p \in Places, NEW r, r = [q EXCEPT !.at = p]
  PROVE  /\ r \in Invocation /\ r.at = p /\ r.cmd = q.cmd /\ r.seen = q.seen
         /\ r.force = q.force /\ r.alive = q.alive /\ r.holds = q.holds
         /\ r.switching = q.switching
<1>1. r \in Invocation
  BY DEF Invocation
<1>2. r.at = p /\ r.cmd = q.cmd /\ r.seen = q.seen
  BY DEF Invocation
<1>3. r.force = q.force
  BY DEF Invocation
<1>4. r.alive = q.alive
  BY DEF Invocation
<1>5. r.holds = q.holds
  BY DEF Invocation
<1>6. r.switching = q.switching
  BY DEF Invocation
<1>7. QED
  BY <1>1, <1>2, <1>3, <1>4, <1>5, <1>6

(* An invocation before it begins.                                          *)
LEMMA QuietIsTyped == Quiet \in Invocation /\ Quiet.seen = NoDaemon
<1>1. Quiet.seen = NoDaemon
  BY DEF Quiet
<1>2. Quiet \in Invocation
  BY DEF Quiet, Invocation, Places, Command
<1>3. QED
  BY <1>1, <1>2

(* An invocation that has ended.                                            *)
LEMMA GoneIsCalm == Gone \in Invocation /\ Gone.at = "gone" /\ ~Gone.holds /\ Gone.seen = NoDaemon
<1>1. PICK r : r = Gone
  OBVIOUS
<1>2. r = [Quiet EXCEPT !.at = "gone"]
  BY <1>1 DEF Gone
<1>3. "gone" \in Places
  BY DEF Places
<1>4. r \in Invocation /\ r.at = "gone" /\ r.seen = NoDaemon
  BY <1>2, <1>3, QuietIsTyped, Moved
<1>5. r.holds = Quiet.holds
  BY <1>2, <1>3, QuietIsTyped, Moved
<1>6. ~Quiet.holds
  BY DEF Quiet
<1>7. QED
  BY <1>1, <1>4, <1>5, <1>6

(* Ending is always allowed.                                                *)
LEMMA EndKeeps ==
  ASSUME InvocationsInv, DaemonTypes, Ages, NEW c \in Cli, Ends(c)
  PROVE  InvocationsInv'
<1>1. PICK r : r = Gone
  OBVIOUS
<1>2. r \in Invocation /\ r.at = "gone" /\ ~r.holds /\ r.seen = NoDaemon
  BY <1>1, GoneIsCalm
<1>3. cli' = [cli EXCEPT ![c] = r]
  BY <1>1 DEF Ends
<1>4. r.at \in Calm /\ Born(r.seen)'
  BY <1>2 DEF Calm, Born
<1>5. QED
  BY <1>2, <1>3, <1>4, CalmKeeps

(* The lock stays with its owner as long as that one holds it.              *)
LEMMA LockKept ==
  ASSUME LockInv, InvocationsInv, NEW c \in Cli, NEW r \in Invocation,
         cli' = [cli EXCEPT ![c] = r], lockFile' = lockFile,
         cli[c].holds \/ cli[c].at = "opened" => r.holds \/ r.at = "opened"
  PROVE  LockInv'
<1>1. cli \in [Cli -> Invocation] /\ lockFile \in LockRecord \cup {NoLock}
  BY DEF InvocationsInv, LockInv
<1>2. cli'[c] = r /\ \A e \in Cli \ {c} : cli'[e] = cli[e]
  BY <1>1
<1>3. ASSUME lockFile # NoLock, lockFile.live
      PROVE  cli'[lockFile.by].holds \/ cli'[lockFile.by].at = "opened"
  <2>1. PICK e \in Cli : e = lockFile.by
    BY <1>1, <1>3 DEF LockRecord
  <2>2. cli[e].holds \/ cli[e].at = "opened"
    BY <1>3, <2>1 DEF LockInv
  <2>3. QED
    BY <1>2, <2>1, <2>2
<1>4. QED
  BY <1>1, <1>3 DEF LockInv, LockRecord, NoLock

(* No lock has no owner.                                                    *)
LEMMA NoLockIsFine ==
  ASSUME lockFile' = NoLock
  PROVE  LockInv'
BY DEF LockInv, NoLock

(* An owner that leaves takes the lock file along.                          *)
LEMMA LockReturned ==
  ASSUME LockInv, InvocationsInv, NEW c \in Cli, NEW r \in Invocation,
         cli' = [cli EXCEPT ![c] = r], lockFile' = LockAfter(c), cli[c].at # "opened"
  PROVE  LockInv'
<1>1. CASE cli[c].holds
  BY <1>1, NoLockIsFine DEF LockAfter
<1>2. CASE ~cli[c].holds
  BY <1>2, LockKept DEF LockAfter
<1>3. QED
  BY <1>1, <1>2

(* Daemons do not touch the lock.                                           *)
LEMMA LockLeftAlone ==
  ASSUME LockInv, cli' = cli, lockFile' = lockFile
  PROVE  LockInv'
BY DEF LockInv, LockRecord, NoLock

(* What the invariant says of one invocation.                               *)
LEMMA OfOne ==
  ASSUME StartInv, NEW c \in Cli
  PROVE  /\ InvocationsInv /\ DaemonTypes /\ LockInv
         /\ cli[c] \in Invocation /\ cli[c].seen \in Daemon \cup {NoDaemon}
         /\ stateFile \in Daemon \cup {NoDaemon} /\ Born(stateFile)
         /\ Born(cli[c].seen) /\ InPlace(cli[c]) /\ KnowsDead(cli[c]) /\ AsksToKill(cli[c])
<1>1. InvocationsInv /\ DaemonTypes /\ LockInv /\ cli[c] \in Invocation
  BY DEF StartInv, InvocationsInv
<1>2. cli[c].seen \in Daemon \cup {NoDaemon}
  BY <1>1 DEF Invocation
<1>3. stateFile \in Daemon \cup {NoDaemon} /\ Born(stateFile)
  BY DEF StartInv, DaemonTypes
<1>4. Born(cli[c].seen) /\ InPlace(cli[c]) /\ KnowsDead(cli[c]) /\ AsksToKill(cli[c])
  BY <1>1 DEF InvocationsInv
<1>5. QED
  BY <1>1, <1>2, <1>3, <1>4

(* Whoever has no lock may end without another thought.                     *)
LEMMA EndsQuietly ==
  ASSUME StartInv, Ages, NEW c \in Cli, Ends(c), lockFile' = lockFile,
         cli[c].at \notin Holding \cup {"opened"}
  PROVE  InvocationsInv' /\ LockInv'
<1>1. InvocationsInv /\ DaemonTypes /\ LockInv /\ InPlace(cli[c])
  BY OfOne
<1>2. InvocationsInv'
  BY <1>1, EndKeeps
<1>3. PICK r \in Invocation : r = Gone
  BY GoneIsCalm
<1>4. ~cli[c].holds /\ cli[c].at # "opened"
  BY <1>1 DEF InPlace
<1>5. cli' = [cli EXCEPT ![c] = r]
  BY <1>3 DEF Ends
<1>6. LockInv'
  BY <1>1, <1>4, <1>5, LockKept
<1>7. QED
  BY <1>2, <1>6

(* An invocation that moves on to a place has what that place requires,     *)
LEMMA GoesKeepsButLock ==
  ASSUME StartInv, Ages, NEW c \in Cli, NEW p \in Places, Goes(c, p),
         p \notin {"probing", "deciding", "locked"},
         cli[c].holds => p \in Holding,
         p \in Queueing => ~(cli[c].cmd = "stop" /\ cli[c].force) /\ cli[c].cmd # "disconnect",
         p \in Queueing \cup {"killing"} /\ Live(cli[c].seen)
           => cli[c].force \/ cli[c].cmd = "disconnect" \/ Outdated(cli[c].seen) \/ cli[c].switching
  PROVE  InvocationsInv'
<1>1. /\ InvocationsInv /\ DaemonTypes /\ LockInv /\ InPlace(cli[c]) /\ Born(cli[c].seen)
      /\ cli[c] \in Invocation /\ cli[c].seen \in Daemon \cup {NoDaemon}
  BY OfOne
<1>2. PICK q \in Invocation : q = cli[c]
  BY <1>1
<1>3. PICK r : r = [q EXCEPT !.at = p]
  OBVIOUS
<1>4. cli' = [cli EXCEPT ![c] = r]
  BY <1>2, <1>3 DEF Goes, InvocationsInv
<1>5. /\ r \in Invocation /\ r.at = p /\ r.cmd = q.cmd /\ r.seen = q.seen
      /\ r.force = q.force /\ r.alive = q.alive /\ r.holds = q.holds
      /\ r.switching = q.switching
  BY <1>3, Moved
<1>6. InPlace(r)
  BY <1>1, <1>2, <1>5 DEF InPlace
<1>7. PICK d \in Daemon \cup {NoDaemon} : d = q.seen
  BY <1>1, <1>2
<1>8. Born(d)' /\ (Live(d)' => Live(d)) /\ (Outdated(d) => Outdated(d)')
  BY <1>1, <1>2, <1>7, Later
<1>9. Born(r.seen)'
  BY <1>5, <1>7, <1>8 DEF Born
<1>10. KnowsDead(r)'
  BY <1>5 DEF KnowsDead
<1>11. AsksToKill(r)'
  <2>1. p \in Queueing \cup {"killing"} /\ Live(d)
           => q.force \/ q.cmd = "disconnect" \/ Outdated(d) \/ q.switching
    BY <1>2, <1>7
  <2>2. p \in Queueing \cup {"killing"} /\ Live(d)'
           => r.force \/ r.cmd = "disconnect" \/ Outdated(d)' \/ r.switching
    BY <1>5, <1>8, <2>1
  <2>3. r.seen = d
    BY <1>5, <1>7
  <2>4. QED
    BY <1>5, <2>2, <2>3 DEF AsksToKill, Live, Outdated
<1>12. QED
  BY <1>1, <1>4, <1>5, <1>6, <1>9, <1>10, <1>11, InvocationKeeps

(* and, when it takes no lock, leaves the lock as it was.                   *)
LEMMA GoesKeeps ==
  ASSUME StartInv, Ages, NEW c \in Cli, NEW p \in Places, Goes(c, p), lockFile' = lockFile,
         cli[c].at # "opened", p \notin {"probing", "deciding", "locked"},
         cli[c].holds => p \in Holding,
         p \in Queueing => ~(cli[c].cmd = "stop" /\ cli[c].force) /\ cli[c].cmd # "disconnect",
         p \in Queueing \cup {"killing"} /\ Live(cli[c].seen)
           => cli[c].force \/ cli[c].cmd = "disconnect" \/ Outdated(cli[c].seen) \/ cli[c].switching
  PROVE  InvocationsInv' /\ LockInv'
<1>1. InvocationsInv /\ LockInv /\ cli[c] \in Invocation
  BY OfOne
<1>2. PICK q \in Invocation : q = cli[c]
  BY <1>1
<1>3. PICK r : r = [q EXCEPT !.at = p]
  OBVIOUS
<1>4. cli' = [cli EXCEPT ![c] = r]
  BY <1>2, <1>3 DEF Goes, InvocationsInv
<1>5. r \in Invocation /\ r.holds = q.holds
  BY <1>3, Moved
<1>6. cli[c].holds \/ cli[c].at = "opened" => r.holds \/ r.at = "opened"
  BY <1>2, <1>5
<1>7. LockInv'
  BY <1>1, <1>4, <1>5, <1>6, LockKept
<1>8. QED
  BY <1>7, GoesKeepsButLock

(* A daemon was found or has started: the lock is returned.                 *)
LEMMA StartedKeeps ==
  ASSUME StartInv, Ages, NEW c \in Cli, Started(c), lockFile' = LockAfter(c), cli[c].at # "opened",
         dm' = dm
  PROVE  InvocationsInv' /\ LockInv'
<1>1. /\ InvocationsInv /\ DaemonTypes /\ LockInv /\ stateFile \in Daemon \cup {NoDaemon}
      /\ cli[c] \in Invocation /\ Born(stateFile)
  BY OfOne
<1>2. PICK q \in Invocation : q = cli[c]
  BY <1>1
<1>3. PICK p : p = AfterStart(c)
  OBVIOUS
<1>4. p \in Calm /\ p \in Places
  BY <1>3 DEF AfterStart, Calm, Places
<1>5. PICK d \in Daemon \cup {NoDaemon} : d = stateFile
  BY <1>1
<1>6. PICK r : r = [q EXCEPT !.at = p, !.seen = d, !.holds = FALSE]
  OBVIOUS
<1>7. cli' = [cli EXCEPT ![c] = r]
  BY <1>2, <1>3, <1>5, <1>6 DEF Started, InvocationsInv
<1>8. r \in Invocation
  BY <1>4, <1>6 DEF Invocation
<1>9. r.at = p /\ r.seen = d
  BY <1>6 DEF Invocation
<1>10. ~r.holds
  BY <1>6 DEF Invocation
<1>11. Born(r.seen)'
  BY <1>1, <1>5, <1>9 DEF Born
<1>12. InvocationsInv'
  BY <1>1, <1>4, <1>7, <1>8, <1>9, <1>10, <1>11, CalmKeeps
<1>13. LockInv'
  BY <1>1, <1>7, <1>8, LockReturned
<1>14. QED
  BY <1>12, <1>13

(* main: connect and stop pass ensureServer by only with consent or without *)
(* a live daemon.                                                           *)
LEMMA InvokesKeeps ==
  ASSUME StartInv, Ages, NEW c \in Cli, NEW cmd \in Command, NEW force \in BOOLEAN,
         Invokes(c, cmd, force)
  PROVE  InvocationsInv' /\ LockInv'
<1>1. /\ InvocationsInv /\ DaemonTypes /\ LockInv /\ stateFile \in Daemon \cup {NoDaemon}
      /\ cli[c] \in Invocation /\ Born(stateFile) /\ InPlace(cli[c])
  BY OfOne
<1>2. cli[c].at = "new" /\ lockFile' = lockFile /\ dm' = dm /\ newBinary' = newBinary
  BY DEF Invokes, In
<1>3. PICK place : place = CASE cmd = "connect"    -> ConnectPlace(force)
                             [] cmd = "stop"       -> StopPlace(force)
                             [] cmd = "disconnect" -> DisconnectPlace
                             [] OTHER              -> "probing"
  OBVIOUS
<1>4. CASE place = "gone"
  <2>1. Ends(c)
    BY <1>3, <1>4 DEF Invokes
  <2>2. cli[c].at \notin Holding \cup {"opened"}
    BY <1>2 DEF Holding
  <2>3. QED
    BY <1>2, <2>1, <2>2, EndsQuietly
<1>5. CASE place # "gone"
  <2>1. /\ place \in {"killing", "finishing", "probing", "sending"}
        /\ place = "killing" /\ Live(stateFile) => force \/ cmd = "disconnect"
        /\ place = "probing" => ~(cmd = "stop" /\ force) /\ cmd # "disconnect"
    <3>1. CASE cmd = "connect"
      BY <1>3, <1>5, <3>1 DEF ConnectPlace
    <3>2. CASE cmd = "stop"
      <4>1. place = StopPlace(force)
        BY <1>3, <3>2
      <4>2. CASE stateFile = NoDaemon
        BY <4>1, <4>2, <1>5 DEF StopPlace, Live
      <4>3. CASE stateFile # NoDaemon /\ ~Live(stateFile)
        BY <4>1, <4>3 DEF StopPlace
      <4>4. CASE stateFile # NoDaemon /\ Live(stateFile) /\ force
        BY <4>1, <4>4 DEF StopPlace
      <4>5. CASE stateFile # NoDaemon /\ Live(stateFile) /\ ~force
        BY <3>2, <4>1, <4>5 DEF StopPlace, Live
      <4>6. QED
        BY <4>2, <4>3, <4>4, <4>5
    <3>3. CASE cmd = "disconnect"
      <4>1. place = DisconnectPlace
        BY <1>3, <3>3
      <4>2. place \in {"gone", "sending", "killing"}
        BY <4>1 DEF DisconnectPlace
      <4>3. QED
        BY <1>5, <3>3, <4>2
    <3>4. CASE cmd \notin {"connect", "stop", "disconnect"}
      BY <1>3, <3>4
    <3>5. QED
      BY <3>1, <3>2, <3>3, <3>4
  <2>2. PICK alive \in BOOLEAN : alive = Live(stateFile)
    <3>1. Live(stateFile) \in BOOLEAN
      BY DEF Live
    <3>2. QED
      BY <3>1, Zenon
  <2>3. PICK r : r = [Quiet EXCEPT !.at = place, !.cmd = cmd, !.force = force,
                                   !.seen = stateFile, !.alive = alive]
    OBVIOUS
  <2>4. cli' = [cli EXCEPT ![c] = r]
    BY <1>3, <1>5, <2>2, <2>3 DEF Invokes
  <2>5. place \in Places
    BY <2>1 DEF Places
  <2>6. r \in Invocation
    BY <1>1, <2>3, <2>5, QuietIsTyped DEF Invocation
  <2>7. r.at = place /\ r.cmd = cmd /\ r.seen = stateFile
    BY <2>3, QuietIsTyped DEF Invocation
  <2>8. r.force = force
    BY <2>3, QuietIsTyped DEF Invocation
  <2>9. r.alive = alive
    BY <2>3, QuietIsTyped DEF Invocation
  <2>10. r.holds = FALSE
    BY <2>3 DEF Quiet
  <2>11. InPlace(r)
    BY <2>1, <2>7, <2>8, <2>10 DEF InPlace, Holding, Queueing
  <2>12. Born(r.seen)'
    BY <1>1, <1>2, <2>7 DEF Born
  <2>13. KnowsDead(r)'
    BY <1>2, <2>2, <2>7, <2>9 DEF KnowsDead, Live
  <2>14. AsksToKill(r)'
    BY <1>2, <2>1, <2>7, <2>8 DEF AsksToKill, Queueing, Live
  <2>15. InvocationsInv'
    BY <1>1, <2>4, <2>6, <2>11, <2>12, <2>13, <2>14, InvocationKeeps
  <2>16. LockInv'
    <3>1. ~cli[c].holds /\ cli[c].at # "opened"
      BY <1>1, <1>2 DEF InPlace, Holding
    <3>2. QED
      BY <1>1, <1>2, <2>4, <2>6, <3>1, LockKept
  <2>17. QED
    BY <2>15, <2>16
<1>6. QED
  BY <1>4, <1>5

(* The probe of ensureServer: a live daemon that does not answer is left    *)
(* alone unless the user forces.                                            *)
LEMMA HealthProbeKeeps ==
  ASSUME StartInv, Ages, NEW c \in Cli, ProbeAnswers(c) \/ ProbeFails(c)
  PROVE  InvocationsInv' /\ LockInv'
<1>1. /\ cli[c] \in Invocation /\ InPlace(cli[c]) /\ KnowsDead(cli[c])
  BY OfOne
<1>2. cli[c].at = "probing" /\ lockFile' = lockFile
  BY DEF ProbeAnswers, ProbeFails, In
<1>3. /\ ~cli[c].holds /\ ~(cli[c].cmd = "stop" /\ cli[c].force) /\ cli[c].cmd # "disconnect"
      /\ cli[c].at \notin Holding \cup {"opened"}
  BY <1>1, <1>2 DEF InPlace, Holding
<1>4. CASE ProbeAnswers(c) /\ Outdated(cli[c].seen)
  <2>1. Goes(c, "killing")
    BY <1>4 DEF ProbeAnswers
  <2>2. "killing" \in Places /\ "killing" \notin Queueing
    BY DEF Places, Queueing
  <2>3. QED
    BY <1>2, <1>3, <1>4, <2>1, <2>2, GoesKeeps
<1>5. CASE ProbeAnswers(c) /\ ~Outdated(cli[c].seen)
  <2>1. PICK p : p = AfterStart(c)
    OBVIOUS
  <2>2. p \in Places /\ p \notin {"probing", "deciding", "locked"} /\ p \notin Queueing \cup {"killing"}
    BY <2>1 DEF AfterStart, Places, Queueing
  <2>3. Goes(c, p)
    BY <1>5, <2>1 DEF ProbeAnswers
  <2>4. QED
    BY <1>2, <1>3, <2>2, <2>3, GoesKeeps
<1>6. CASE ProbeFails(c)
  <2>1. CASE cli[c].alive /\ (~cli[c].force \/ (Live(cli[c].seen) /\ dm[cli[c].seen].headed))
    <3>1. Ends(c)
      BY <1>6, <2>1 DEF ProbeFails
    <3>2. QED
      BY <1>2, <1>3, <3>1, EndsQuietly
  <2>2. CASE ~(cli[c].alive /\ (~cli[c].force \/ (Live(cli[c].seen) /\ dm[cli[c].seen].headed)))
    <3>1. Goes(c, "locking")
      BY <1>6, <2>2 DEF ProbeFails
    <3>2. Live(cli[c].seen) => cli[c].force
      BY <1>1, <1>2, <2>2 DEF KnowsDead
    <3>3. "locking" \in Places
      BY DEF Places
    <3>4. QED
      BY <1>2, <1>3, <3>1, <3>2, <3>3, GoesKeeps
  <2>3. QED
    BY <2>1, <2>2
<1>7. QED
  BY <1>4, <1>5, <1>6

(* acquireServerLock creates the file in the name of its caller.            *)
LEMMA CreatesLockKeeps ==
  ASSUME StartInv, Ages, NEW c \in Cli, CreatesLock(c)
  PROVE  InvocationsInv' /\ LockInv'
<1>1. /\ cli[c] \in Invocation /\ InPlace(cli[c]) /\ AsksToKill(cli[c]) /\ InvocationsInv
  BY OfOne
<1>2. cli[c].at = "locking" /\ Goes(c, "opened") /\ lockFile' = [by |-> c, written |-> FALSE, live |-> TRUE]
  BY DEF CreatesLock, In
<1>3. /\ ~cli[c].holds /\ ~(cli[c].cmd = "stop" /\ cli[c].force) /\ cli[c].cmd # "disconnect"
  BY <1>1, <1>2 DEF InPlace, Holding, Queueing
<1>4. Live(cli[c].seen)
           => cli[c].force \/ cli[c].cmd = "disconnect" \/ Outdated(cli[c].seen) \/ cli[c].switching
  BY <1>1, <1>2 DEF AsksToKill, Queueing
<1>5. "opened" \in Places
  BY DEF Places
<1>6. InvocationsInv'
  BY <1>2, <1>3, <1>4, <1>5, GoesKeepsButLock
<1>7. LockInv'
  <2>1. PICK l : l = lockFile'
    OBVIOUS
  <2>2. l \in LockRecord /\ l.by = c
    BY <1>2, <2>1 DEF LockRecord
  <2>3. cli'[c].at = "opened"
    BY <1>1, <1>2 DEF Goes, InvocationsInv, Invocation
  <2>4. QED
    BY <2>1, <2>2, <2>3 DEF LockInv
<1>8. QED
  BY <1>6, <1>7

(* The pid goes to the file, which by then may be that of another.          *)
LEMMA WritesPidKeeps ==
  ASSUME StartInv, Ages, NEW c \in Cli, WritesPid(c)
  PROVE  InvocationsInv' /\ LockInv'
<1>1. /\ cli[c] \in Invocation /\ InPlace(cli[c]) /\ AsksToKill(cli[c]) /\ InvocationsInv
      /\ DaemonTypes /\ LockInv /\ Born(cli[c].seen) /\ cli[c].seen \in Daemon \cup {NoDaemon}
  BY OfOne
<1>2. PICK q \in Invocation : q = cli[c]
  BY <1>1
<1>3. PICK r : r = [q EXCEPT !.at = "locked", !.holds = TRUE, !.count = 0]
  OBVIOUS
<1>4. cli' = [cli EXCEPT ![c] = r] /\ q.at = "opened" /\ dm' = dm /\ newBinary' = newBinary
  BY <1>2, <1>3 DEF WritesPid, InvocationsInv, In
<1>5. r \in Invocation
  BY <1>3 DEF Invocation, Places
<1>6. r.at = "locked" /\ r.cmd = q.cmd /\ r.seen = q.seen
  BY <1>3 DEF Invocation
<1>7. r.force = q.force
  BY <1>3 DEF Invocation
<1>8. r.switching = q.switching
  BY <1>3 DEF Invocation
<1>9. r.holds = TRUE
  BY <1>3 DEF Invocation
<1>10. InPlace(r)
  BY <1>1, <1>2, <1>4, <1>6, <1>7, <1>9 DEF InPlace, Holding, Queueing
<1>11. Born(r.seen)' /\ KnowsDead(r)'
  BY <1>1, <1>2, <1>4, <1>6 DEF Born, KnowsDead
<1>12. AsksToKill(r)'
  BY <1>1, <1>2, <1>4, <1>6, <1>7, <1>8 DEF AsksToKill, Queueing, Live, Outdated
<1>13. InvocationsInv'
  BY <1>1, <1>4, <1>5, <1>10, <1>11, <1>12, InvocationKeeps
<1>14. LockInv'
  <2>1. CASE lockFile.by = c /\ lockFile # NoLock
    <3>1. PICK l \in LockRecord : l = lockFile
      BY <1>1, <2>1 DEF LockInv
    <3>2. PICK m : m = [l EXCEPT !.written = TRUE]
      OBVIOUS
    <3>3. lockFile' = m
      BY <2>1, <3>1, <3>2 DEF WritesPid
    <3>4. m \in LockRecord /\ m.by = c
      BY <2>1, <3>1, <3>2 DEF LockRecord
    <3>5. cli'[c].holds
      BY <1>1, <1>4, <1>9 DEF InvocationsInv
    <3>6. QED
      BY <3>3, <3>4, <3>5 DEF LockInv
  <2>2. CASE lockFile.by # c \/ lockFile = NoLock
    <3>1. lockFile' = lockFile
      <4>1. lockFile = NoLock => lockFile.by # c
        BY NobodyIsNoInvocation DEF NoLock
      <4>2. QED
        BY <2>2, <4>1 DEF WritesPid
    <3>2. QED
      BY <1>1, <1>4, <1>5, <1>9, <3>1, LockKept
  <2>3. QED
    BY <2>1, <2>2
<1>15. QED
  BY <1>13, <1>14

(* The lock is taken; it may be stale.                                      *)
LEMMA ReadsLockKeeps ==
  ASSUME StartInv, Ages, NEW c \in Cli, ReadsLock(c)
  PROVE  InvocationsInv' /\ LockInv'
<1>1. /\ cli[c] \in Invocation /\ InPlace(cli[c]) /\ AsksToKill(cli[c])
  BY OfOne
<1>2. cli[c].at = "locking" /\ lockFile' = lockFile
  BY DEF ReadsLock, In
<1>3. PICK p \in {"waiting", "takeover"} : Goes(c, p)
  BY DEF ReadsLock
<1>4. /\ ~cli[c].holds /\ ~(cli[c].cmd = "stop" /\ cli[c].force) /\ cli[c].cmd # "disconnect"
  BY <1>1, <1>2 DEF InPlace, Holding, Queueing
<1>5. Live(cli[c].seen)
           => cli[c].force \/ cli[c].cmd = "disconnect" \/ Outdated(cli[c].seen) \/ cli[c].switching
  BY <1>1, <1>2 DEF AsksToKill, Queueing
<1>6. p \in Places /\ p \notin {"probing", "deciding", "locked"}
  BY DEF Places
<1>7. QED
  BY <1>2, <1>3, <1>4, <1>5, <1>6, GoesKeeps

(* Whatever has the name of the stale lock is unlinked.                     *)
LEMMA TakeoverKeeps ==
  ASSUME StartInv, Ages, NEW c \in Cli, UnlinksStaleLock(c)
  PROVE  InvocationsInv' /\ LockInv'
<1>1. /\ cli[c] \in Invocation /\ InPlace(cli[c]) /\ AsksToKill(cli[c]) /\ InvocationsInv
      /\ DaemonTypes /\ LockInv /\ Born(cli[c].seen) /\ cli[c].seen \in Daemon \cup {NoDaemon}
  BY OfOne
<1>2. PICK q \in Invocation : q = cli[c]
  BY <1>1
<1>3. PICK n : n = q.count + (IF q.count < MaxTakeovers THEN 1 ELSE 0)
  OBVIOUS
<1>4. PICK p : p = IF q.count >= MaxTakeovers THEN "waiting" ELSE "locking"
  OBVIOUS
<1>5. PICK r : r = [q EXCEPT !.count = n, !.at = p]
  OBVIOUS
<1>6. cli' = [cli EXCEPT ![c] = r] /\ q.at = "takeover" /\ dm' = dm /\ newBinary' = newBinary
      /\ lockFile' = NoLock
  BY <1>2, <1>3, <1>4, <1>5 DEF UnlinksStaleLock, InvocationsInv, In
<1>7. n \in Nat
  BY <1>3, StartBounds DEF Invocation
<1>8. p \in {"waiting", "locking"} /\ p \in Places
  BY <1>4 DEF Places
<1>9. r \in Invocation
  BY <1>5, <1>7, <1>8 DEF Invocation
<1>10. r.at = p /\ r.cmd = q.cmd /\ r.seen = q.seen
  BY <1>5 DEF Invocation
<1>11. r.force = q.force
  BY <1>5 DEF Invocation
<1>12. r.switching = q.switching
  BY <1>5 DEF Invocation
<1>13. r.holds = q.holds
  BY <1>5 DEF Invocation
<1>14. InPlace(r)
  BY <1>1, <1>2, <1>6, <1>8, <1>10, <1>11, <1>13 DEF InPlace, Holding, Queueing
<1>15. Born(r.seen)' /\ KnowsDead(r)'
  BY <1>1, <1>2, <1>6, <1>8, <1>10 DEF Born, KnowsDead
<1>16. AsksToKill(r)'
  BY <1>1, <1>2, <1>6, <1>10, <1>11, <1>12 DEF AsksToKill, Queueing, Live, Outdated
<1>17. InvocationsInv'
  BY <1>1, <1>6, <1>9, <1>14, <1>15, <1>16, InvocationKeeps
<1>18. QED
  BY <1>6, <1>17, NoLockIsFine

(* Another invocation, or the one just spawned, has started the daemon;     *)
(* under the lock, no daemon may answer.                                    *)
LEMMA StartIsSeenKeeps ==
  ASSUME StartInv, Ages, NEW c \in Cli, WaitSees(c) \/ PollSees(c) \/ RereadsState(c)
  PROVE  InvocationsInv' /\ LockInv'
<1>1. /\ cli[c] \in Invocation /\ InPlace(cli[c]) /\ AsksToKill(cli[c])
  BY OfOne
<1>2. CASE WaitSees(c)
  <2>1. cli[c].at = "waiting" /\ Started(c) /\ lockFile' = lockFile /\ dm' = dm
    BY <1>2 DEF WaitSees, In
  <2>2. ~cli[c].holds
    BY <1>1, <2>1 DEF InPlace, Holding
  <2>3. lockFile' = LockAfter(c)
    BY <2>1, <2>2 DEF LockAfter
  <2>4. QED
    BY <2>1, <2>3, StartedKeeps
<1>3. CASE PollSees(c)
  BY <1>3, StartedKeeps DEF PollSees, In
<1>4. CASE RereadsState(c) /\ Answers(stateFile)
  BY <1>4, StartedKeeps DEF RereadsState, Started, In
<1>5. CASE RereadsState(c) /\ ~Answers(stateFile)
  <2>1. cli[c].at = "locked" /\ Goes(c, "killing") /\ lockFile' = lockFile
    BY <1>5 DEF RereadsState, In
  <2>2. "killing" \in Places /\ "killing" \in Holding /\ "killing" \notin Queueing
    BY DEF Places, Holding, Queueing
  <2>3. Live(cli[c].seen)
           => cli[c].force \/ cli[c].cmd = "disconnect" \/ Outdated(cli[c].seen) \/ cli[c].switching
    BY <1>1, <2>1 DEF AsksToKill, Queueing
  <2>4. QED
    BY <2>1, <2>2, <2>3, GoesKeeps
<1>6. QED
  BY <1>2, <1>3, <1>4, <1>5

(* killServer, for each of its callers.                                     *)
LEMMA KillsKeeps ==
  ASSUME StartInv, Ages, NEW c \in Cli, Kills(c)
  PROVE  InvocationsInv' /\ LockInv'
<1>1. /\ cli[c] \in Invocation /\ InPlace(cli[c]) /\ InvocationsInv /\ DaemonTypes /\ LockInv
  BY OfOne
<1>2. cli[c].at = "killing" /\ lockFile' = lockFile
  BY DEF Kills, In
<1>3. CASE cli[c].cmd = "stop" /\ cli[c].force
  <2>1. Goes(c, "finishing")
    BY <1>2, <1>3 DEF Kills
  <2>2. ~cli[c].holds
    BY <1>1, <1>3 DEF InPlace
  <2>3. "finishing" \in Places /\ "finishing" \notin Queueing
    BY DEF Places, Queueing
  <2>4. QED
    BY <1>2, <2>1, <2>2, <2>3, GoesKeeps
<1>4. CASE cli[c].cmd = "disconnect"
  <2>1. Goes(c, "forgetting")
    BY <1>2, <1>4 DEF Kills
  <2>2. ~cli[c].holds
    BY <1>1, <1>4 DEF InPlace
  <2>3. "forgetting" \in Places /\ "forgetting" \notin Queueing
    BY DEF Places, Queueing
  <2>4. QED
    BY <1>2, <2>1, <2>2, <2>3, GoesKeeps
<1>5. CASE ~(cli[c].cmd = "stop" /\ cli[c].force) /\ cli[c].cmd # "disconnect"
  <2>1. PICK q \in Invocation : q = cli[c]
    BY <1>1
  <2>2. PICK r : r = [q EXCEPT !.at = "reaping", !.seen = NoDaemon]
    OBVIOUS
  <2>3. cli' = [cli EXCEPT ![c] = r]
    BY <1>5, <2>1, <2>2 DEF Kills, InvocationsInv
  <2>4. r \in Invocation
    BY <2>2 DEF Invocation, Places
  <2>5. r.at = "reaping" /\ r.cmd = q.cmd /\ r.seen = NoDaemon
    BY <2>2 DEF Invocation
  <2>6. r.force = q.force
    BY <2>2 DEF Invocation
  <2>7. r.holds = q.holds
    BY <2>2 DEF Invocation
  <2>8. InPlace(r)
    BY <1>5, <2>1, <2>5, <2>6 DEF InPlace, Holding, Queueing
  <2>9. Born(r.seen)' /\ KnowsDead(r)' /\ AsksToKill(r)'
    BY <2>5 DEF Born, KnowsDead, AsksToKill, Queueing
  <2>10. InvocationsInv'
    BY <1>1, <2>3, <2>4, <2>8, <2>9, InvocationKeeps
  <2>11. LockInv'
    BY <1>1, <1>2, <2>1, <2>3, <2>4, <2>7, LockKept
  <2>12. QED
    BY <2>10, <2>11
<1>6. QED
  BY <1>3, <1>4, <1>5

(* startServer reaps and spawns.                                            *)
LEMMA SpawningKeeps ==
  ASSUME StartInv, Ages, NEW c \in Cli, Reaps(c) \/ Spawns(c)
  PROVE  InvocationsInv' /\ LockInv'
<1>1. PICK p \in {"spawning", "polling"} : Goes(c, p)
  BY DEF Reaps, Spawns
<1>2. lockFile' = lockFile /\ cli[c].at # "opened"
  BY DEF Reaps, Spawns, In
<1>3. p \in Places /\ p \in Holding /\ p \notin Queueing /\ p \notin {"probing", "deciding", "locked", "killing"}
  BY DEF Places, Holding, Queueing
<1>4. QED
  BY <1>1, <1>2, <1>3, GoesKeeps

(* It gives up: the lock is returned.                                       *)
LEMMA PollFailsKeeps ==
  ASSUME StartInv, Ages, NEW c \in Cli, PollFails(c)
  PROVE  InvocationsInv' /\ LockInv'
<1>1. InvocationsInv /\ DaemonTypes /\ LockInv /\ Ends(c) /\ lockFile' = LockAfter(c) /\ cli[c].at # "opened"
  BY OfOne DEF PollFails, EndsAndReleases, In
<1>2. PICK r \in Invocation : r = Gone
  BY GoneIsCalm
<1>3. cli' = [cli EXCEPT ![c] = r]
  BY <1>1, <1>2 DEF Ends
<1>4. QED
  BY <1>1, <1>3, EndKeeps, LockReturned

(* Ends of invocations that hold nothing.                                   *)
LEMMA EndingKeeps ==
  ASSUME StartInv, Ages, NEW c \in Cli,
         WaitTimesOut(c) \/ CommandTimesOut(c) \/ Finishes(c) \/ Forgets(c) \/ SupervisorIsStopped(c)
  PROVE  InvocationsInv' /\ LockInv'
<1>1. Ends(c) /\ lockFile' = lockFile
      /\ cli[c].at \in {"waiting", "sending", "finishing", "forgetting", "supervising"}
  BY DEF WaitTimesOut, CommandTimesOut, Finishes, Forgets, SupervisorIsStopped, In
<1>2. cli[c].at \notin Holding \cup {"opened"}
  BY <1>1 DEF Holding
<1>3. QED
  BY <1>1, <1>2, EndsQuietly

(* The command is answered.                                                 *)
LEMMA AnsweredKeeps ==
  ASSUME StartInv, Ages, NEW c \in Cli, Answered(c)
  PROVE  InvocationsInv' /\ LockInv'
<1>1. cli[c].at = "sending" /\ lockFile' = lockFile /\ InPlace(cli[c])
  BY OfOne DEF Answered, In
<1>2. cli[c].at \notin Holding \cup {"opened"} /\ ~cli[c].holds
  BY <1>1 DEF Holding, InPlace
<1>3. CASE cli[c].cmd = "stop"
  <2>1. Goes(c, "finishing")
    BY <1>3 DEF Answered
  <2>2. "finishing" \in Places /\ "finishing" \notin Queueing
    BY DEF Places, Queueing
  <2>3. QED
    BY <1>1, <1>2, <2>1, <2>2, GoesKeeps
<1>4. CASE cli[c].cmd # "stop"
  <2>1. Ends(c)
    BY <1>4 DEF Answered
  <2>2. QED
    BY <1>1, <1>2, <2>1, EndsQuietly
<1>5. QED
  BY <1>3, <1>4

(* The connection is refused: the state file is read again.                 *)
LEMMA RefusedKeeps ==
  ASSUME StartInv, Ages, NEW c \in Cli, Refused(c)
  PROVE  InvocationsInv' /\ LockInv'
<1>1. /\ cli[c] \in Invocation /\ InPlace(cli[c]) /\ InvocationsInv
      /\ DaemonTypes /\ LockInv /\ Born(cli[c].seen) /\ cli[c].seen \in Daemon \cup {NoDaemon}
      /\ stateFile \in Daemon \cup {NoDaemon} /\ Born(stateFile)
  BY OfOne
<1>2. PICK q \in Invocation : q = cli[c]
  BY <1>1
<1>3. PICK p : p = IF q.cmd = "disconnect" THEN "killing" ELSE "deciding"
  OBVIOUS
<1>4. PICK d : d = IF q.cmd = "disconnect" THEN q.seen ELSE stateFile
  OBVIOUS
<1>5. PICK alive \in BOOLEAN : alive = Live(stateFile)
  <2>1. Live(stateFile) \in BOOLEAN
    BY DEF Live
  <2>2. QED
    BY <2>1, Zenon
<1>23. PICK mode \in BOOLEAN : mode = (stateFile # NoDaemon /\ dm[stateFile].headed)
  <2>1. stateFile # NoDaemon => dm[stateFile].headed \in BOOLEAN
    BY <1>1 DEF DaemonTypes, DaemonProcess
  <2>2. QED
    BY <2>1
<1>6. PICK r : r = [q EXCEPT !.at = p, !.seen = d, !.alive = alive, !.headed = mode]
  OBVIOUS
<1>7. cli' = [cli EXCEPT ![c] = r]
  BY <1>2, <1>3, <1>4, <1>5, <1>6, <1>23 DEF Refused, InvocationsInv
<1>8. q.at = "sending" /\ dm' = dm /\ newBinary' = newBinary /\ lockFile' = lockFile
  BY <1>2 DEF Refused, In
<1>9. d \in Daemon \cup {NoDaemon} /\ Born(d)
  BY <1>1, <1>2, <1>4
<1>10. p \in {"killing", "deciding"} /\ p \in Places
  BY <1>3 DEF Places
<1>11. r \in Invocation
  BY <1>6, <1>9, <1>10 DEF Invocation
<1>12. r.at = p /\ r.cmd = q.cmd /\ r.seen = d
  BY <1>6 DEF Invocation
<1>13. r.alive = alive
  BY <1>6 DEF Invocation
<1>14. r.holds = q.holds
  BY <1>6 DEF Invocation
<1>15. ~q.holds
  BY <1>1, <1>2, <1>8 DEF InPlace, Holding
<1>16. InPlace(r)
  BY <1>10, <1>12, <1>14, <1>15 DEF InPlace, Queueing
<1>17. Born(r.seen)'
  BY <1>8, <1>9, <1>12 DEF Born
<1>18. KnowsDead(r)'
  <2>1. p = "deciding" => d = stateFile
    BY <1>3, <1>4
  <2>2. QED
    BY <1>5, <1>8, <1>10, <1>12, <1>13, <2>1 DEF KnowsDead, Live
<1>19. AsksToKill(r)'
  BY <1>3, <1>12 DEF AsksToKill, Queueing
<1>20. InvocationsInv'
  BY <1>1, <1>7, <1>11, <1>16, <1>17, <1>18, <1>19, InvocationKeeps
<1>21. LockInv'
  BY <1>1, <1>2, <1>7, <1>8, <1>11, <1>15, LockKept
<1>22. QED
  BY <1>20, <1>21

(* decideDaemonRestart restarts a dead daemon, or a live one by force.      *)
LEMMA DecidesKeeps ==
  ASSUME StartInv, Ages, NEW c \in Cli, Decides(c)
  PROVE  InvocationsInv' /\ LockInv'
<1>1. /\ cli[c] \in Invocation /\ InPlace(cli[c]) /\ KnowsDead(cli[c]) /\ InvocationsInv
      /\ DaemonTypes /\ LockInv /\ Born(cli[c].seen) /\ cli[c].seen \in Daemon \cup {NoDaemon}
  BY OfOne
<1>2. cli[c].at = "deciding" /\ lockFile' = lockFile /\ dm' = dm /\ newBinary' = newBinary
  BY DEF Decides, In
<1>3. cli[c].at \notin Holding \cup {"opened"} /\ ~cli[c].holds
  BY <1>1, <1>2 DEF Holding, InPlace
<1>4. PICK action : action = DecideDaemonRestart(c)
  OBVIOUS
<1>5. CASE action \in {"busy", "stopped"} \/ cli[c].tries >= 1
  <2>1. Ends(c)
    BY <1>4, <1>5 DEF Decides
  <2>2. QED
    BY <1>2, <1>3, <2>1, EndsQuietly
<1>6. CASE ~(action \in {"busy", "stopped"} \/ cli[c].tries >= 1)
  <2>1. PICK q \in Invocation : q = cli[c]
    BY <1>1
  <2>2. PICK p : p = IF action = "retry" THEN "sending" ELSE "killing"
    OBVIOUS
  <2>3. PICK n : n = q.tries + 1
    OBVIOUS
  <2>4. PICK r : r = [q EXCEPT !.tries = n, !.at = p]
    OBVIOUS
  <2>5. cli' = [cli EXCEPT ![c] = r]
    BY <1>4, <1>6, <2>1, <2>2, <2>3, <2>4 DEF Decides, InvocationsInv
  <2>6. n \in 0..1
    <3>1. q.tries \in 0..1
      BY DEF Invocation
    <3>2. ~(q.tries >= 1)
      BY <1>6, <2>1
    <3>3. QED
      BY <2>3, <3>1, <3>2
  <2>7. p \in {"sending", "killing"} /\ p \in Places
    BY <2>2 DEF Places
  <2>8. r \in Invocation
    BY <2>4, <2>6, <2>7 DEF Invocation
  <2>9. r.at = p /\ r.cmd = q.cmd /\ r.seen = q.seen
    BY <2>4 DEF Invocation
  <2>10. r.force = q.force
    BY <2>4 DEF Invocation
  <2>11. r.holds = q.holds
    BY <2>4 DEF Invocation
  <2>12. InPlace(r)
    BY <1>3, <2>1, <2>7, <2>9, <2>11 DEF InPlace, Queueing
  <2>13. Born(r.seen)' /\ KnowsDead(r)'
    BY <1>1, <1>2, <2>1, <2>7, <2>9 DEF Born, KnowsDead
  <2>14. AsksToKill(r)'
    <3>1. CASE p = "sending"
      BY <2>9, <3>1 DEF AsksToKill, Queueing
    <3>2. CASE p = "killing"
      <4>1. action # "retry"
        BY <2>2, <3>2
      <4>2. q.alive \/ ~Live(q.seen)
        BY <1>1, <1>2, <2>1 DEF KnowsDead
      <4>3. Live(q.seen) => q.force
        <5>1. ASSUME Live(q.seen), ~q.force PROVE FALSE
          <6>1. q.alive
            BY <4>2, <5>1
          <6>2. CASE Answers(q.seen)
            BY <1>4, <2>1, <4>1, <6>1, <6>2 DEF DecideDaemonRestart
          <6>3. CASE ~Answers(q.seen)
            BY <1>4, <1>6, <2>1, <5>1, <6>1, <6>3 DEF DecideDaemonRestart
          <6>4. QED
            BY <6>2, <6>3
        <5>2. QED
          BY <5>1
      <4>4. QED
        BY <1>2, <2>9, <2>10, <4>3 DEF AsksToKill, Live
    <3>3. QED
      BY <2>7, <3>1, <3>2
  <2>15. InvocationsInv'
    BY <1>1, <2>5, <2>8, <2>12, <2>13, <2>14, InvocationKeeps
  <2>16. LockInv'
    BY <1>1, <1>2, <1>3, <2>5, <2>8, LockKept
  <2>17. QED
    BY <2>15, <2>16
<1>7. QED
  BY <1>5, <1>6

(* pair-agent, which replaces a daemon that did not stay.                   *)
LEMMA PairsKeeps ==
  ASSUME StartInv, Ages, NEW c \in Cli, Pairs(c)
  PROVE  InvocationsInv' /\ LockInv'
<1>1. /\ cli[c] \in Invocation /\ InPlace(cli[c]) /\ InvocationsInv
      /\ DaemonTypes /\ LockInv
      /\ stateFile \in Daemon \cup {NoDaemon} /\ Born(stateFile)
  BY OfOne
<1>2. cli[c].at = "pairing" /\ lockFile' = lockFile /\ dm' = dm
  BY DEF Pairs, In
<1>3. cli[c].at \notin Holding \cup {"opened"} /\ ~cli[c].holds
  BY <1>1, <1>2 DEF Holding, InPlace
<1>4. CASE Ends(c)
  BY <1>2, <1>3, <1>4, EndsQuietly
<1>5. CASE ~Ends(c)
  <2>1. PICK q \in Invocation : q = cli[c]
    BY <1>1
  <2>2. PICK d \in Daemon \cup {NoDaemon} : d = stateFile
    BY <1>1
  <2>3. PICK r : r = [q EXCEPT !.at = "killing", !.seen = d, !.switching = TRUE]
    OBVIOUS
  <2>4. cli' = [cli EXCEPT ![c] = r]
    BY <1>5, <2>1, <2>2, <2>3 DEF Pairs, InvocationsInv
  <2>5. r \in Invocation
    BY <2>3 DEF Invocation, Places
  <2>6. r.at = "killing" /\ r.seen = d
    BY <2>3 DEF Invocation
  <2>7. r.switching = TRUE
    BY <2>3 DEF Invocation
  <2>8. r.holds = q.holds
    BY <2>3 DEF Invocation
  <2>9. InPlace(r)
    BY <1>3, <2>1, <2>6, <2>8 DEF InPlace, Queueing
  <2>10. Born(r.seen)' /\ KnowsDead(r)' /\ AsksToKill(r)'
    BY <1>1, <1>2, <2>2, <2>6, <2>7 DEF Born, KnowsDead, AsksToKill
  <2>11. InvocationsInv'
    BY <1>1, <2>4, <2>5, <2>9, <2>10, InvocationKeeps
  <2>12. LockInv'
    BY <1>1, <1>2, <1>3, <2>4, <2>5, LockKept
  <2>13. QED
    BY <2>11, <2>12
<1>6. QED
  BY <1>4, <1>5

(* connect --supervise.                                                     *)
LEMMA SupervisesKeeps ==
  ASSUME StartInv, Ages, NEW c \in Cli,
         (\E supervise \in BOOLEAN : Connected(c, supervise)) \/ SupervisorTicks(c)
  PROVE  InvocationsInv' /\ LockInv'
<1>1. /\ cli[c] \in Invocation /\ InPlace(cli[c]) /\ InvocationsInv
      /\ DaemonTypes /\ LockInv /\ Born(cli[c].seen)
  BY OfOne
<1>2. cli[c].at \in {"connected", "supervising"} /\ lockFile' = lockFile /\ dm' = dm
  BY DEF Connected, SupervisorTicks, In
<1>3. cli[c].at \notin Holding \cup {"opened"} /\ ~cli[c].holds
  BY <1>1, <1>2 DEF Holding, InPlace
<1>4. CASE Ends(c)
  BY <1>2, <1>3, <1>4, EndsQuietly
<1>5. CASE ~Ends(c)
  <2>1. PICK q \in Invocation : q = cli[c]
    BY <1>1
  <2>2. PICK n : n = IF q.at = "connected" THEN 0 ELSE q.count + 1
    OBVIOUS
  <2>3. PICK r : r = [q EXCEPT !.at = "supervising", !.count = n]
    OBVIOUS
  <2>4. cli' = [cli EXCEPT ![c] = r]
    <3>1. CASE \E supervise \in BOOLEAN : Connected(c, supervise)
      BY <1>1, <1>5, <2>1, <2>2, <2>3, <3>1 DEF Connected, InvocationsInv, In
    <3>2. CASE SupervisorTicks(c)
      <4>1. q.at = "supervising" /\ cli' = [cli EXCEPT ![c].count = @ + 1]
        BY <1>5, <2>1, <3>2 DEF SupervisorTicks, In
      <4>2. n = q.count + 1
        BY <2>2, <4>1
      <4>3. r = [q EXCEPT !.count = n]
        BY <2>3, <4>1 DEF Invocation
      <4>4. QED
        BY <2>1, <4>1, <4>2, <4>3 DEF InvocationsInv
    <3>3. QED
      BY <3>1, <3>2
  <2>5. n \in Nat
    BY <2>2 DEF Invocation
  <2>6. r \in Invocation
    BY <2>3, <2>5 DEF Invocation, Places
  <2>7. r.at = "supervising" /\ r.seen = q.seen
    BY <2>3 DEF Invocation
  <2>8. r.holds = q.holds
    BY <2>3 DEF Invocation
  <2>9. Born(r.seen)'
    BY <1>1, <1>2, <2>1, <2>7 DEF Born
  <2>10. InvocationsInv'
    <3>1. r.at \in Calm /\ ~r.holds
      BY <1>3, <2>1, <2>7, <2>8 DEF Calm
    <3>2. QED
      BY <1>1, <2>4, <2>6, <2>9, <3>1, CalmKeeps
  <2>11. LockInv'
    BY <1>1, <1>2, <1>3, <2>4, <2>6, LockKept
  <2>12. QED
    BY <2>10, <2>11
<1>6. QED
  BY <1>4, <1>5

(* A killed invocation leaves its lock file behind, with the pid of the     *)
(* dead.                                                                    *)
LEMMA InvocationDiesKeeps ==
  ASSUME StartInv, Ages, NEW c \in Cli, InvocationDies(c)
  PROVE  InvocationsInv' /\ LockInv'
<1>1. InvocationsInv /\ DaemonTypes /\ LockInv /\ Ends(c)
  BY OfOne DEF InvocationDies
<1>2. InvocationsInv'
  BY <1>1, EndKeeps
<1>3. CASE lockFile = NoLock
  <2>1. lockFile.by # c
    BY <1>3, NobodyIsNoInvocation DEF NoLock
  <2>2. lockFile' = NoLock
    BY <1>3, <2>1 DEF InvocationDies
  <2>3. QED
    BY <1>2, <2>2, NoLockIsFine
<1>4. CASE lockFile # NoLock /\ lockFile.by = c
  <2>1. PICK l \in LockRecord : l = lockFile
    BY <1>1, <1>4 DEF LockInv
  <2>2. PICK m : m = [l EXCEPT !.live = FALSE]
    OBVIOUS
  <2>3. lockFile' = m
    BY <1>4, <2>1, <2>2 DEF InvocationDies
  <2>4. m \in LockRecord
    BY <2>2 DEF LockRecord
  <2>5. ~m.live
    BY <2>2 DEF LockRecord
  <2>6. LockInv'
    BY <2>3, <2>4, <2>5 DEF LockInv
  <2>7. QED
    BY <1>2, <2>6
<1>5. CASE lockFile # NoLock /\ lockFile.by # c
  <2>1. lockFile' = lockFile
    BY <1>5 DEF InvocationDies
  <2>2. PICK l \in LockRecord : l = lockFile
    BY <1>1, <1>5 DEF LockInv
  <2>3. PICK e \in Cli : e = l.by
    BY DEF LockRecord
  <2>4. e # c
    BY <1>5, <2>2, <2>3
  <2>5. cli'[e] = cli[e]
    BY <1>1, <2>4 DEF Ends, InvocationsInv
  <2>6. l.live => cli[e].holds \/ cli[e].at = "opened"
    BY <1>1, <1>5, <2>2, <2>3 DEF LockInv
  <2>7. LockInv'
    BY <2>1, <2>2, <2>3, <2>5, <2>6 DEF LockInv
  <2>8. QED
    BY <1>2, <2>7
<1>6. QED
  BY <1>3, <1>4, <1>5

OnlyCli(c) ==
  \/ \E cmd \in Command, force \in BOOLEAN : Invokes(c, cmd, force)
  \/ ProbeAnswers(c) \/ ProbeFails(c) \/ CreatesLock(c) \/ WritesPid(c) \/ ReadsLock(c)
  \/ UnlinksStaleLock(c) \/ WaitSees(c) \/ WaitTimesOut(c) \/ RereadsState(c)
  \/ PollSees(c) \/ PollFails(c) \/ CommandTimesOut(c) \/ Refused(c) \/ Decides(c) \/ Pairs(c)
  \/ \E supervise \in BOOLEAN : Connected(c, supervise)
  \/ SupervisorTicks(c) \/ InvocationDies(c)

(* Steps of an invocation that reach no daemon.                             *)
LEMMA OnlyCliAges ==
  ASSUME StartInv, NEW c \in Cli, OnlyCli(c)
  PROVE  Ages /\ Born(stateFile)' /\ faults' \in 0..MaxFaults
<1>1. /\ DaemonTypes /\ stateFile \in Daemon \cup {NoDaemon} /\ newBinary \in BOOLEAN
      /\ faults \in 0..MaxFaults /\ Born(stateFile)
  BY DEF StartInv, DaemonTypes
<1>2. dm' = dm
  BY DEF OnlyCli, Invokes, ProbeAnswers, ProbeFails, CreatesLock, WritesPid, ReadsLock,
         UnlinksStaleLock, WaitSees, WaitTimesOut, RereadsState, PollSees, PollFails,
         CommandTimesOut, Refused, Decides, Pairs, Connected, SupervisorTicks, InvocationDies
<1>3. newBinary' = newBinary
  BY DEF OnlyCli, Invokes, ProbeAnswers, ProbeFails, CreatesLock, WritesPid, ReadsLock,
         UnlinksStaleLock, WaitSees, WaitTimesOut, RereadsState, PollSees, PollFails,
         CommandTimesOut, Refused, Decides, Pairs, Connected, SupervisorTicks, InvocationDies
<1>4. stateFile' \in {stateFile, NoDaemon}
  BY DEF OnlyCli, Invokes, ProbeAnswers, ProbeFails, CreatesLock, WritesPid, ReadsLock,
         UnlinksStaleLock, WaitSees, WaitTimesOut, RereadsState, PollSees, PollFails,
         CommandTimesOut, Refused, Decides, Pairs, Connected, SupervisorTicks, InvocationDies
<1>5. faults' = faults \/ (faults < MaxFaults /\ faults' = faults + 1)
  BY DEF OnlyCli, Invokes, ProbeAnswers, ProbeFails, CreatesLock, WritesPid, ReadsLock,
         UnlinksStaleLock, WaitSees, WaitTimesOut, RereadsState, PollSees, PollFails,
         CommandTimesOut, Refused, Decides, Pairs, Connected, SupervisorTicks, InvocationDies
<1>6. faults' \in 0..MaxFaults
  BY <1>1, <1>5, StartBounds
<1>7. Ages
  BY <1>1, <1>2, <1>3, <1>4, NoneAges
<1>8. Born(stateFile)'
  BY <1>1, <1>2, <1>4 DEF Born
<1>9. QED
  BY <1>6, <1>7, <1>8

(* They keep the invariant.                                                 *)
LEMMA OnlyCliKeeps ==
  ASSUME StartInv, NEW c \in Cli, OnlyCli(c)
  PROVE  StartInv'
<1>1. Ages /\ Born(stateFile)' /\ faults' \in 0..MaxFaults
  BY OnlyCliAges
<1>2. InvocationsInv' /\ LockInv'
  BY <1>1, InvokesKeeps, HealthProbeKeeps, CreatesLockKeeps, WritesPidKeeps, ReadsLockKeeps,
     TakeoverKeeps, StartIsSeenKeeps, EndingKeeps, PollFailsKeeps, RefusedKeeps, DecidesKeeps,
     PairsKeeps, SupervisesKeeps, InvocationDiesKeeps DEF OnlyCli
<1>3. QED
  BY <1>1, <1>2 DEF StartInv, Ages

(* So do those that reach one,                                              *)
LEMMA CliOnDaemonsKeeps ==
  ASSUME StartInv, NEW c \in Cli,
         \/ Kills(c) \/ Reaps(c) \/ Spawns(c) \/ Answered(c) \/ Finishes(c) \/ Forgets(c)
         \/ SupervisorIsStopped(c)
  PROVE  StartInv'
<1>1. /\ DaemonTypes /\ stateFile \in Daemon \cup {NoDaemon}
      /\ faults \in 0..MaxFaults /\ Born(stateFile)
  BY DEF StartInv, DaemonTypes
<1>2. Ages
  BY KillsAges, SpawnsAges, OtherCliAges
<1>3. InvocationsInv' /\ LockInv'
  BY <1>2, KillsKeeps, SpawningKeeps, AnsweredKeeps, EndingKeeps
<1>4. stateFile' \in {stateFile, NoDaemon} /\ faults' = faults
  BY DEF Kills, Reaps, Spawns, Answered, Finishes, Forgets, SupervisorIsStopped
<1>5. Born(stateFile)'
  <2>1. PICK d \in Daemon \cup {NoDaemon} : d = stateFile
    BY <1>1
  <2>2. Born(d)'
    BY <1>1, <1>2, <2>1, Later
  <2>3. QED
    BY <1>4, <2>1, <2>2 DEF Born
<1>6. QED
  BY <1>1, <1>2, <1>3, <1>4, <1>5 DEF StartInv, Ages

(* those of the daemons,                                                    *)
LEMMA DaemonStepKeeps ==
  ASSUME StartInv, NEW d \in Daemon, DaemonStep(d)
  PROVE  StartInv'
<1>1. /\ DaemonTypes /\ stateFile \in Daemon \cup {NoDaemon} /\ InvocationsInv /\ LockInv
      /\ faults \in 0..MaxFaults /\ Born(stateFile) /\ dm \in [Daemon -> DaemonProcess]
  BY DEF StartInv, DaemonTypes
<1>2. Ages
  BY DaemonAges
<1>3. cli' = cli /\ lockFile' = lockFile
  BY DEF DaemonStep, Boots, BootFails, GetsBusy, GetsFree, IdleTimeout, LosesBrowser, Exits, Crashes
<1>4. faults' = faults \/ (faults < MaxFaults /\ faults' = faults + 1)
  BY DEF DaemonStep, Boots, BootFails, GetsBusy, GetsFree, IdleTimeout, LosesBrowser, Exits, Crashes
<1>5. stateFile' \in {stateFile, NoDaemon} \/ (stateFile' = d /\ dm'[d].at # "none")
  <2>1. CASE Boots(d)
    <3>1. stateFile' = d /\ dm[d].at # "none"
      BY <2>1 DEF Boots
    <3>2. QED
      BY <1>2, <3>1 DEF Ages
  <2>2. CASE ~Boots(d)
    BY <2>2 DEF DaemonStep, BootFails, GetsBusy, GetsFree, IdleTimeout, LosesBrowser, Exits, Crashes
  <2>3. QED
    BY <2>1, <2>2
<1>6. Born(stateFile)'
  <2>1. PICK e \in Daemon \cup {NoDaemon} : e = stateFile
    BY <1>1
  <2>2. Born(e)'
    BY <1>1, <1>2, <2>1, Later
  <2>3. QED
    BY <1>5, <2>1, <2>2 DEF Born
<1>7. InvocationsInv'
  BY <1>1, <1>2, <1>3, InvocationsKept
<1>8. LockInv'
  BY <1>1, <1>3, LockLeftAlone
<1>9. faults' \in 0..MaxFaults
  BY <1>1, <1>4, StartBounds
<1>10. QED
  BY <1>2, <1>6, <1>7, <1>8, <1>9 DEF StartInv, Ages

(* an update                                                                *)
LEMMA BinaryIsUpdatedKeeps ==
  ASSUME StartInv, BinaryIsUpdated
  PROVE  StartInv'
<1>1. /\ DaemonTypes /\ stateFile \in Daemon \cup {NoDaemon} /\ InvocationsInv /\ LockInv
      /\ faults \in 0..MaxFaults /\ Born(stateFile)
  BY DEF StartInv, DaemonTypes
<1>2. cli' = cli /\ lockFile' = lockFile /\ dm' = dm /\ stateFile' = stateFile /\ newBinary' = TRUE
      /\ faults' \in 0..MaxFaults
  BY <1>1, StartBounds DEF BinaryIsUpdated
<1>3. Ages
  BY <1>1, <1>2, NoneAges
<1>4. InvocationsInv' /\ LockInv'
  BY <1>1, <1>2, <1>3, InvocationsKept, LockLeftAlone
<1>5. Born(stateFile)'
  BY <1>1, <1>2 DEF Born
<1>6. QED
  BY <1>2, <1>3, <1>4, <1>5 DEF StartInv, Ages

(* and those of everything else.                                            *)
LEMMA StartStutters ==
  ASSUME StartInv, UNCHANGED startVars
  PROVE  StartInv'
<1>1. /\ DaemonTypes /\ stateFile \in Daemon \cup {NoDaemon} /\ InvocationsInv /\ LockInv
      /\ faults \in 0..MaxFaults /\ Born(stateFile) /\ newBinary \in BOOLEAN
  BY DEF StartInv, DaemonTypes
<1>2. cli' = cli /\ lockFile' = lockFile /\ dm' = dm /\ stateFile' = stateFile /\ newBinary' = newBinary
      /\ faults' = faults
  BY DEF startVars
<1>3. Ages
  BY <1>1, <1>2, NoneAges
<1>4. InvocationsInv' /\ LockInv'
  BY <1>1, <1>2, <1>3, InvocationsKept, LockLeftAlone
<1>5. Born(stateFile)'
  BY <1>1, <1>2 DEF Born
<1>6. QED
  BY <1>1, <1>2, <1>3, <1>4, <1>5 DEF StartInv, Ages

(* Every step keeps the invariant.                                          *)
LEMMA StartNextKeeps == StartInv /\ [StartNext]_startVars => StartInv'
<1> SUFFICES ASSUME StartInv, [StartNext]_startVars PROVE StartInv'
  OBVIOUS
<1>1. ASSUME NEW c \in Cli,
             \/ \E cmd \in Command, force \in BOOLEAN : Invokes(c, cmd, force)
             \/ CliStep(c)
             \/ \E supervise \in BOOLEAN : Connected(c, supervise)
             \/ SupervisorTicks(c) \/ SupervisorIsStopped(c) \/ InvocationDies(c)
      PROVE  StartInv'
  <2>1. \/ OnlyCli(c)
        \/ Kills(c) \/ Reaps(c) \/ Spawns(c) \/ Answered(c) \/ Finishes(c) \/ Forgets(c)
        \/ SupervisorIsStopped(c)
    BY <1>1 DEF CliStep, OnlyCli
  <2>2. QED
    BY <2>1, OnlyCliKeeps, CliOnDaemonsKeeps
<1>2. ASSUME NEW d \in Daemon, DaemonStep(d)
      PROVE  StartInv'
  BY <1>2, DaemonStepKeeps
<1>3. QED
  BY <1>1, <1>2, BinaryIsUpdatedKeeps, StartStutters DEF StartNext

(* Nothing runs, or one daemon of an earlier invocation.                    *)
LEMMA StartStarts == StartInit => StartInv
<1> SUFFICES ASSUME StartInit PROVE StartInv
  OBVIOUS
<1>1. stateFile \in {NoDaemon, 1} /\ lockFile = NoLock /\ newBinary = FALSE /\ faults = 0
      /\ cli = [c \in Cli |-> Quiet]
  BY DEF StartInit
<1>2. PICK showing \in BOOLEAN :
        dm = [d \in Daemon |-> IF d = stateFile
               THEN [Unborn EXCEPT !.at = "up", !.headed = showing, !.old = TRUE, !.used = TRUE,
                                   !.chromium = TRUE]
               ELSE Unborn]
  BY DEF StartInit
<1>3. 1 \in Daemon
  BY StartBounds DEF Daemon
<1>4. PICK p : p = [Unborn EXCEPT !.at = "up", !.headed = showing, !.old = TRUE, !.used = TRUE,
                                   !.chromium = TRUE]
  OBVIOUS
<1>5. p \in DaemonProcess /\ p.at = "up"
  BY <1>4 DEF Unborn, DaemonProcess
<1>6. Unborn \in DaemonProcess /\ Unborn.at = "none"
  BY DEF Unborn, DaemonProcess
<1>7. \A d \in Daemon : dm[d] = IF d = stateFile THEN p ELSE Unborn
  BY <1>2, <1>4
<1>8. dm \in [Daemon -> DaemonProcess]
  BY <1>2, <1>4, <1>5, <1>6
<1>9. DaemonTypes
  BY <1>1, <1>3, <1>5, <1>6, <1>7, <1>8 DEF DaemonTypes
<1>10. Born(stateFile)
  BY <1>1, <1>3, <1>5, <1>7 DEF Born
<1>11. LockInv
  BY <1>1 DEF LockInv
<1>12. InvocationsInv
  <2>1. cli \in [Cli -> Invocation]
    BY <1>1, QuietIsTyped
  <2>2. ASSUME NEW c \in Cli
        PROVE  Born(cli[c].seen) /\ InPlace(cli[c]) /\ KnowsDead(cli[c]) /\ AsksToKill(cli[c])
    <3>1. PICK q : q = Quiet
      OBVIOUS
    <3>2. cli[c] = q /\ q.seen = NoDaemon
      BY <1>1, <3>1, QuietIsTyped
    <3>3. q.at = "new" /\ ~q.holds
      BY <3>1 DEF Quiet
    <3>4. InPlace(q) /\ KnowsDead(q) /\ AsksToKill(q)
      BY <3>3 DEF InPlace, KnowsDead, AsksToKill, Queueing
    <3>5. Born(q.seen)
      BY <3>2 DEF Born
    <3>6. QED
      BY <3>2, <3>4, <3>5
  <2>3. QED
    BY <2>1, <2>2 DEF InvocationsInv
<1>13. QED
  BY <1>1, <1>9, <1>10, <1>11, <1>12, StartBounds DEF StartInv

(* So the lock is returned.                                                 *)
LEMMA StartInvIsSafe == StartInv => StartTypeOK /\ LockIsReturned
<1> SUFFICES ASSUME StartInv PROVE StartTypeOK /\ LockIsReturned
  OBVIOUS
<1>1. DaemonTypes /\ InvocationsInv /\ LockInv /\ faults \in 0..MaxFaults
  BY DEF StartInv
<1>2. stateFile \in Daemon \cup {NoDaemon}
  BY <1>1 DEF DaemonTypes
<1>3. \A d \in Daemon : dm[d] = Unborn \/ dm[d].at \in {"booting", "up", "busy", "closing", "dead"}
  BY <1>1 DEF DaemonTypes, DaemonProcess
<1>4. lockFile = NoLock \/ lockFile.by \in Cli
  BY <1>1 DEF LockInv, LockRecord
<1>5. ASSUME NEW c \in Cli
      PROVE  cli[c].tries \in 0..1 /\ (cli[c].holds => cli[c].at \notin {"new", "gone"})
  <2>1. cli[c] \in Invocation /\ InPlace(cli[c])
    BY <1>1 DEF InvocationsInv
  <2>2. cli[c].tries \in 0..1
    BY <2>1 DEF Invocation
  <2>3. cli[c].holds => cli[c].at \notin {"new", "gone"}
    BY <2>1 DEF InPlace, Holding
  <2>4. QED
    BY <2>2, <2>3
<1>6. StartTypeOK
  BY <1>1, <1>2, <1>3, <1>4, <1>5 DEF StartTypeOK
<1>7. LockIsReturned
  <2>1. SUFFICES ASSUME lockFile # NoLock, lockFile.live
                 PROVE  \E c \in Cli : cli[c].holds \/ In(c, "opened")
    BY DEF LockIsReturned
  <2>2. PICK c \in Cli : c = lockFile.by
    BY <1>4, <2>1
  <2>3. cli[c].holds \/ cli[c].at = "opened"
    BY <1>1, <2>1, <2>2 DEF LockInv
  <2>4. QED
    BY <2>2, <2>3 DEF In
<1>8. QED
  BY <1>6, <1>7

(* And a live daemon is killed only by consent, or if it is outdated.       *)
LEMMA KillsAreAsked ==
  StartInv => \A c \in Cli : Kills(c) /\ Live(cli[c].seen) /\ ~cli[c].switching => MayKill(c)
<1> SUFFICES ASSUME StartInv, NEW c \in Cli, Kills(c), Live(cli[c].seen), ~cli[c].switching
             PROVE  MayKill(c)
  OBVIOUS
<1>1. AsksToKill(cli[c]) /\ cli[c].at = "killing"
  BY OfOne DEF Kills, In
<1>2. QED
  BY <1>1 DEF AsksToKill, MayKill, Consents

(* However many invocations of the command line race, whatever daemons      *)
(* crash, hang, time out or are updated meanwhile: a lock file whose owner  *)
(* is alive has an owner that is still starting the daemon, and killServer  *)
(* ends a live process only with --force-restart, for a disconnect, or      *)
(* because the binary is newer, although every decision rests on a state    *)
(* file read before (cli.ts: ensureServer, acquireServerLock, killServer;   *)
(* pair-agent excepted).                                                    *)
THEOREM StartCorrectHolds == StartSpec => StartCorrect
<1>1. StartSpec => []StartInv
  BY StartStarts, StartNextKeeps, PTL DEF StartSpec
<1>2. [](StartInv => StartTypeOK /\ LockIsReturned)
  BY StartInvIsSafe, PTL
<1>3. StartInv /\ [StartNext]_startVars =>
        [\A c \in Cli : Kills(c) /\ Live(cli[c].seen) /\ ~cli[c].switching => MayKill(c)]_startVars
  BY KillsAreAsked
<1>4. QED
  BY <1>1, <1>2, <1>3, PTL DEF StartSpec, StartCorrect, NoUnaskedKill
=============================================================================
