---------------------------- MODULE SocksBridge -----------------------------
(***************************************************************************)
(* The local SOCKS5 bridge (socks-bridge.ts): every connection of the      *)
(* browser goes through greeting, connect, connecting and piped; frames    *)
(* may arrive in pieces or run into one another, and bytes that come early *)
(* are replayed to the upstream socket before the two are piped.           *)
(***************************************************************************)
EXTENDS Naturals, Sequences

CONSTANTS Conn, MaxBytes

ASSUME BytesBounded == MaxBytes \in Nat

VARIABLES conn,   \* per connection: state, both sockets, buffer, what went upstream
          bridge  \* the bridge accepts connections

socksVars == <<conn, bridge>>

(* A client sends a greeting "g", a request "c" and then payload, in order; *)
(* sent counts how much of that has arrived                                 *)
None == [state |-> "none", client |-> "none", upstream |-> "none", buf |-> <<>>, sent |-> 0,
         paused |-> FALSE, up |-> <<>>, reply |-> "none"]
Byte(n) == CASE n = 1 -> "g" [] n = 2 -> "c" [] OTHER -> n

SocksInit == conn = [c \in Conn |-> None] /\ bridge = TRUE

Set(c, r) == conn' = [conn EXCEPT ![c] = r] /\ UNCHANGED bridge

Accepts(c) ==
  /\ bridge /\ conn[c].state = "none"
  /\ Set(c, [None EXCEPT !.state = "greeting", !.client = "open"])

(* killBoth                                                                 *)
ConnKilled(r) ==
  [r EXCEPT !.state = "closed", !.client = "gone",
            !.upstream = IF @ = "open" THEN "gone" ELSE @]

(* onData: what the buffer allows; a greeting may be followed by the        *)
(* request in the same chunk, and the request by payload                    *)
Handled(r) ==
  LET greeted == IF r.state = "greeting" /\ r.buf # <<>>
                 THEN [r EXCEPT !.state = "connect", !.buf = Tail(@)] ELSE r
  IN IF greeted.state = "connect" /\ greeted.buf # <<>>
     THEN [greeted EXCEPT !.state = "connecting", !.paused = TRUE, !.buf = Tail(@)] ELSE greeted

(* A chunk of one or two items; a malformed frame kills the connection      *)
Data(c) ==
  LET r == conn[c] IN
  /\ r.client = "open" /\ ~r.paused /\ r.state \in {"greeting", "connect"}
  /\ \E k \in 1..3 :
       /\ r.sent + k <= MaxBytes
       /\ LET chunk == [i \in 1..k |-> Byte(r.sent + i)]
          IN \/ Set(c, Handled([r EXCEPT !.buf = @ \o chunk, !.sent = @ + k]))
             \/ Set(c, ConnKilled(r))

(* The upstream proxy answers: nothing is wired to a connection that        *)
(* closed.  Variants named ...Without... are plausible mistakes in the      *)
(* definition that follows them; no specification uses them.                *)
UpstreamOpensWithoutCheck(c) ==
  LET r == conn[c] IN
  /\ r.paused /\ r.upstream = "none"
  /\ Set(c, [r EXCEPT !.state = "piped", !.upstream = "open", !.up = @ \o r.buf, !.buf = <<>>,
                      !.paused = FALSE, !.reply = "success"])

UpstreamOpensWithoutReplay(c) ==
  LET r == conn[c] IN
  /\ r.paused /\ r.upstream = "none"
  /\ IF r.state = "closed"
     THEN Set(c, [r EXCEPT !.upstream = "gone", !.paused = FALSE])
     ELSE Set(c, [r EXCEPT !.state = "piped", !.upstream = "open", !.buf = <<>>,
                           !.paused = FALSE, !.reply = "success"])

UpstreamOpens(c) ==
  LET r == conn[c] IN
  /\ r.paused /\ r.upstream = "none"
  /\ IF r.state = "closed"
     THEN Set(c, [r EXCEPT !.upstream = "gone", !.paused = FALSE])
     ELSE Set(c, [r EXCEPT !.state = "piped", !.upstream = "open", !.up = @ \o r.buf, !.buf = <<>>,
                           !.paused = FALSE, !.reply = "success"])

UpstreamRefuses(c) ==
  LET r == conn[c] IN
  /\ r.paused /\ r.upstream = "none"
  /\ Set(c, ConnKilled([r EXCEPT !.reply = "unreachable", !.paused = FALSE, !.upstream = "gone"]))

(* Bytes through the pipe                                                   *)
Pipes(c) ==
  LET r == conn[c] IN
  /\ r.state = "piped" /\ r.client = "open" /\ r.upstream = "open" /\ r.sent < MaxBytes
  /\ Set(c, [r EXCEPT !.sent = @ + 1, !.up = Append(@, Byte(r.sent + 1))])

HandshakeTimeout(c) ==
  /\ conn[c].state \in {"greeting", "connect", "connecting"}
  /\ Set(c, ConnKilled(conn[c]))

(* A reset of the client is an error at any time; an end is only seen while *)
(* the socket is read, and the pipe hands it on to the upstream             *)
ClientResets(c) ==
  /\ conn[c].client = "open"
  /\ Set(c, ConnKilled(conn[c]))

ClientEnds(c) ==
  LET r == conn[c] IN
  /\ r.client = "open" /\ ~r.paused
  /\ Set(c, [r EXCEPT !.client = "gone", !.state = IF @ = "piped" THEN @ ELSE "ended",
                      !.upstream = IF r.state = "piped" THEN "gone" ELSE @])

UpstreamFails(c) ==
  LET r == conn[c] IN
  /\ r.upstream = "open"
  /\ Set(c, ConnKilled([r EXCEPT !.upstream = "gone"]))

ConnStep(c) ==
  \/ Accepts(c) \/ Data(c) \/ UpstreamOpens(c) \/ UpstreamRefuses(c) \/ Pipes(c)
  \/ HandshakeTimeout(c) \/ ClientResets(c) \/ ClientEnds(c) \/ UpstreamFails(c)

(* close: the client sockets are destroyed; a destroyed source does not end *)
(* the other side of its pipe                                               *)
Close ==
  /\ bridge /\ bridge' = FALSE
  /\ conn' = [c \in Conn |-> IF conn[c].client = "open" THEN [conn[c] EXCEPT !.client = "gone"] ELSE conn[c]]

SocksNext == Close \/ \E c \in Conn : ConnStep(c)

SocksSpec == SocksInit /\ [][SocksNext]_socksVars
-----------------------------------------------------------------------------
SocksTypeOK ==
  \A c \in Conn :
    /\ conn[c].state \in {"none", "greeting", "connect", "connecting", "piped", "closed", "ended"}
    /\ conn[c].client \in {"none", "open", "gone"} /\ conn[c].upstream \in {"none", "open", "gone"}
    /\ Len(conn[c].up) <= MaxBytes

(* The server gets the client's bytes and nothing else: what went upstream  *)
(* is the payload from its first byte on, whatever pieces it came in.       *)
PayloadIsWhole ==
  \A c \in Conn : \A i \in DOMAIN conn[c].up : conn[c].up[i] = i + 2

(* A pair of sockets dies together: as long as the bridge runs, no upstream *)
(* connection stays open whose client is gone.                              *)
UpstreamNotLeaked ==
  bridge => \A c \in Conn : conn[c].upstream = "open" => conn[c].client = "open"

(* The SOCKS bridge passes on a connection whole, and ends both its halves. *)
SocksSafe ==
  SocksTypeOK /\ PayloadIsWhole /\ UpstreamNotLeaked
=============================================================================
