---------------------------- MODULE TerminalAgent ----------------------------
(***************************************************************************)
(* The terminal agent (terminal-agent.ts): attach tokens, WebSockets, PTY  *)
(* sessions that outlive a dropped socket, and the claude processes behind *)
(* them.                                                                   *)
(*                                                                         *)
(* A PtySession object is named by the WebSocket that created it.  Several *)
(* sockets can be bound to one object: a client that lost its connection   *)
(* attaches again before the agent has noticed that the old one is dead.   *)
(* Every handler runs to completion; closing a socket from the agent's     *)
(* side runs its close handler at once.  Sockets drop, processes exit and  *)
(* timers fire at any moment.  Grants and restarts come from the browse    *)
(* server, here at any moment; module PtyRoutes says when.                 *)
(***************************************************************************)
EXTENDS Naturals, FiniteSets

CONSTANTS Token,   \* attach tokens
          Sid,     \* session ids
          Ws,      \* WebSocket connections
          Pty,     \* claude processes that can be spawned
          None

ASSUME NoneIsFresh == None \notin Token \cup Sid \cup Ws \cup Pty
ASSUME FinitelyMany == IsFiniteSet(Ws) /\ IsFiniteSet(Pty)

VARIABLES validTokens,   \* validTokens[t]: the session id t is bound to, or None
          sessionsById,  \* sessionsById[s]: the indexed session object, or None
          ws,            \* ws[w]: unused, open or closed
          binding,       \* sessions (the WeakMap): the session object of w
          session,       \* the PtySession objects
          pty,           \* pty[p]: unborn, running, interrupted, killed or gone
          spawner,       \* spawner[p]: the session object that spawned p
          uses           \* history: the upgrades made with each token

vars == <<validTokens, sessionsById, ws, binding, session, pty, spawner, uses>>

(* timer: the handle detachTimer is armed; strays: timers still armed whose *)
(* handle was overwritten; kills: pending SIGKILL timers                    *)
PtySession == [sid : Sid \cup {None}, cookie : Token \cup {None},
               liveWs : Ws \cup {None}, proc : Pty \cup {None}, spawned : BOOLEAN,
               detached : BOOLEAN, timer : BOOLEAN,
               strays : 0..Cardinality(Ws), kills : 0..Cardinality(Pty)]

NewSession(s, t, w) ==
  [sid |-> s, cookie |-> t, liveWs |-> w, proc |-> None, spawned |-> FALSE,
   detached |-> FALSE, timer |-> FALSE, strays |-> 0, kills |-> 0]

Init ==
  /\ validTokens  = [t \in Token |-> None]
  /\ sessionsById = [s \in Sid |-> None]
  /\ ws           = [w \in Ws |-> "unused"]
  /\ binding      = [w \in Ws |-> None]
  /\ session      = [w \in Ws |-> NewSession(None, None, None)]
  /\ pty          = [p \in Pty |-> "unborn"]
  /\ spawner      = [p \in Pty |-> None]
  /\ uses         = [t \in Token |-> {}]
-----------------------------------------------------------------------------
(* Variants named ...Without... or Never... are plausible mistakes in the   *)
(* definition that follows them; no specification uses them.                *)

(* disposeSession(o): close the terminal, SIGINT, arm the SIGKILL timer,    *)
(* and forget the process at once                                           *)
DisposedWithoutPidCheck(o) ==
  [session EXCEPT ![o].kills = @ + 1, ![o].proc = None, ![o].spawned = FALSE]

Disposed(o) ==
  [session EXCEPT ![o].kills = IF session[o].proc = None THEN @ ELSE @ + 1,
                  ![o].proc = None, ![o].spawned = FALSE]

Interrupted(o, ptys) ==
  [p \in Pty |-> IF p = session[o].proc /\ ptys[p] = "running" THEN "interrupted"
                 ELSE ptys[p]]

(* Mark detached and start the disposal timer; an armed one is overwritten  *)
DetachedWithoutTimer(o) ==
  [session EXCEPT ![o].detached = TRUE, ![o].liveWs = None]

Detached(o) ==
  [session EXCEPT ![o].detached = TRUE, ![o].liveWs = None, ![o].timer = TRUE,
                  ![o].strays = IF session[o].timer THEN @ + 1 ELSE @]

(* The token dropped by a close is the session's current one                *)
TokensWithoutSession(o) ==
  [t \in Token |-> IF validTokens[t] = session[o].sid THEN None ELSE validTokens[t]]

TokensAfterClose(o) == [validTokens EXCEPT ![session[o].cookie] = None]

NeverUnindexed(o) == sessionsById

Unindexed(o) == [sessionsById EXCEPT ![session[o].sid] = None]

(* The close handler for socket w, when the processes are as `ptys` says    *)
OnClose(w, intentional, ptys) ==
  LET o == binding[w] IN
  /\ ws'          = [ws EXCEPT ![w] = "closed"]
  /\ binding'     = [binding EXCEPT ![w] = None]
  /\ validTokens' = TokensAfterClose(o)
  /\ \/ /\ intentional
        /\ session'      = Disposed(o)
        /\ pty'          = Interrupted(o, ptys)
        /\ sessionsById' = Unindexed(o)
     \/ /\ ~intentional
        /\ session' = Detached(o)
        /\ pty'     = ptys
        /\ UNCHANGED sessionsById
  /\ UNCHANGED <<spawner, uses>>
-----------------------------------------------------------------------------
(* POST /internal/grant                                                     *)
Grant(t, s) ==
  /\ validTokens' = [validTokens EXCEPT ![t] = s]
  /\ UNCHANGED <<sessionsById, ws, binding, session, pty, spawner, uses>>

(* POST /internal/restart: cancel the detach timer, dispose, unindex        *)
RestartWithoutScope(s) ==
  LET o == sessionsById[s] IN
  IF o = None THEN UNCHANGED vars
  ELSE /\ session'      = [Disposed(o) EXCEPT ![o].timer = FALSE]
       /\ pty'          = [p \in Pty |-> IF pty[p] = "running" THEN "interrupted" ELSE pty[p]]
       /\ sessionsById' = [sessionsById EXCEPT ![s] = None]
       /\ UNCHANGED <<validTokens, ws, binding, spawner, uses>>

Restart(s) ==
  LET o == sessionsById[s] IN
  IF o = None THEN UNCHANGED vars
  ELSE /\ session'      = [Disposed(o) EXCEPT ![o].timer = FALSE]
       /\ pty'          = Interrupted(o, pty)
       /\ sessionsById' = [sessionsById EXCEPT ![s] = None]
       /\ UNCHANGED <<validTokens, ws, binding, spawner, uses>>

(* GET /ws with token t, and the open handler: join the indexed session of  *)
(* the token's session id, or start a new one                               *)
Attach(w, t) ==
  LET s == validTokens[t]
      o == sessionsById[s]
  IN
  /\ ws[w] = "unused"
  /\ s # None
  /\ ws'   = [ws EXCEPT ![w] = "open"]
  /\ uses' = [uses EXCEPT ![t] = @ \cup {w}]
  /\ \/ /\ o # None
        /\ binding' = [binding EXCEPT ![w] = o]
        /\ session' = [session EXCEPT ![o].detached = FALSE, ![o].timer = FALSE,
                                      ![o].liveWs = w, ![o].cookie = t]
        /\ UNCHANGED sessionsById
     \/ /\ o = None
        /\ binding'      = [binding EXCEPT ![w] = w]
        /\ session'      = [session EXCEPT ![w] = NewSession(s, t, w)]
        /\ sessionsById' = [sessionsById EXCEPT ![s] = w]
  /\ UNCHANGED <<validTokens, pty, spawner>>

(* A {type:"start"} frame or a keystroke: maybeSpawnPty                     *)
Spawn(w, p) ==
  LET o == binding[w] IN
  /\ ws[w] = "open" /\ ~session[o].spawned
  /\ pty[p] = "unborn"
  /\ pty'     = [pty EXCEPT ![p] = "running"]
  /\ spawner' = [spawner EXCEPT ![p] = o]
  /\ session' = [session EXCEPT ![o].spawned = TRUE, ![o].proc = p]
  /\ UNCHANGED <<validTokens, sessionsById, ws, binding, uses>>

(* claude is not on PATH: error frame, close(4404)                          *)
SpawnFails(w) ==
  /\ ws[w] = "open" /\ ~session[binding[w]].spawned
  /\ OnClose(w, TRUE, pty)

(* The peer closes: 4001 or 1000 on purpose, anything else a lost socket    *)
Close(w, intentional) ==
  /\ ws[w] = "open"
  /\ OnClose(w, intentional, pty)

(* A detach timer fires: the current one or a stray                         *)
DetachTimerWithoutDispose(o) ==
  /\ \/ session[o].timer /\ session' = [session EXCEPT ![o].timer = FALSE]
     \/ session[o].strays > 0 /\ session' = [session EXCEPT ![o].strays = @ - 1]
  /\ sessionsById' = Unindexed(o)
  /\ UNCHANGED <<validTokens, ws, binding, pty, spawner, uses>>

DetachTimer(o) ==
  LET disposal == session[o].detached
      after    == IF disposal THEN Disposed(o) ELSE session
  IN
  /\ \/ session[o].timer /\ session' = [after EXCEPT ![o].timer = FALSE]
     \/ session[o].strays > 0 /\ session' = [after EXCEPT ![o].strays = @ - 1]
  /\ pty' = IF disposal THEN Interrupted(o, pty) ELSE pty
  /\ sessionsById' = IF disposal THEN Unindexed(o) ELSE sessionsById
  /\ UNCHANGED <<validTokens, ws, binding, spawner, uses>>

(* The SIGKILL timer looks at session.proc as it is when it fires           *)
KillTimer(o) ==
  /\ session[o].kills > 0
  /\ session' = [session EXCEPT ![o].kills = @ - 1]
  /\ pty' = [p \in Pty |-> IF p = session[o].proc /\ pty[p] = "running" THEN "killed"
                           ELSE pty[p]]
  /\ UNCHANGED <<validTokens, sessionsById, ws, binding, spawner, uses>>

(* A process exits; proc.exited then closes the session's live socket       *)
PtyExits(p) ==
  LET live == session[spawner[p]].liveWs
      ptys == [pty EXCEPT ![p] = "gone"]
  IN
  /\ pty[p] \in {"running", "interrupted", "killed"}
  /\ IF live # None /\ ws[live] = "open" THEN OnClose(live, TRUE, ptys)
     ELSE /\ pty' = ptys
          /\ UNCHANGED <<validTokens, sessionsById, ws, binding, session, spawner, uses>>

SocketStep ==
  \E w \in Ws : \/ \E t \in Token : Attach(w, t)
                \/ \E p \in Pty : Spawn(w, p)
                \/ SpawnFails(w)
                \/ \E intentional \in BOOLEAN : Close(w, intentional)

TimerStep == \E o \in Ws : DetachTimer(o) \/ KillTimer(o)
ProcessStep == \E p \in Pty : PtyExits(p)

(* Each token is granted once, when it has just been minted                 *)
ServerStep ==
  \/ \E t \in Token, s \in Sid : validTokens[t] = None /\ uses[t] = {} /\ Grant(t, s)
  \/ \E s \in Sid : Restart(s)

Next == SocketStep \/ TimerStep \/ ProcessStep \/ ServerStep
Spec == Init /\ [][Next]_vars

(* Timers fire, and a process that got SIGKILL dies.  Sockets need not      *)
(* close and a process may ignore SIGINT.                                   *)
Fairness ==
  /\ \A o \in Ws : WF_vars(DetachTimer(o)) /\ WF_vars(KillTimer(o))
  /\ \A p \in Pty : WF_vars(pty[p] = "killed" /\ PtyExits(p))

FairSpec == Spec /\ Fairness
-----------------------------------------------------------------------------
TypeOK ==
  /\ validTokens  \in [Token -> Sid \cup {None}]
  /\ sessionsById \in [Sid -> Ws \cup {None}]
  /\ ws           \in [Ws -> {"unused", "open", "closed"}]
  /\ binding      \in [Ws -> Ws \cup {None}]
  /\ session      \in [Ws -> PtySession]
  /\ pty          \in [Pty -> {"unborn", "running", "interrupted", "killed", "gone"}]
  /\ spawner      \in [Pty -> Ws \cup {None}]
  /\ uses         \in [Token -> SUBSET Ws]

Attached(o) == \E w \in Ws : ws[w] = "open" /\ binding[w] = o
Expiring(o) == session[o].detached /\ (session[o].timer \/ session[o].strays > 0)

(* A running claude is always somebody's: its session object still refers   *)
(* to it and either has an open socket or waits, detached, for a timer that *)
(* will dispose it.  No mix of overlapping sockets, restarts and timers     *)
(* leaves a process that nothing will ever clean up.                        *)
NoOrphanPty ==
  \A p \in Pty : pty[p] = "running" =>
    LET o == spawner[p] IN
    /\ session[o].proc = p
    /\ Attached(o) \/ Expiring(o)

(* A session without sockets is cleaned up: its running claude is signalled *)
(* or a client comes back (DETACH_WINDOW_MS).                               *)
AbandonedPtyDisposed ==
  \A p \in Pty :
    (pty[p] = "running" /\ ~Attached(spawner[p]))
      ~> (pty[p] # "running" \/ Attached(spawner[p]))

(* The index never leaks: an indexed session has an open socket or a timer  *)
(* that will unindex it.                                                    *)
IndexNotLeaked ==
  \A s \in Sid : sessionsById[s] # None =>
    LET o == sessionsById[s] IN
    Attached(o) \/ Expiring(o)

(* Neither a claude nor an entry of sessionsById is left to nobody.         *)
AgentSafe ==
  TypeOK /\ NoOrphanPty /\ IndexNotLeaked

(* A client that attaches once with each token, as the lease registry means *)
(* it ("ONE attach attempt"); the agent does not enforce it.                *)
TokenSingleUse == \A t \in Token : Cardinality(uses[t]) <= 1

(* "when a new WS upgrade matches this session's sessionId, the old liveWs  *)
(* is gone and the new ws takes its place" (liveWs): nothing an older       *)
(* socket does can detach a session from the client that re-attached with a *)
(* fresh token.                                                             *)
AttachedIsNotDetached ==
  TokenSingleUse => \A w \in Ws : ws[w] = "open" => ~session[binding[w]].detached
=============================================================================
