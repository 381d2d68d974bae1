------------------------------ MODULE PtyRoutes ------------------------------
(***************************************************************************)
(* The browse server's PTY routes (/pty-session, /pty-session/reattach,    *)
(* /pty-restart and /pty-dispose in server.ts) and its lease registry      *)
(* (pty-session-lease.ts), composed with the terminal agent.               *)
(*                                                                         *)
(* Server and agent are two processes: between a route's checks and its    *)
(* reply lies an HTTP call to the agent, which may be lost, may be         *)
(* answered too late (the server gives up but the agent still does it), or *)
(* whose answer may be lost.  A request is named by the attach token it    *)
(* mints (a /pty-dispose uses up a name and mints nothing).  A lease       *)
(* expires at any moment: nothing in the source refreshes one while its    *)
(* terminal is in use.                                                     *)
(***************************************************************************)
EXTENDS TerminalAgent

VARIABLES lease,      \* lease[s]: unminted, valid or over (revoked or expired)
          op,         \* op[t]: where request t is
          sidOf,      \* the session id whose attach token is t
          oldSid,     \* the session id a restart or dispose is to end
          fresh,      \* requests that minted the lease of sidOf[t]
          granting,   \* /internal/grant calls under way
          ending,     \* /internal/restart calls under way
          ended       \* /internal/restart calls the agent has processed

routeVars == <<lease, op, sidOf, oldSid, fresh, granting, ending, ended>>
allVars == <<vars, routeVars>>

RoutesInit ==
  /\ Init
  /\ lease    = [s \in Sid |-> "unminted"]
  /\ op       = [t \in Token |-> "new"]
  /\ sidOf    = [t \in Token |-> None]
  /\ oldSid   = [t \in Token |-> None]
  /\ fresh    = {}
  /\ granting = {}
  /\ ending   = {}
  /\ ended    = {}

(* The client has been told of session id s                                 *)
Known(s) == \E t \in Token : op[t] = "replied" /\ sidOf[t] = s

(* mintLease and mintPtySessionToken, then await grantPtyToken              *)
MintAndGrant(t, s) ==
  /\ lease[s] = "unminted"
  /\ op'       = [op EXCEPT ![t] = "granting"]
  /\ sidOf'    = [sidOf EXCEPT ![t] = s]
  /\ fresh'    = fresh \cup {t}
  /\ granting' = granting \cup {t}

OpenPtySession(t, s) ==
  /\ op[t] = "new"
  /\ MintAndGrant(t, s)
  /\ lease' = [lease EXCEPT ![s] = "valid"]
  /\ UNCHANGED <<vars, oldSid, ending, ended>>

(* validateLease, then a fresh token for the same session id; anything but  *)
(* a valid lease is answered with 410                                       *)
PtyReattach(t, s) ==
  /\ op[t] = "new" /\ Known(s)
  /\ lease[s] = "valid"
  /\ op'       = [op EXCEPT ![t] = "granting"]
  /\ sidOf'    = [sidOf EXCEPT ![t] = s]
  /\ granting' = granting \cup {t}
  /\ UNCHANGED <<vars, lease, oldSid, fresh, ending, ended>>

(* Both routes first await restartPtySession(s)                             *)
EndSession(t, s, phase) ==
  /\ op[t] = "new" /\ Known(s)
  /\ op'     = [op EXCEPT ![t] = phase]
  /\ oldSid' = [oldSid EXCEPT ![t] = s]
  /\ ending' = ending \cup {t}
  /\ UNCHANGED <<vars, lease, sidOf, fresh, granting, ended>>

PtyRestart(t, s) == EndSession(t, s, "restarting")
PtyDispose(t, s) == EndSession(t, s, "disposing")

(* The await is over, whatever became of the call: revoke the old lease     *)
EndReturns(t) == ending' \in {ending, ending \ {t}}

RestartReturns(t, s) ==
  /\ op[t] = "restarting"
  /\ EndReturns(t)
  /\ MintAndGrant(t, s)
  /\ lease' = [lease EXCEPT ![oldSid[t]] = "over", ![s] = "valid"]
  /\ UNCHANGED <<vars, oldSid, ended>>

DisposeReturns(t) ==
  /\ op[t] = "disposing"
  /\ EndReturns(t)
  /\ op'    = [op EXCEPT ![t] = "disposed"]
  /\ lease' = [lease EXCEPT ![oldSid[t]] = "over"]
  /\ UNCHANGED <<vars, sidOf, oldSid, fresh, granting, ended>>

(* The agent answered ok: reply with the token                              *)
GrantReturns(t) ==
  /\ op[t] = "granting" /\ t \notin granting
  /\ op' = [op EXCEPT ![t] = "replied"]
  /\ UNCHANGED <<vars, lease, sidOf, oldSid, fresh, granting, ending, ended>>

(* No ok within two seconds: revoke what was minted and reply 503           *)
GrantFails(t) ==
  /\ op[t] = "granting"
  /\ op'    = [op EXCEPT ![t] = "failed"]
  /\ lease' = IF t \in fresh THEN [lease EXCEPT ![sidOf[t]] = "over"] ELSE lease
  /\ granting' \in {granting, granting \ {t}}
  /\ UNCHANGED <<vars, sidOf, oldSid, fresh, ending, ended>>

LeaseExpires(s) ==
  /\ lease[s] = "valid"
  /\ lease' = [lease EXCEPT ![s] = "over"]
  /\ UNCHANGED <<vars, op, sidOf, oldSid, fresh, granting, ending, ended>>

(* The agent's side of the two calls                                        *)
GrantArrives(t) ==
  /\ t \in granting
  /\ Grant(t, sidOf[t])
  /\ granting' = granting \ {t}
  /\ UNCHANGED <<lease, op, sidOf, oldSid, fresh, ending, ended>>

EndArrives(t) ==
  /\ t \in ending
  /\ Restart(oldSid[t])
  /\ ending' = ending \ {t}
  /\ ended'  = ended \cup {t}
  /\ UNCHANGED <<lease, op, sidOf, oldSid, fresh, granting>>

(* The client attaches with the tokens it was given                         *)
ClientAttaches(w, t) ==
  /\ op[t] = "replied"
  /\ Attach(w, t)
  /\ UNCHANGED routeVars

AgentStep ==
  /\ \/ \E w \in Ws : \/ \E p \in Pty : Spawn(w, p)
                      \/ SpawnFails(w)
                      \/ \E intentional \in BOOLEAN : Close(w, intentional)
     \/ TimerStep
     \/ ProcessStep
  /\ UNCHANGED routeVars

RequestStep ==
  \E t \in Token, s \in Sid : OpenPtySession(t, s) \/ PtyReattach(t, s)
                              \/ PtyRestart(t, s) \/ PtyDispose(t, s)
ReturnStep ==
  \E t \in Token : \/ \E s \in Sid : RestartReturns(t, s)
                   \/ DisposeReturns(t) \/ GrantReturns(t) \/ GrantFails(t)
ArrivalStep == \E t \in Token : GrantArrives(t) \/ EndArrives(t)

RoutesNext ==
  \/ RequestStep
  \/ ReturnStep
  \/ ArrivalStep
  \/ \E s \in Sid : LeaseExpires(s)
  \/ \E w \in Ws, t \in Token : ClientAttaches(w, t)
  \/ AgentStep

RoutesSpec == RoutesInit /\ [][RoutesNext]_allVars
-----------------------------------------------------------------------------
RoutesTypeOK ==
  /\ TypeOK
  /\ lease  \in [Sid -> {"unminted", "valid", "over"}]
  /\ op     \in [Token -> {"new", "granting", "restarting", "disposing",
                           "replied", "failed", "disposed"}]
  /\ sidOf  \in [Token -> Sid \cup {None}]
  /\ oldSid \in [Token -> Sid \cup {None}]
  /\ fresh \cup granting \cup ending \cup ended \subseteq Token

(* A token the client was given works: until it is used, neither a socket   *)
(* closing, nor a restart of its session, nor a late or repeated call takes *)
(* it away from the agent.                                                  *)
HandedTokenWorks ==
  \A t \in Token : op[t] = "replied" /\ uses[t] = {} => validTokens[t] = sidOf[t]

(* The PTY routes hand out tokens that work and lose no claude, although    *)
(* calls to the agent are late, repeated or unanswered.                     *)
RoutesSafe ==
  RoutesTypeOK /\ HandedTokenWorks /\ NoOrphanPty

(* "we kill ONLY that PTY, leaving any other live sidebar tabs untouched"   *)
(* (/internal/restart).                                                     *)
RestartIsScoped ==
  [][\A t \in ended' \ ended : \A p \in Pty :
       pty'[p] # pty[p] => session[spawner[p]].sid = oldSid[t]]_allVars
=============================================================================
