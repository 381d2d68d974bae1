---------------------------- MODULE TokenRegistry ----------------------------
(***************************************************************************)
(* The scoped tokens of token-registry.ts and the server routes that       *)
(* change them: POST /pair, POST /connect, POST /token, DELETE /token and  *)
(* the commands run with a session token.  Every one of them touches the   *)
(* registry in one synchronous stretch, so each is one step.               *)
(*                                                                         *)
(* A grant (scopes, domains, rate limit, tab policy) is a set of           *)
(* capabilities; grantReducesAccess asks whether the new set omits one.    *)
(***************************************************************************)
CONSTANTS Key,      \* token strings, each minted at most once
          Client,
          Cap,      \* capabilities
          None

ASSUME NoneIsNoKey == None \notin Key

Grant == (SUBSET Cap) \ {{}}

VARIABLES minted,     \* token strings generated so far
          tokens,     \* keys of the map `tokens`
          type,       \* setup or session
          clientId,
          grant,
          spent,      \* setup keys with usesRemaining = 0
          issued,     \* issuedSessionToken of a setup key
          used,       \* session tokens with commandCount > 0
          expired,    \* tokens whose expiresAt has passed
          allowed,    \* history: what the operator last granted each client
          answers     \* history: sessions /connect returned for each key

vars == <<minted, tokens, type, clientId, grant, spent, issued, used, expired,
          allowed, answers>>

Init ==
  /\ minted = {} /\ tokens = {}
  /\ spent = {} /\ used = {} /\ expired = {}
  /\ type     = [k \in Key |-> "none"]
  /\ clientId = [k \in Key |-> None]
  /\ grant    = [k \in Key |-> {}]
  /\ issued   = [k \in Key |-> None]
  /\ allowed  = [c \in Client |-> {}]
  /\ answers  = [k \in Key |-> {}]
-----------------------------------------------------------------------------
SessionsOf(c)  == {k \in tokens : clientId[k] = c /\ type[k] = "session"}
LiveSession(c) == SessionsOf(c) \ expired
PendingOf(c)   == {k \in tokens : clientId[k] = c /\ type[k] = "setup"} \ spent
TokensOf(c)    == {k \in tokens : clientId[k] = c}

Reduces(prior, g) == ~(prior \subseteq g)

(* Variants named ...Without... or Always... are plausible mistakes in the  *)
(* definition that follows them; no specification uses them.                *)

MintWithoutClient(k, ty, c, g, kept) ==
  /\ k \notin minted
  /\ minted' = minted \cup {k}
  /\ tokens' = kept \cup {k}
  /\ type'   = [type EXCEPT ![k] = ty]
  /\ grant'  = [grant EXCEPT ![k] = g]
  /\ UNCHANGED clientId

(* A new map entry, `kept` being what stays of the old ones                 *)
Mint(k, ty, c, g, kept) ==
  /\ k \notin minted
  /\ minted'   = minted \cup {k}
  /\ tokens'   = kept \cup {k}
  /\ type'     = [type EXCEPT ![k] = ty]
  /\ clientId' = [clientId EXCEPT ![k] = c]
  /\ grant'    = [grant EXCEPT ![k] = g]

(* createToken deletes the first session of the client it finds             *)
WithoutOneSession(c) ==
  IF SessionsOf(c) = {} THEN {tokens} ELSE {tokens \ {k} : k \in SessionsOf(c)}

CreateTokenWithoutDelete(k, c, g) == Mint(k, "session", c, g, tokens)

CreateToken(k, c, g) ==
  \E kept \in WithoutOneSession(c) : Mint(k, "session", c, g, kept)

(* What POST /pair removes before it mints: everything if a live session    *)
(* loses something, the pending setup keys otherwise                        *)
SupersededWithoutPending(c, g) ==
  IF \E s \in LiveSession(c) : Reduces(grant[s], g) THEN TokensOf(c) ELSE {}

AlwaysSuperseded(c, g) == TokensOf(c)

Superseded(c, g) ==
  IF \E s \in LiveSession(c) : Reduces(grant[s], g) THEN TokensOf(c) ELSE PendingOf(c)

Pair(k, c, g) ==
  /\ Mint(k, "setup", c, g, tokens \ Superseded(c, g))
  /\ allowed' = [allowed EXCEPT ![c] = g]
  /\ UNCHANGED <<spent, issued, used, expired, answers>>

(* POST /connect (exchangeSetupKey) with an unspent key: a fresh session    *)
ConnectWithoutSpending(k, n) ==
  /\ k \in tokens \ (spent \cup expired) /\ type[k] = "setup"
  /\ CreateToken(n, clientId[k], grant[k])
  /\ issued'  = [issued EXCEPT ![k] = n]
  /\ answers' = [answers EXCEPT ![k] = @ \cup {n}]
  /\ UNCHANGED <<spent, used, expired, allowed>>

Connect(k, n) ==
  /\ k \in tokens \ (spent \cup expired) /\ type[k] = "setup"
  /\ CreateToken(n, clientId[k], grant[k])
  /\ spent'   = spent \cup {k}
  /\ issued'  = [issued EXCEPT ![k] = n]
  /\ answers' = [answers EXCEPT ![k] = @ \cup {n}]
  /\ UNCHANGED <<used, expired, allowed>>

(* The same key again: the same session, while it has run no command        *)
Reconnect(k) ==
  /\ k \in (tokens \cap spent) \ expired
  /\ issued[k] \in tokens \ used
  /\ answers' = [answers EXCEPT ![k] = @ \cup {issued[k]}]
  /\ UNCHANGED <<minted, tokens, type, clientId, grant, spent, issued, used, expired, allowed>>

(* POST /token, and mintSkillToken: setup keys of the client stay           *)
PostToken(n, c, g) ==
  /\ CreateToken(n, c, g)
  /\ allowed' = [allowed EXCEPT ![c] = @ \cup g]
  /\ UNCHANGED <<spent, issued, used, expired, answers>>

(* DELETE /token/:clientId                                                  *)
RevokeToken(c) ==
  /\ tokens'  = tokens \ TokensOf(c)
  /\ allowed' = [allowed EXCEPT ![c] = {}]
  /\ UNCHANGED <<minted, type, clientId, grant, spent, issued, used, expired, answers>>

(* A command with a session token: validateToken, recordCommand             *)
Command(s) ==
  /\ s \in tokens \ expired /\ type[s] = "session"
  /\ used' = used \cup {s}
  /\ UNCHANGED <<minted, tokens, type, clientId, grant, spent, issued, expired, allowed, answers>>

(* expiresAt passes.  A session outlives the key it was issued for: 24      *)
(* hours against 5 minutes.                                                 *)
Expire(k) ==
  /\ k \in tokens \ expired
  /\ \A p \in tokens : issued[p] = k => p \in expired
  /\ expired' = expired \cup {k}
  /\ UNCHANGED <<minted, tokens, type, clientId, grant, spent, issued, used, allowed, answers>>

(* validateToken, exchangeSetupKey or listTokens comes across it            *)
DropExpired(k) ==
  /\ k \in tokens \cap expired
  /\ tokens' = tokens \ {k}
  /\ UNCHANGED <<minted, type, clientId, grant, spent, issued, used, expired, allowed, answers>>

Next ==
  \/ \E k \in Key, c \in Client, g \in Grant : Pair(k, c, g) \/ PostToken(k, c, g)
  \/ \E k, n \in Key : Connect(k, n)
  \/ \E k \in Key : Reconnect(k) \/ Command(k) \/ Expire(k) \/ DropExpired(k)
  \/ \E c \in Client : RevokeToken(c)

Spec == Init /\ [][Next]_vars
-----------------------------------------------------------------------------
(* Every registered token has a client and a kind                           *)
Held == \A k \in tokens : clientId[k] \in Client /\ type[k] \in {"setup", "session"}

TypeOK ==
  /\ Held
  /\ tokens \subseteq minted /\ minted \subseteq Key
  /\ type     \in [Key -> {"none", "setup", "session"}]
  /\ clientId \in [Key -> Client \cup {None}]
  /\ grant    \in [Key -> SUBSET Cap]
  /\ spent \subseteq Key /\ used \subseteq Key /\ expired \subseteq Key
  /\ issued   \in [Key -> Key \cup {None}]
  /\ allowed  \in [Client -> SUBSET Cap]
  /\ answers  \in [Key -> SUBSET Key]

(* Live sessions and setup keys that can still be exchanged                 *)
Usable == {k \in tokens \ expired : type[k] = "session" \/ k \notin spent}

(* "a re-pair supersedes prior grants ... so a superseded broad key can     *)
(* never be exchanged" (/pair), and a revoked client has nothing left       *)
(* (revokeToken): no session and no exchangeable key confers more than the  *)
(* operator last granted its client.                                        *)
WithinGrant == \A k \in Usable : grant[k] \subseteq allowed[clientId[k]]

(* A client never has two sessions, whatever mix of pairing, exchange and   *)
(* direct minting produced them: createToken deletes only the first.        *)
OneSessionPerClient == \A c \in Client : \A s, t \in SessionsOf(c) : s = t

(* A setup key gives one session however often it is presented ("handles    *)
(* tunnel drops").                                                          *)
OneSessionPerKey == \A k \in Key : \A s, t \in answers[k] : s = t

(* The registry gives a client one session and no more than its operator    *)
(* last granted, and a setup key one session, in every order of pairing,    *)
(* exchange, minting, revocation and expiry.                                *)
RegistrySafe ==
  TypeOK /\ WithinGrant /\ OneSessionPerClient /\ OneSessionPerKey

(* "a broaden/refresh never strands a working agent mid-task" (/pair): a    *)
(* live session goes away only when another replaces it, or when it had     *)
(* more than its client is now allowed.                                     *)
NoNeedlessLogout ==
  [][\A c \in Client : \A s \in LiveSession(c) :
       s \notin tokens' => \/ LiveSession(c)' # {}
                           \/ Reduces(grant[s], allowed'[c])]_vars
=============================================================================
