---------------------------- MODULE AccessProofs ----------------------------
(***************************************************************************)
(* What the daemon hands out and what it keeps on disk, for any clients,   *)
(* tokens, tabs, stores, notes and skill names: the token registry, the    *)
(* grants of a command, the notes about sites (domain skills), the skill   *)
(* directories (browser skills) and the cookie and lease stores.           *)
(*                                                                         *)
(* The registry first.  Inv is inductive: besides the properties           *)
(* themselves it says that /connect only ever answers with the session     *)
(* recorded in the key, and with none before the key is spent (Recorded).  *)
(***************************************************************************)
EXTENDS TokenRegistry, AccessLimits, Skills, SequenceTheorems, FiniteSetTheorems,
        WellFoundedInduction, TLAPS

Recorded ==
  \A k \in Key : /\ answers[k] \subseteq {issued[k]}
                 /\ k \notin spent => answers[k] = {}

Inv == TypeOK /\ Recorded /\ OneSessionPerClient /\ WithinGrant

(* The registry starts empty: the invariant holds.                          *)
LEMMA InitInv == Init => Inv
BY DEF Init, Inv, TypeOK, Held, Recorded, OneSessionPerClient, WithinGrant,
       SessionsOf, Usable

(* createToken leaves the client with the new session only: the one it      *)
(* deletes is the only one there was.                                       *)
LEMMA CreateTokenKeepsOthers ==
  ASSUME Inv, NEW n \in Key, NEW c \in Client, NEW g, CreateToken(n, c, g)
  PROVE  /\ n \notin minted /\ minted' = minted \cup {n}
         /\ tokens' = (tokens \ SessionsOf(c)) \cup {n}
         /\ type' = [type EXCEPT ![n] = "session"]
         /\ clientId' = [clientId EXCEPT ![n] = c]
         /\ grant' = [grant EXCEPT ![n] = g]
<1>1. PICK kept \in WithoutOneSession(c) : Mint(n, "session", c, g, kept)
  BY DEF CreateToken
<1>2. kept = tokens \ SessionsOf(c)
  <2>1. CASE SessionsOf(c) = {}
    BY <2>1 DEF WithoutOneSession
  <2>2. CASE SessionsOf(c) # {}
    <3>1. PICK k \in SessionsOf(c) : kept = tokens \ {k}
      BY <2>2, kept \in WithoutOneSession(c) DEF WithoutOneSession
    <3>2. SessionsOf(c) = {k}
      BY <3>1 DEF Inv, OneSessionPerClient
    <3> QED BY <3>1, <3>2
  <2> QED BY <2>1, <2>2
<1> QED BY <1>1, <1>2 DEF Mint

(* Every step keeps the entries well typed, and /connect consistent.        *)
LEMMA TypeStep == Inv /\ [Next]_vars => TypeOK' /\ Recorded'
<1> SUFFICES ASSUME Inv, [Next]_vars PROVE TypeOK' /\ Recorded'
  OBVIOUS
<1> USE DEF Inv, TypeOK, Held, Recorded
<1>1. ASSUME NEW k \in Key, NEW c \in Client, NEW g \in Grant, Pair(k, c, g)
      PROVE  TypeOK' /\ Recorded'
  BY <1>1 DEF Pair, Mint, Grant
<1>2. ASSUME NEW k \in Key, NEW c \in Client, NEW g \in Grant, PostToken(k, c, g)
      PROVE  TypeOK' /\ Recorded'
  BY <1>2, CreateTokenKeepsOthers DEF PostToken, Grant
<1>3. ASSUME NEW k \in Key, NEW n \in Key, Connect(k, n)
      PROVE  TypeOK' /\ Recorded'
  BY <1>3 DEF Connect, CreateToken, Mint, WithoutOneSession
<1>4. ASSUME NEW k \in Key, Reconnect(k) \/ Command(k) \/ Expire(k) \/ DropExpired(k)
      PROVE  TypeOK' /\ Recorded'
  BY <1>4 DEF Reconnect, Command, Expire, DropExpired
<1>5. ASSUME NEW c \in Client, RevokeToken(c)
      PROVE  TypeOK' /\ Recorded'
  BY <1>5 DEF RevokeToken
<1>6. CASE UNCHANGED vars
  BY <1>6 DEF vars
<1> QED BY <1>1, <1>2, <1>3, <1>4, <1>5, <1>6 DEF Next

(* A client keeps at most one session: minting one removes the other.       *)
LEMMA OneSessionStep == Inv /\ [Next]_vars => OneSessionPerClient'
<1> SUFFICES ASSUME Inv, [Next]_vars PROVE OneSessionPerClient'
  OBVIOUS
<1> USE DEF Inv, TypeOK
<1>1. ASSUME NEW k \in Key, NEW c \in Client, NEW g \in Grant, Pair(k, c, g)
      PROVE  OneSessionPerClient'
  BY <1>1 DEF Pair, Mint, OneSessionPerClient, SessionsOf
<1>2. ASSUME NEW n \in Key, NEW c \in Client, NEW g, CreateToken(n, c, g)
      PROVE  OneSessionPerClient'
  <2>1. \A d \in Client \ {c} : SessionsOf(d)' \subseteq SessionsOf(d)
    BY <1>2, CreateTokenKeepsOthers DEF SessionsOf
  <2>2. SessionsOf(c)' \subseteq {n}
    BY <1>2, CreateTokenKeepsOthers DEF SessionsOf
  <2> QED BY <2>1, <2>2 DEF OneSessionPerClient
<1>3. ASSUME NEW k \in Key, NEW c \in Client, NEW g \in Grant, PostToken(k, c, g)
      PROVE  OneSessionPerClient'
  BY <1>2, <1>3 DEF PostToken
<1>4. ASSUME NEW k \in Key, NEW n \in Key, Connect(k, n)
      PROVE  OneSessionPerClient'
  BY <1>2, <1>4 DEF Connect, Held
<1>5. ASSUME UNCHANGED <<type, clientId>>, tokens' \subseteq tokens
      PROVE  OneSessionPerClient'
  BY <1>5 DEF OneSessionPerClient, SessionsOf
<1>6. ASSUME NEW k \in Key, Reconnect(k) \/ Command(k) \/ Expire(k) \/ DropExpired(k)
      PROVE  OneSessionPerClient'
  BY <1>5, <1>6 DEF Reconnect, Command, Expire, DropExpired
<1>7. ASSUME NEW c \in Client, RevokeToken(c)
      PROVE  OneSessionPerClient'
  BY <1>5, <1>7 DEF RevokeToken
<1>8. CASE UNCHANGED vars
  BY <1>5, <1>8 DEF vars
<1> QED BY <1>1, <1>3, <1>4, <1>6, <1>7, <1>8 DEF Next

(* No step leaves a client with more than it was last granted.  The case    *)
(* that matters is POST /pair: what it keeps is a session that loses        *)
(* nothing, or a key that can no longer be exchanged.                       *)
LEMMA WithinGrantStep == Inv /\ [Next]_vars => WithinGrant'
<1> SUFFICES ASSUME Inv, [Next]_vars PROVE WithinGrant'
  OBVIOUS
<1> USE DEF Inv, TypeOK
<1>1. ASSUME NEW k \in Key, NEW c \in Client, NEW g \in Grant, Pair(k, c, g)
      PROVE  WithinGrant'
  <2> SUFFICES ASSUME NEW u \in Usable' PROVE grant'[u] \subseteq allowed'[clientId'[u]]
    BY DEF WithinGrant
  <2>1. /\ tokens' = (tokens \ Superseded(c, g)) \cup {k} /\ k \notin tokens
        /\ type' = [type EXCEPT ![k] = "setup"] /\ clientId' = [clientId EXCEPT ![k] = c]
        /\ grant' = [grant EXCEPT ![k] = g] /\ allowed' = [allowed EXCEPT ![c] = g]
        /\ spent' = spent /\ expired' = expired
    BY <1>1 DEF Pair, Mint
  <2>2. CASE u = k
    BY <2>1, <2>2
  <2>3. CASE u # k /\ clientId[u] # c
    BY <2>1, <2>3 DEF Usable, WithinGrant, Held
  <2>4. CASE u # k /\ clientId[u] = c
    <3>1. u \in Usable /\ u \notin Superseded(c, g)
      BY <2>1, <2>4 DEF Usable
    <3>2. type[u] = "session" /\ ~\E s \in LiveSession(c) : Reduces(grant[s], g)
      BY <2>1, <2>4, <3>1 DEF Superseded, TokensOf, PendingOf, Usable, Held
    <3>3. u \in LiveSession(c)
      BY <2>4, <3>1, <3>2 DEF LiveSession, SessionsOf, Usable
    <3> QED BY <2>1, <2>4, <3>1, <3>2, <3>3 DEF Reduces, Usable
  <2> QED BY <2>2, <2>3, <2>4
<1>2. ASSUME NEW k \in Key, NEW c \in Client, NEW g \in Grant, PostToken(k, c, g)
      PROVE  WithinGrant'
  BY <1>2, CreateTokenKeepsOthers DEF PostToken, WithinGrant, Usable, Held
<1>3. ASSUME NEW k \in Key, NEW n \in Key, Connect(k, n)
      PROVE  WithinGrant'
  <2>1. k \in Usable /\ clientId[k] \in Client
    BY <1>3 DEF Connect, Usable, Held
  <2> QED BY <1>3, <2>1, CreateTokenKeepsOthers DEF Connect, WithinGrant, Usable, Held
<1>4. ASSUME NEW k \in Key, Reconnect(k) \/ Command(k) \/ Expire(k) \/ DropExpired(k)
      PROVE  WithinGrant'
  BY <1>4 DEF Reconnect, Command, Expire, DropExpired, WithinGrant, Usable
<1>5. ASSUME NEW c \in Client, RevokeToken(c)
      PROVE  WithinGrant'
  BY <1>5 DEF RevokeToken, TokensOf, WithinGrant, Usable, Held
<1>6. CASE UNCHANGED vars
  BY <1>6 DEF vars, WithinGrant, Usable
<1> QED BY <1>1, <1>2, <1>3, <1>4, <1>5, <1>6 DEF Next

(* The invariant holds in every reachable state.                            *)
LEMMA InvHolds == Spec => []Inv
<1>1. Inv /\ [Next]_vars => Inv'
  BY TypeStep, OneSessionStep, WithinGrantStep DEF Inv
<1> QED BY <1>1, InitInv, PTL DEF Spec

(* The registry stays well typed, and a registered token was minted.        *)
THEOREM TypeCorrect == Spec => []TypeOK
BY InvHolds, PTL DEF Inv

(* No session and no exchangeable setup key ever confers more than the      *)
(* operator last granted its client.                                        *)
THEOREM WithinGrantHolds == Spec => []WithinGrant
BY InvHolds, PTL DEF Inv

(* A client never has two sessions.                                         *)
THEOREM OneSessionPerClientHolds == Spec => []OneSessionPerClient
BY InvHolds, PTL DEF Inv

(* A setup key presented again never gives a second session.                *)
THEOREM OneSessionPerKeyHolds == Spec => []OneSessionPerKey
<1>1. Inv => OneSessionPerKey
  BY DEF Inv, Recorded, OneSessionPerKey
<1> QED BY <1>1, InvHolds, PTL

(* The registry keeps all it promises (token-registry.ts and the pairing    *)
(* routes), for any numbers of clients, capabilities and tokens.            *)
THEOREM RegistrySafeHolds == Spec => []RegistrySafe
<1>1. Inv => RegistrySafe
  BY DEF Inv, Recorded, OneSessionPerKey, RegistrySafe
<1> QED BY <1>1, InvHolds, PTL
-----------------------------------------------------------------------------
TokensLiveAndMean ==
  expired \subseteq minted /\ \A k \in tokens : grant[k] # {}

LogoutInv == Inv /\ TokensLiveAndMean

(* In a reachable state only keys that exist have expired, and every token *)
(* grants something.                                                        *)
LEMMA LogoutInvHolds == Spec => []LogoutInv
<1>1. Init => TokensLiveAndMean
  BY DEF Init, TokensLiveAndMean
<1>2. LogoutInv /\ [Next]_vars => TokensLiveAndMean'
  <2> SUFFICES ASSUME LogoutInv, [Next]_vars PROVE TokensLiveAndMean'
    OBVIOUS
  <2> USE DEF LogoutInv, Inv, TypeOK, TokensLiveAndMean
  <2>1. ASSUME NEW k \in Key, NEW c \in Client, NEW g \in Grant, Pair(k, c, g)
        PROVE  TokensLiveAndMean'
    BY <2>1 DEF Pair, Mint, Grant
  <2>2. ASSUME NEW k \in Key, NEW c \in Client, NEW g \in Grant, PostToken(k, c, g)
        PROVE  TokensLiveAndMean'
    BY <2>2, CreateTokenKeepsOthers DEF PostToken, Grant
  <2>3. ASSUME NEW k \in Key, NEW n \in Key, Connect(k, n) PROVE TokensLiveAndMean'
    BY <2>3, CreateTokenKeepsOthers DEF Connect, Held
  <2>4. ASSUME NEW k \in Key, Reconnect(k) \/ Command(k) \/ Expire(k) \/ DropExpired(k)
        PROVE  TokensLiveAndMean'
    BY <2>4 DEF Reconnect, Command, Expire, DropExpired
  <2>5. ASSUME NEW c \in Client, RevokeToken(c) PROVE TokensLiveAndMean'
    BY <2>5 DEF RevokeToken
  <2>6. CASE UNCHANGED vars
    BY <2>6 DEF vars
  <2> QED BY <2>1, <2>2, <2>3, <2>4, <2>5, <2>6 DEF Next
<1> QED BY <1>1, <1>2, InvHolds, PTL DEF Spec, LogoutInv

KeepsOrReplaces(c, s) ==
  s \notin tokens' => LiveSession(c)' # {} \/ Reduces(grant[s], allowed'[c])

(* The registry logs no client out unless it has another session then or   *)
(* its new grant takes something away: createToken, pairing and revocation. *)
THEOREM NoNeedlessLogoutHolds == Spec => NoNeedlessLogout
<1>1. ASSUME LogoutInv, Next, NEW c \in Client, NEW s \in LiveSession(c)
      PROVE  KeepsOrReplaces(c, s)
  <2> USE <1>1 DEF LogoutInv, Inv, TypeOK
  <2>0. s \in tokens \ expired /\ clientId[s] = c /\ type[s] = "session" /\ grant[s] # {} /\ s \in minted
    BY DEF LiveSession, SessionsOf, TokensLiveAndMean
  <2>1. ASSUME NEW k \in Key, NEW d \in Client, NEW g \in Grant, Pair(k, d, g)
        PROVE  KeepsOrReplaces(c, s)
    <3> SUFFICES ASSUME s \notin tokens' PROVE Reduces(grant[s], allowed'[c])
      BY DEF KeepsOrReplaces
    <3>1. s \in Superseded(d, g) /\ allowed' = [allowed EXCEPT ![d] = g]
      BY <2>0, <2>1 DEF Pair, Mint
    <3>2. d = c /\ s \notin PendingOf(d)
      BY <2>0, <3>1 DEF Superseded, TokensOf, PendingOf
    <3>3. PICK r \in LiveSession(c) : Reduces(grant[r], g)
      BY <3>1, <3>2 DEF Superseded
    <3>4. r = s
      BY <3>3 DEF OneSessionPerClient, LiveSession
    <3> QED BY <3>1, <3>2, <3>3, <3>4
  <2>2. ASSUME NEW n \in Key, NEW d \in Client, NEW g, CreateToken(n, d, g), expired' = expired
        PROVE  KeepsOrReplaces(c, s)
    <3> SUFFICES ASSUME s \notin tokens' PROVE n \in LiveSession(c)'
      BY DEF KeepsOrReplaces
    <3>1. /\ n \notin minted /\ tokens' = (tokens \ SessionsOf(d)) \cup {n}
          /\ type' = [type EXCEPT ![n] = "session"] /\ clientId' = [clientId EXCEPT ![n] = d]
      BY <2>2, CreateTokenKeepsOthers
    <3>2. d = c
      BY <2>0, <3>1 DEF SessionsOf
    <3>3. n \notin expired
      BY <3>1 DEF TokensLiveAndMean
    <3>4. type'[n] = "session" /\ clientId'[n] = c /\ n \in tokens'
      BY <3>1, <3>2
    <3> QED BY <2>2, <3>3, <3>4 DEF LiveSession, SessionsOf
  <2>3. ASSUME NEW k \in Key, NEW d \in Client, NEW g \in Grant, PostToken(k, d, g)
        PROVE  KeepsOrReplaces(c, s)
    BY <2>2, <2>3 DEF PostToken
  <2>4. ASSUME NEW k \in Key, NEW n \in Key, Connect(k, n) PROVE KeepsOrReplaces(c, s)
    BY <2>2, <2>4 DEF Connect, Held
  <2>5. ASSUME NEW k \in Key, Reconnect(k) \/ Command(k) \/ Expire(k) \/ DropExpired(k)
        PROVE  KeepsOrReplaces(c, s)
    BY <2>0, <2>5 DEF Reconnect, Command, Expire, DropExpired, KeepsOrReplaces
  <2>6. ASSUME NEW d \in Client, RevokeToken(d) PROVE KeepsOrReplaces(c, s)
    BY <2>0, <2>6 DEF RevokeToken, TokensOf, KeepsOrReplaces, Reduces
  <2> QED BY <1>1, <2>1, <2>3, <2>4, <2>5, <2>6 DEF Next
<1>2. LogoutInv /\ [Next]_vars =>
        [\A c \in Client : \A s \in LiveSession(c) :
           s \notin tokens' => \/ LiveSession(c)' # {}
                               \/ Reduces(grant[s], allowed'[c])]_vars
  BY <1>1 DEF KeepsOrReplaces
<1> QED BY <1>2, LogoutInvHolds, PTL DEF Spec, NoNeedlessLogout

(* A live session is no more than one of the grants given since.            *)
GrantInv ==
  /\ given \subseteq Access
  /\ key.live => key.grant \in given
  /\ session.live => session.grant \in Access /\ \E g \in given : ~GrantReducesAccess(session.grant, g)

(* A longer name below a name below a third one is below the third.         *)
LEMMA PrefixesCompose ==
  ASSUME NEW r \in Host, NEW s \in Host, NEW t \in Host, IsPrefix(r, s), IsPrefix(s, t)
  PROVE  IsPrefix(r, t)
<1>1. /\ r \in Seq(Label) /\ s \in Seq(Label) /\ t \in Seq(Label)
      /\ Len(r) \in Nat /\ Len(s) \in Nat /\ Len(t) \in Nat
  BY GrantLimitsAssumption, LenProperties
<1>2. Len(r) <= Len(s) /\ Len(s) <= Len(t)
      /\ SubSeq(r, 1, Len(r)) = SubSeq(s, 1, Len(r)) /\ SubSeq(s, 1, Len(s)) = SubSeq(t, 1, Len(s))
  BY DEF IsPrefix
<1>3. ASSUME NEW q \in Seq(Label), NEW n \in 0..Len(q)
      PROVE  /\ SubSeq(q, 1, n) \in Seq(Label) /\ Len(SubSeq(q, 1, n)) = n
             /\ \A i \in 1..n : SubSeq(q, 1, n)[i] = q[i]
  <2>1. \A i \in 1..n : q[i] \in Label
    BY <1>3, ElementOfSeq, LenProperties
  <2> QED BY <1>3, <2>1, SubSeqProperties, LenProperties
<1>4. ASSUME NEW i \in 1..Len(r) PROVE s[i] = t[i]
  <2>1. i \in 1..Len(s)
    BY <1>1, <1>2
  <2>2. SubSeq(s, 1, Len(s))[i] = s[i] /\ SubSeq(t, 1, Len(s))[i] = t[i]
    BY <1>1, <1>2, <1>3, <2>1
  <2> QED BY <1>2, <2>2
<1>5. SubSeq(s, 1, Len(r)) = SubSeq(t, 1, Len(r))
  <2>1. Len(r) \in 0..Len(s) /\ Len(r) \in 0..Len(t)
    BY <1>1, <1>2
  <2>2. /\ SubSeq(s, 1, Len(r)) \in Seq(Label) /\ Len(SubSeq(s, 1, Len(r))) = Len(r)
        /\ \A i \in 1..Len(r) : SubSeq(s, 1, Len(r))[i] = s[i]
    BY <1>1, <1>3, <2>1
  <2>3. /\ SubSeq(t, 1, Len(r)) \in Seq(Label) /\ Len(SubSeq(t, 1, Len(r))) = Len(r)
        /\ \A i \in 1..Len(r) : SubSeq(t, 1, Len(r))[i] = t[i]
    BY <1>1, <1>3, <2>1
  <2> QED BY <1>4, <2>2, <2>3, SeqEqual
<1> QED BY <1>1, <1>2, <1>5 DEF IsPrefix

(* What a pattern matches, a pattern that covers it matches.                *)
LEMMA CoverMatches ==
  ASSUME NEW p \in Pattern, NEW n \in Pattern, DomainGlobCovers(n, p), NEW h \in Host, Matches(h, p)
  PROVE  Matches(h, n)
<1>1. p.apex \in Host /\ n.apex \in Host
  BY DEF Pattern
<1>2. CASE n = p
  BY <1>2
<1>3. CASE n.glob /\ IsPrefix(n.apex, p.apex)
  <2>1. IsPrefix(n.apex, h)
    BY <1>1, <1>3, PrefixesCompose DEF Matches
  <2> QED BY <1>3, <2>1 DEF Matches
<1> QED BY <1>2, <1>3 DEF DomainGlobCovers

(* grantReducesAccess is sound: a grant from which nothing is taken admits  *)
(* everything it admitted.                                                  *)
LEMMA NotReducedIsWithin ==
  ASSUME NEW prior \in Access, NEW next \in Access, ~GrantReducesAccess(prior, next)
  PROVE  /\ Admits(prior) \subseteq Admits(next)
         /\ prior.scopes \subseteq next.scopes
         /\ prior.shared => next.shared
         /\ next.rate # 0 => prior.rate \in 1..next.rate
<1>1. /\ prior.scopes \subseteq next.scopes /\ ~DomainsReduced(prior.domains, next.domains)
      /\ ~RateReduced(prior.rate, next.rate) /\ (prior.shared => next.shared)
  BY DEF GrantReducesAccess
<1>2. prior.domains \subseteq Pattern /\ next.domains \subseteq Pattern
      /\ prior.rate \in Nat /\ next.rate \in Nat
  BY GrantLimitsAssumption DEF Access
<1>3. next.rate # 0 => prior.rate \in 1..next.rate
  BY <1>1, <1>2 DEF RateReduced
<1>4. ASSUME NEW h \in Host, Reaches(prior, h) PROVE Reaches(next, h)
  <2>1. CASE next.domains = {}
    BY <2>1 DEF Reaches
  <2>2. CASE next.domains # {}
    <3>1. prior.domains # {}
      BY <1>1, <2>2 DEF DomainsReduced
    <3>2. PICK p \in prior.domains : Matches(h, p)
      BY <1>4, <3>1 DEF Reaches
    <3>3. PICK n \in next.domains : DomainGlobCovers(n, p)
      BY <1>1, <2>2, <3>1, <3>2 DEF DomainsReduced
    <3>4. Matches(h, n)
      BY <1>2, <3>2, <3>3, CoverMatches
    <3> QED BY <3>3, <3>4 DEF Reaches
  <2> QED BY <2>1, <2>2
<1>5. Admits(prior) \subseteq Admits(next)
  BY <1>1, <1>4 DEF Admits
<1> QED BY <1>1, <1>3, <1>5

(* The same grant again is no reduction (grantReducesAccess).               *)
LEMMA NothingReducesItself == ASSUME NEW g \in Access PROVE ~GrantReducesAccess(g, g)
<1>1. g.rate \in Nat /\ g.domains \subseteq Pattern
  BY GrantLimitsAssumption DEF Access
<1>2. ~DomainsReduced(g.domains, g.domains)
  BY DEF DomainsReduced, DomainGlobCovers
<1> QED BY <1>1, <1>2 DEF GrantReducesAccess, RateReduced

(* Giving, exchanging and expiring grants keep the session under one of   *)
(* the grants that were given.                                              *)
LEMMA GrantStepKeeps == ASSUME GrantInv, GrantNext \/ UNCHANGED grantVars PROVE GrantInv'
<1> USE DEF GrantInv
<1>0. ~NoToken.live
  BY DEF NoToken
<1>1. \A g \in Access : Holding(g).live /\ Holding(g).grant = g
  BY DEF Holding
<1>2. ASSUME NEW g \in Access, GivesToken(g) PROVE GrantInv'
  BY <1>1, <1>2, NothingReducesItself DEF GivesToken
<1>3. ASSUME NEW g \in Access, GivesKey(g) PROVE GrantInv'
  BY <1>0, <1>1, <1>3 DEF GivesKey
<1>4. CASE Exchanges
  BY <1>0, <1>1, <1>4, NothingReducesItself DEF Exchanges
<1>5. CASE GrantExpires
  BY <1>0, <1>5 DEF GrantExpires
<1>6. CASE UNCHANGED grantVars
  BY <1>6 DEF grantVars
<1> QED BY <1>2, <1>3, <1>4, <1>5, <1>6 DEF GrantNext

BucketOK == bucket \in [count : Nat, windowStart : Nat] /\ bucket.windowStart <= ticks

RanOK == ran \in Seq(Nat) /\ \A j \in DOMAIN ran : ran[j] <= ticks

RateTyped == limit \in Rate /\ ticks \in Nat /\ BucketOK /\ RanOK

(* Commands of this window and of the stretch before it that a stretch of   *)
(* one window can reach                                                     *)
Current == {j \in DOMAIN ran : bucket.windowStart <= ran[j]}
Previous == {j \in DOMAIN ran : bucket.windowStart < ran[j] + WindowTicks /\ ran[j] < bucket.windowStart}

Windowed ==
  limit # 0 =>
    /\ bucket.count = 0 => ran = <<>>
    /\ \A j \in DOMAIN ran : ran[j] < bucket.windowStart + WindowTicks
    /\ Cardinality(Current) <= limit /\ Cardinality(Current) <= bucket.count
    /\ Cardinality(Previous) <= limit

(* A window and the one before it hold at most the limit each; RateIsBounded *)
(* alone does not say how many of the last commands are in the bucket.       *)
RateInv == RateTyped /\ Windowed /\ RateIsBounded

(* Any set of commands that ran is finite, since they are a sequence.      *)
LEMMA FinitelyManyRan ==
  ASSUME RateTyped, NEW S, S \subseteq DOMAIN ran
  PROVE  IsFiniteSet(S) /\ Cardinality(S) \in Nat
<1>1. DOMAIN ran = 1..Len(ran) /\ Len(ran) \in Nat
  BY LenProperties DEF RateTyped, RanOK
<1>2. IsFiniteSet(1..Len(ran))
  BY <1>1, FS_Interval
<1> QED BY <1>1, <1>2, FS_Subset, FS_CardinalityType

(* Before the first command of a session the rate is within its limits.    *)
LEMMA NothingRan == ASSUME ran = <<>>, limit \in Nat, bucket.count \in Nat PROVE Windowed /\ RateIsBounded
<1>1. DOMAIN ran = {}
  OBVIOUS
<1>2. Current = {} /\ Previous = {}
  BY <1>1 DEF Current, Previous
<1> QED BY <1>1, <1>2, FS_EmptySet DEF Windowed, RateIsBounded

(* The rate limiter starts with no bucket and no command.                  *)
LEMMA RateInitInv == RateInit => RateInv
<1> SUFFICES ASSUME RateInit PROVE RateInv
  OBVIOUS
<1>1. RateTyped
  BY EmptySeq DEF RateInit, RateTyped, BucketOK, RanOK, NoBucket
<1>2. limit \in Nat /\ bucket.count \in Nat
  BY <1>1, GrantLimitsAssumption DEF RateTyped, BucketOK
<1> QED BY <1>1, <1>2, NothingRan DEF RateInit, RateInv

(* What a stretch of W ticks reaches, in numbers                            *)
LEMMA WithinTheStretch ==
  ASSUME NEW W \in Nat, NEW T \in Nat, NEW x \in Nat, NEW y \in Nat, NEW v \in Nat,
         v <= T, ~(x + W - 1 < T), x <= y
  PROVE  v < y + W \/ W = 0
OBVIOUS

(* Twice the limit, from the two windows a stretch can meet.               *)
LEMMA TwoLimits ==
  ASSUME NEW s \in Nat, NEW u \in Nat, NEW l \in Nat, s <= u, u <= 2 * l
  PROVE  s <= 2 * l
OBVIOUS

(* A command that runs, when the sets of commands are those it leaves       *)
LEMMA CommandIsBounded ==
  ASSUME RateInv, RateTyped', limit # 0, limit' = limit, ticks' = ticks, ran' = Append(ran, ticks),
         Windowed'
  PROVE  RateIsBounded'
<1>0. PICK W \in Nat \ {0} : W = WindowTicks
  BY GrantLimitsAssumption
<1>1. ran \in Seq(Nat) /\ ticks \in Nat /\ limit \in Nat
  BY GrantLimitsAssumption DEF RateInv, RateTyped, RanOK
<1>2. PICK n \in Nat : n = Len(ran)
  BY <1>1, LenProperties
<1>3. DOMAIN ran = 1..n /\ DOMAIN ran' = 1..n + 1 /\ ran'[n + 1] = ticks
      /\ \A j \in 1..n : ran'[j] = ran[j]
  BY <1>1, <1>2, AppendProperties, LenProperties
<1>4. \A j \in 1..n + 1 : ran'[j] \in Nat /\ ran'[j] <= ticks
  BY <1>1, <1>3, ElementOfSeq DEF RateTyped, RanOK
<1>5. bucket'.windowStart \in Nat /\ bucket'.windowStart <= ticks
  BY <1>1 DEF RateTyped, BucketOK
<1>6. Current' \subseteq DOMAIN ran' /\ Previous' \subseteq DOMAIN ran'
  BY DEF Current, Previous
<1>7. /\ IsFiniteSet(Current') /\ IsFiniteSet(Previous')
      /\ Cardinality(Current') \in Nat /\ Cardinality(Previous') \in Nat
  <2>1. IsFiniteSet(1..n + 1)
    BY <1>2, FS_Interval
  <2> QED BY <1>3, <1>6, <2>1, FS_Subset, FS_CardinalityType
<1>8. Cardinality(Current' \cup Previous') <= 2 * limit /\ IsFiniteSet(Current' \cup Previous')
  <2>1. Cardinality(Current') <= limit /\ Cardinality(Previous') <= limit
    BY DEF Windowed
  <2>2. /\ IsFiniteSet(Current' \cup Previous')
        /\ Cardinality(Current' \cup Previous') =
             Cardinality(Current') + Cardinality(Previous') - Cardinality(Current' \cap Previous')
    BY <1>7, FS_Union
  <2>3. Cardinality(Current' \cap Previous') \in Nat
    BY <1>7, FS_Intersection, FS_CardinalityType
  <2> QED BY <1>1, <1>7, <2>1, <2>2, <2>3
<1> SUFFICES ASSUME NEW i \in DOMAIN ran',
                    NEW S, S = {j \in DOMAIN ran' : ran'[j] \in ran'[i]..(ran'[i] + W - 1)}
             PROVE  Cardinality(S) <= 2 * limit
  BY <1>0 DEF RateIsBounded
<1>9. CASE ran'[i] + W - 1 < ticks
  <2>1. i \in 1..n /\ ran'[i] = ran[i]
    BY <1>0, <1>1, <1>2, <1>3, <1>9
  <2>2. S = {j \in DOMAIN ran : ran[j] \in ran[i]..(ran[i] + W - 1)}
    <3>1. ~(ticks \in ran'[i]..(ran'[i] + W - 1))
      BY <1>0, <1>1, <1>4, <1>9
    <3>2. \A j : j \in 1..n + 1 <=> j \in 1..n \/ j = n + 1
      BY <1>2
    <3> QED BY <1>3, <2>1, <3>1, <3>2
  <2> QED BY <1>0, <1>3, <2>1, <2>2 DEF RateInv, RateIsBounded
<1>10. CASE ~(ran'[i] + W - 1 < ticks)
  <2>1. ASSUME NEW j \in DOMAIN ran', ran'[j] \in ran'[i]..(ran'[i] + W - 1)
        PROVE  j \in Current' \cup Previous'
    <3>1. ran'[i] \in Nat /\ ran'[j] \in Nat /\ ran'[i] <= ran'[j]
      BY <1>3, <1>4, <2>1
    <3>2. bucket'.windowStart < ran'[j] + W
      <4>1. PICK x \in Nat : x = ran'[i]
        BY <3>1
      <4>2. PICK y \in Nat : y = ran'[j]
        BY <3>1
      <4>3. PICK v \in Nat : v = bucket'.windowStart
        BY <1>5
      <4>4. PICK T \in Nat : T = ticks
        BY <1>1
      <4>5. v <= T /\ x <= y /\ W \in Nat /\ W # 0
        BY <1>0, <1>5, <3>1, <4>1, <4>2, <4>3, <4>4
      <4>6. ~(x + W - 1 < T)
        BY <1>10, <4>1, <4>4
      <4>7. v < y + W
        BY <4>5, <4>6, WithinTheStretch
      <4> QED BY <4>2, <4>3, <4>7
    <3>3. bucket'.windowStart <= ran'[j] \/ ran'[j] < bucket'.windowStart
      BY <1>5, <3>1
    <3> QED BY <1>0, <3>2, <3>3 DEF Current, Previous
  <2>2. S \subseteq Current' \cup Previous'
    BY <2>1
  <2>4. Cardinality(S) <= Cardinality(Current' \cup Previous') /\ Cardinality(S) \in Nat
        /\ Cardinality(Current' \cup Previous') \in Nat
    BY <1>8, <2>2, FS_Subset, FS_CardinalityType
  <2> QED BY <1>1, <1>8, <2>4, TwoLimits
<1> QED BY <1>9, <1>10

(* checkRateLimit keeps both counts: inside a window it adds to Current,   *)
(* and a new window makes what is still near of Current the Previous.       *)
LEMMA ChecksRateKeeps == ASSUME RateInv, ChecksRate PROVE RateInv'
<1> USE DEF RateInv
<1>0. WindowTicks \in Nat /\ WindowTicks > 0 /\ limit \in Nat
  BY GrantLimitsAssumption DEF RateTyped
<1>1. /\ limit # 0 => ~InWindow \/ bucket.count < limit
      /\ bucket' = (IF limit = 0 THEN bucket ELSE Counted)
      /\ ran' = Append(ran, ticks) /\ limit' = limit /\ ticks' = ticks
  BY DEF ChecksRate
<1>2. ran \in Seq(Nat) /\ ticks \in Nat
      /\ bucket \in [count : Nat, windowStart : Nat] /\ bucket.windowStart <= ticks
  BY DEF RateTyped, RanOK, BucketOK
<1>3. PICK n \in Nat : n = Len(ran)
  BY <1>2, LenProperties
<1>4. ran' \in Seq(Nat) /\ DOMAIN ran = 1..n /\ DOMAIN ran' = 1..n + 1 /\ ran'[n + 1] = ticks
      /\ \A j \in 1..n : ran'[j] = ran[j]
  BY <1>1, <1>2, <1>3, AppendProperties, LenProperties
<1>5. \A j \in 1..n : ran[j] \in Nat /\ ran[j] <= ticks
  BY <1>3, <1>4, ElementOfSeq DEF RateTyped, RanOK
<1>6. \A j : j \in 1..n + 1 <=> j \in 1..n \/ j = n + 1
  BY <1>3
<1>7. RanOK'
  BY <1>1, <1>2, <1>4, <1>5, <1>6 DEF RanOK
<1>8. CASE limit = 0
  <2>1. BucketOK'
    BY <1>1, <1>2, <1>8 DEF BucketOK
  <2> QED BY <1>1, <1>7, <1>8, <2>1 DEF RateTyped, Windowed, RateIsBounded
<1>9. CASE limit # 0 /\ InWindow
  <2>1. PICK b : b = [bucket EXCEPT !.count = bucket.count + 1]
    OBVIOUS
  <2>2. bucket' = b /\ b \in [count : Nat, windowStart : Nat] /\ b.count = bucket.count + 1
        /\ b.windowStart = bucket.windowStart
    <3>1. bucket' = b
      BY <1>1, <1>9, <2>1 DEF Counted
    <3>2. bucket \in [count : Nat, windowStart : Nat]
      BY <1>2
    <3> QED BY <2>1, <3>1, <3>2
  <2>3. RateTyped'
    BY <1>1, <1>2, <1>7, <2>2 DEF RateTyped, BucketOK
  <2>4. Current' = Current \cup {n + 1} /\ Previous' = Previous /\ n + 1 \notin Current
    BY <1>2, <1>3, <1>4, <1>5, <1>6, <2>2 DEF Current, Previous
  <2>5. Cardinality(Current') = Cardinality(Current) + 1 /\ Cardinality(Current) \in Nat
    <3>1. Current \subseteq DOMAIN ran
      BY DEF Current
    <3> QED BY <2>4, <3>1, FinitelyManyRan, FS_AddElement
  <2>6. Windowed'
    <3>1. bucket.count < limit /\ Cardinality(Current) <= bucket.count /\ Cardinality(Previous) <= limit
      BY <1>1, <1>9 DEF Windowed
    <3>2. Cardinality(Current') <= limit /\ Cardinality(Current') <= b.count /\ b.count # 0
      BY <1>0, <1>2, <2>2, <2>5, <3>1
    <3>3. ticks < bucket.windowStart + WindowTicks
      BY <1>0, <1>2, <1>9 DEF InWindow
    <3>4. \A j \in DOMAIN ran' : ran'[j] < b.windowStart + WindowTicks
      BY <1>4, <1>6, <1>9, <2>2, <3>3 DEF Windowed
    <3> QED BY <1>1, <2>2, <2>4, <3>1, <3>2, <3>4 DEF Windowed
  <2> QED BY <1>1, <1>9, <2>3, <2>6, CommandIsBounded
<1>10. CASE limit # 0 /\ ~InWindow
  <2>1. PICK b : b = [count |-> 1, windowStart |-> ticks]
    OBVIOUS
  <2>2. bucket' = b /\ b \in [count : Nat, windowStart : Nat] /\ b.count = 1 /\ b.windowStart = ticks
    BY <1>1, <1>2, <1>10, <2>1 DEF Counted
  <2>3. RateTyped'
    BY <1>1, <1>2, <1>7, <2>2 DEF RateTyped, BucketOK
  <2>4. (bucket.count = 0 /\ n = 0) \/ bucket.windowStart + WindowTicks <= ticks
    <3>1. bucket.count \in Nat
      BY <1>2
    <3>2. CASE bucket.count = 0
      BY <1>3, <1>10, <3>2 DEF Windowed
    <3>3. CASE bucket.count # 0
      BY <1>0, <1>2, <1>10, <3>1, <3>3 DEF InWindow
    <3> QED BY <3>2, <3>3
  <2>5. \A j \in 1..n : ran[j] < ticks
    <3> SUFFICES ASSUME NEW j \in 1..n PROVE ran[j] < ticks
      OBVIOUS
    <3>1. ran[j] < bucket.windowStart + WindowTicks
      BY <1>4, <1>10 DEF Windowed
    <3> QED BY <1>0, <1>2, <1>5, <2>4, <3>1
  <2>6. Current' = {n + 1}
    BY <1>2, <1>4, <1>5, <1>6, <2>2, <2>5 DEF Current
  <2>7. Previous' \subseteq Current
    <3> SUFFICES ASSUME NEW j \in Previous' PROVE j \in Current
      OBVIOUS
    <3>1. j \in 1..n + 1 /\ ticks < ran'[j] + WindowTicks /\ ran'[j] < ticks
      BY <1>4, <2>2 DEF Previous
    <3>2. j \in 1..n /\ ran'[j] = ran[j]
      BY <1>2, <1>4, <1>6, <3>1
    <3>3. bucket.windowStart <= ran[j]
      BY <1>0, <1>2, <1>3, <1>5, <2>4, <3>1, <3>2
    <3> QED BY <1>4, <3>2, <3>3 DEF Current
  <2>8. Windowed'
    <3>1. Cardinality(Current') = 1
      BY <2>6, FS_Singleton
    <3>2. Cardinality(Previous') <= limit
      <4>1. Current \subseteq DOMAIN ran
        BY DEF Current
      <4>2. Cardinality(Previous') <= Cardinality(Current) /\ Cardinality(Previous') \in Nat
            /\ Cardinality(Current) \in Nat
        BY <2>7, <4>1, FinitelyManyRan, FS_Subset, FS_CardinalityType
      <4>3. Cardinality(Current) <= limit
        BY <1>10 DEF Windowed
      <4> QED BY <1>0, <4>2, <4>3
    <3>3. \A j \in DOMAIN ran' : ran'[j] < ticks + WindowTicks
      BY <1>0, <1>2, <1>4, <1>5, <1>6
    <3> QED BY <1>0, <1>1, <1>10, <2>2, <3>1, <3>2, <3>3 DEF Windowed
  <2> QED BY <1>1, <1>10, <2>3, <2>8, CommandIsBounded
<1> QED BY <1>8, <1>9, <1>10

(* Every step of the rate limiter keeps its invariant.                     *)
LEMMA RateStepKeeps == ASSUME RateInv, RateNext \/ UNCHANGED rateVars PROVE RateInv'
<1> USE DEF RateInv
<1>1. CASE ChecksRate
  BY <1>1, ChecksRateKeeps
<1>2. CASE Ticks \/ UNCHANGED rateVars
  <2>1. UNCHANGED <<bucket, limit, ran>> /\ ticks' \in Nat /\ ticks <= ticks'
    BY <1>2 DEF Ticks, rateVars, RateTyped
  <2>2. RateTyped'
    <3>1. \A j \in DOMAIN ran : ran[j] \in Nat /\ ran[j] <= ticks
      BY ElementOfSeq, LenProperties DEF RateTyped, RanOK
    <3>2. bucket.windowStart \in Nat /\ bucket.windowStart <= ticks /\ ticks \in Nat
      BY DEF RateTyped, BucketOK
    <3>3. \A j \in DOMAIN ran : ran[j] <= ticks'
      BY <2>1, <3>1, <3>2
    <3>4. bucket.windowStart <= ticks'
      BY <2>1, <3>2
    <3> QED BY <2>1, <3>3, <3>4 DEF RateTyped, BucketOK, RanOK
  <2>3. Current' = Current /\ Previous' = Previous
    BY <2>1 DEF Current, Previous
  <2> QED BY <2>1, <2>2, <2>3 DEF Windowed, RateIsBounded
<1>3. CASE RenewsLimit
  <2>1. bucket' \in {NoBucket, bucket} /\ limit' \in Rate /\ ran' = <<>> /\ ticks' = ticks
    BY <1>3 DEF RenewsLimit
  <2>2. RateTyped'
    <3>1. BucketOK'
      BY <2>1 DEF RateTyped, BucketOK, NoBucket
    <3>2. RanOK'
      BY <2>1, EmptySeq DEF RanOK
    <3> QED BY <2>1, <3>1, <3>2 DEF RateTyped
  <2>3. limit' \in Nat /\ bucket'.count \in Nat
    BY <2>2, GrantLimitsAssumption DEF RateTyped, BucketOK
  <2>4. DOMAIN ran' = {}
    BY <2>1
  <2>5. Current' = {} /\ Previous' = {}
    BY <2>4 DEF Current, Previous
  <2> QED BY <2>1, <2>2, <2>3, <2>4, <2>5, FS_EmptySet DEF Windowed, RateIsBounded
<1> QED BY <1>1, <1>2, <1>3 DEF RateNext

(* A session never admits more than a grant that was given and not         *)
(* superseded (grantReducesAccess, /pair, /token, /connect), and no stretch *)
(* of one window holds more than twice the limit (checkRateLimit).          *)
THEOREM LimitsHoldAlways == LimitsSpec => []LimitsHold
<1> DEFINE LimitsInv == GrantInv /\ RateInv
<1>1. GrantInit /\ RateInit => LimitsInv
  <2>1. GrantInit => GrantInv
    BY DEF GrantInit, GrantInv, NoToken
  <2> QED BY <2>1, RateInitInv
<1>2. LimitsInv /\ [LimitsNext]_limitVars => LimitsInv'
  BY GrantStepKeeps, RateStepKeeps DEF LimitsNext, limitVars
<1>3. LimitsInv => LimitsHold
  <2> SUFFICES ASSUME GrantInv, RateInv PROVE OfferIsTheLimit /\ RateIsBounded
    BY DEF LimitsHold
  <2>1. RateIsBounded
    BY DEF RateInv
  <2>2. OfferIsTheLimit
    <3> SUFFICES ASSUME session.live
                 PROVE  \E g \in given :
                          /\ Admits(session.grant) \subseteq Admits(g)
                          /\ session.grant.scopes \subseteq g.scopes
                          /\ session.grant.shared => g.shared
                          /\ g.rate # 0 => session.grant.rate \in 1..g.rate
      BY DEF OfferIsTheLimit
    <3>1. PICK g \in given : ~GrantReducesAccess(session.grant, g)
      BY DEF GrantInv
    <3>2. session.grant \in Access /\ g \in Access
      BY DEF GrantInv
    <3> QED BY <3>1, <3>2, NotReducedIsWithin
  <2> QED BY <2>1, <2>2
<1> QED BY <1>1, <1>2, <1>3, PTL DEF LimitsSpec
-----------------------------------------------------------------------------
(***************************************************************************)
(* The notes per site: operations read a file and append to it later, and  *)
(* others append between.  What an operation is about to append is sound   *)
(* by itself; its version tops the file as long as the file is as it was   *)
(* when the operation read it.                                             *)
(***************************************************************************)
NoteRows == [body : Nat, state : {"none", "quarantined", "active", "global"}, version : Nat,
             scored : BOOLEAN, uses : Nat, flags : Nat, dead : BOOLEAN]

SoundRow(r) ==
  /\ r \in NoteRows /\ r.body \in 1..bodies /\ r.version >= 1
  /\ r.state \in {"active", "global"} => r.scored

WasActive(b) ==
  \E j \in 1..Len(rows["project"]) :
    rows["project"][j].body = b /\ rows["project"][j].state = "active"

NothingIsDead == \A i \in 1..Len(rows["project"]) : ~rows["project"][i].dead
TopsProject(v) == \A i \in 1..Len(rows["project"]) : rows["project"][i].version <= v

RowsAreSound ==
  /\ rows \in [Scope -> Seq(NoteRows)] /\ bodies \in Nat /\ raced \in BOOLEAN
  /\ \A s \in Scope : \A i \in 1..Len(rows[s]) : SoundRow(rows[s][i])
  /\ \A i \in 1..Len(rows["global"]) : WasActive(rows["global"][i].body)
  /\ ~raced /\ NothingIsDead /\ Len(rows["project"]) > 0
       => TopsProject(rows["project"][Len(rows["project"])].version)

(* What holds of the row that an operation has read its way to              *)
GoodRead(s, row, seen) ==
  /\ SoundRow(row) /\ s \in Scope /\ seen \in Nat /\ seen <= Len(rows[s])
  /\ s = "global" => WasActive(row.body)
  /\ s = "project" /\ seen = Len(rows[s]) /\ ~raced /\ NothingIsDead => TopsProject(row.version)

OpStates == [on : BOOLEAN, scope : Scope, row : NoteRows, seen : Nat]

NotesInv ==
  /\ RowsAreSound /\ op \in [Op -> OpStates]
  /\ \A o \in Op : op[o].on => GoodRead(op[o].scope, op[o].row, op[o].seen)

(* Both files are empty at first.                                           *)
LEMMA InitNotes == SkillInit => NotesInv
<1>1. NoRow \in NoteRows
  BY DEF NoRow, NoteRows
<1>2. Settled \in OpStates /\ ~Settled.on
  BY <1>1 DEF Settled, OpStates, Scope
<1>3. ASSUME SkillInit PROVE RowsAreSound
  <2>1. \A s \in Scope : rows[s] = <<>> /\ Len(rows[s]) = 0
    BY <1>3 DEF SkillInit
  <2>2. "project" \in Scope /\ "global" \in Scope
    BY DEF Scope
  <2>3. rows \in [Scope -> Seq(NoteRows)] /\ bodies \in Nat /\ raced \in BOOLEAN
    <3>1. <<>> \in Seq(NoteRows)
      OBVIOUS
    <3> QED BY <3>1, <1>3 DEF SkillInit
  <2> QED BY <2>1, <2>2, <2>3 DEF RowsAreSound
<1> QED BY <1>2, <1>3 DEF SkillInit, NotesInv

(* An operation that reads its way to a good row.                           *)
LEMMA ReadsKeeps ==
  ASSUME NotesInv, NEW o \in Op, NEW s \in Scope, NEW row, Reads(o, s, row),
         bodies' \in Nat, bodies' >= bodies, SoundRow(row)', s = "global" => WasActive(row.body),
         s = "project" /\ ~raced /\ NothingIsDead => TopsProject(row.version)
  PROVE  NotesInv'
<1>1. /\ op' = [op EXCEPT ![o] = [on |-> TRUE, scope |-> s, row |-> row, seen |-> Len(rows[s])]]
      /\ UNCHANGED <<rows, raced>>
  BY DEF Reads
<1>2. row \in NoteRows /\ Len(rows[s]) \in Nat
  BY DEF SoundRow, NotesInv, RowsAreSound
<1>3. op' \in [Op -> OpStates]
  BY <1>1, <1>2 DEF NotesInv, OpStates
<1>4. \A r : SoundRow(r) => SoundRow(r)'
  BY DEF SoundRow, NotesInv, RowsAreSound
<1>5. (\A b : WasActive(b)' = WasActive(b)) /\ NothingIsDead' = NothingIsDead /\ \A v : TopsProject(v)' = TopsProject(v)
  BY <1>1 DEF WasActive, NothingIsDead, TopsProject
<1>6. RowsAreSound'
  BY <1>1, <1>4, <1>5 DEF RowsAreSound, NotesInv
<1>7. \A t, r, n : GoodRead(t, r, n) => GoodRead(t, r, n)'
  BY <1>1, <1>4, <1>5 DEF GoodRead
<1>8. GoodRead(s, row, Len(rows[s]))'
  BY <1>1, <1>2, <1>5 DEF GoodRead
<1>9. ASSUME NEW p \in Op, op'[p].on PROVE GoodRead(op[p].scope, op[p].row, op[p].seen)'
  <2>1. CASE p = o
    BY <2>1, <1>1, <1>8 DEF NotesInv
  <2>2. CASE p # o
    BY <2>2, <1>1, <1>7, <1>9 DEF NotesInv
  <2> QED BY <2>1, <2>2
<1> QED BY <1>3, <1>6, <1>9 DEF NotesInv

(* Its row goes to the end of the file.  Operations that read before are    *)
(* told by the length they saw that they are late.                          *)
LEMMA AppendKeeps == ASSUME NotesInv, NEW o \in Op, AppendRow(o) PROVE NotesInv'
<1>1. PICK s, row, n : s = op[o].scope /\ row = op[o].row /\ n = Len(rows[s])
  OBVIOUS
<1>2. /\ rows' = [rows EXCEPT ![s] = Append(rows[s], row)] /\ op' = [op EXCEPT ![o] = Settled]
      /\ raced' = (raced \/ op[o].seen # n) /\ bodies' = bodies /\ op[o].on
  BY <1>1 DEF AppendRow
<1>3. GoodRead(s, row, op[o].seen) /\ RowsAreSound
  BY <1>1, <1>2 DEF NotesInv
<1>4. s \in Scope /\ row \in NoteRows /\ rows[s] \in Seq(NoteRows) /\ n \in Nat /\ SoundRow(row)
  BY <1>1, <1>3 DEF GoodRead, SoundRow, RowsAreSound
<1>5. /\ rows' \in [Scope -> Seq(NoteRows)] /\ \A t \in Scope : t # s => rows'[t] = rows[t]
      /\ rows'[s] = Append(rows[s], row)
  <2>1. Append(rows[s], row) \in Seq(NoteRows)
    BY <1>4
  <2> QED BY <2>1, <1>2, <1>3, <1>4 DEF RowsAreSound
<1>6. Len(rows'[s]) = n + 1 /\ rows'[s][n + 1] = row /\ \A i \in 1..n : rows'[s][i] = rows[s][i]
  BY <1>1, <1>4, <1>5
<1>7. \A i \in 1..(n + 1) : i \in 1..n \/ i = n + 1
  BY <1>4
<1>8. \A r : SoundRow(r)' = SoundRow(r)
  BY <1>2 DEF SoundRow
<1>9. \A t \in Scope : \A i \in 1..Len(rows'[t]) : SoundRow(rows[t][i])'
  <2>1. ASSUME NEW t \in Scope, NEW i \in 1..Len(rows'[t]) PROVE SoundRow(rows'[t][i])
    <3>1. CASE t # s
      BY <3>1, <2>1, <1>3, <1>5 DEF RowsAreSound
    <3>2. CASE t = s
      <4>1. CASE i = n + 1
        BY <3>2, <4>1, <1>4, <1>6
      <4>2. CASE i \in 1..n
        BY <1>1, <3>2, <4>2, <1>3, <1>4, <1>6 DEF RowsAreSound
      <4> QED BY <3>2, <4>1, <4>2, <1>6, <1>7
    <3> QED BY <3>1, <3>2
  <2> QED BY <2>1, <1>8
<1>10. "project" \in Scope /\ "global" \in Scope /\ Len(rows["project"]) \in Nat /\ Len(rows["global"]) \in Nat
  BY <1>3 DEF Scope, RowsAreSound
<1>11. \A b : WasActive(b) => WasActive(b)'
  <2>1. ASSUME NEW b, NEW j \in 1..Len(rows["project"]), rows["project"][j].body = b,
               rows["project"][j].state = "active"
        PROVE  j \in 1..Len(rows'["project"]) /\ rows'["project"][j] = rows["project"][j]
    <3>1. CASE s # "project"
      BY <3>1, <2>1, <1>5, <1>10
    <3>2. CASE s = "project"
      <4>1. j \in 1..n /\ 1..n \subseteq 1..(n + 1)
        BY <1>1, <3>2, <2>1, <1>4
      <4> QED BY <4>1, <3>2, <1>6
    <3> QED BY <3>1, <3>2
  <2> QED BY <2>1 DEF WasActive
<1>12. ASSUME NEW i \in 1..Len(rows'["global"]) PROVE WasActive(rows["global"][i].body)'
  <2>1. CASE s # "global"
    BY <2>1, <1>3, <1>5, <1>10, <1>11, <1>12 DEF RowsAreSound
  <2>2. CASE s = "global"
    <3>1. CASE i = n + 1
      BY <2>2, <3>1, <1>3, <1>6, <1>11 DEF GoodRead
    <3>2. CASE i \in 1..n
      BY <1>1, <2>2, <3>2, <1>3, <1>6, <1>11 DEF RowsAreSound
    <3> QED BY <2>2, <3>1, <3>2, <1>6, <1>7, <1>12
  <2> QED BY <2>1, <2>2
<1>13. NothingIsDead' => NothingIsDead
  <2>1. ASSUME NEW i \in 1..Len(rows["project"])
        PROVE  i \in 1..Len(rows'["project"]) /\ rows'["project"][i] = rows["project"][i]
    <3>1. CASE s # "project"
      BY <3>1, <2>1, <1>5, <1>10
    <3>2. CASE s = "project"
      <4>1. i \in 1..n /\ 1..n \subseteq 1..(n + 1)
        BY <1>1, <3>2, <2>1, <1>4
      <4> QED BY <4>1, <3>2, <1>6
    <3> QED BY <3>1, <3>2
  <2> QED BY <2>1 DEF NothingIsDead
<1>14. ASSUME ~raced', NothingIsDead', s = "project"
       PROVE  TopsProject(row.version)'
  <2>1. ~raced /\ op[o].seen = n /\ NothingIsDead
    BY <1>2, <1>3, <1>13, <1>14 DEF RowsAreSound
  <2>2. TopsProject(row.version)
    BY <1>1, <2>1, <1>3, <1>14 DEF GoodRead
  <2>3. \A i \in 1..n : rows'[s][i].version <= row.version
    BY <1>1, <2>2, <1>6, <1>14 DEF TopsProject
  <2>4. row.version <= row.version
    BY <1>4 DEF NoteRows
  <2> QED BY <2>3, <2>4, <1>6, <1>7, <1>14 DEF TopsProject
<1>15. s # "project" => (\A v : TopsProject(v)' = TopsProject(v)) /\ rows'["project"] = rows["project"]
  BY <1>5, <1>10 DEF TopsProject
<1>16. ASSUME ~raced', NothingIsDead', Len(rows'["project"]) > 0
       PROVE  TopsProject(rows["project"][Len(rows["project"])].version)'
  <2>1. CASE s = "project"
    <3>1. TopsProject(row.version)'
      BY <2>1, <1>14, <1>16
    <3> QED BY <2>1, <3>1, <1>6 DEF TopsProject
  <2>2. CASE s # "project"
    BY <2>2, <1>2, <1>3, <1>13, <1>15, <1>16 DEF RowsAreSound
  <2> QED BY <2>1, <2>2
<1>17. RowsAreSound'
  BY <1>2, <1>3, <1>5, <1>9, <1>12, <1>16 DEF RowsAreSound
<1>18. Settled \in OpStates /\ ~Settled.on
  BY DEF Settled, OpStates, Scope, NoRow, NoteRows
<1>19. op' \in [Op -> OpStates] /\ (\A p \in Op : op'[p].on => p # o /\ op'[p] = op[p] /\ op[p].on)
  BY <1>2, <1>18 DEF NotesInv
<1>20. ASSUME NEW t, NEW r, NEW k, GoodRead(t, r, k) PROVE GoodRead(t, r, k)'
  <2>1. SoundRow(r)' /\ t \in Scope /\ k \in Nat /\ (t = "global" => WasActive(r.body)')
    BY <1>8, <1>11, <1>20 DEF GoodRead
  <2>2. k <= Len(rows'[t]) /\ (t = s => k # Len(rows'[t]))
    <3>1. CASE t = s
      BY <1>1, <3>1, <1>4, <1>6, <1>20 DEF GoodRead
    <3>2. CASE t # s
      BY <3>2, <1>5, <1>20 DEF GoodRead
    <3> QED BY <3>1, <3>2
  <2>3. ASSUME t = "project", k = Len(rows'[t]), ~raced', NothingIsDead' PROVE TopsProject(r.version)'
    BY <2>2, <2>3, <1>2, <1>3, <1>13, <1>15, <1>20 DEF GoodRead, RowsAreSound
  <2> QED BY <2>1, <2>2, <2>3 DEF GoodRead
<1> QED BY <1>17, <1>19, <1>20 DEF NotesInv

(* What readers see is a row of the file, or none; and the last row, when   *)
(* no version is above its.                                                 *)
LEMMA NewestIsARow ==
  ASSUME NEW s \in Scope
  PROVE  Newest(s) = NoRow \/ \E i \in 1..Len(rows[s]) : Newest(s) = rows[s][i]
<1> DEFINE at == {i \in 1..Len(rows[s]) : \A j \in 1..Len(rows[s]) :
                   \/ rows[s][i].version > rows[s][j].version
                   \/ rows[s][i].version = rows[s][j].version /\ i >= j}
<1>1. CASE at = {}
  BY <1>1 DEF Newest
<1>2. CASE at # {}
  <2>1. (CHOOSE i \in at : TRUE) \in at
    BY <1>2
  <2>2. Newest(s) = rows[s][CHOOSE i \in at : TRUE]
    BY <1>2 DEF Newest
  <2>3. (CHOOSE i \in at : TRUE) \in 1..Len(rows[s])
    BY <2>1
  <2> QED BY <2>2, <2>3
<1> QED BY <1>1, <1>2

(* Without a race and with no row dead, the newest row of the project is the*)
(* last row of its file.                                                    *)
LEMMA LastIsNewest ==
  ASSUME RowsAreSound, Len(rows["project"]) > 0, ~raced, NothingIsDead
  PROVE  Newest("project") = rows["project"][Len(rows["project"])]
<1> DEFINE f == rows["project"]  n == Len(f)
           at == {i \in 1..n : \A j \in 1..n :
                   \/ f[i].version > f[j].version
                   \/ f[i].version = f[j].version /\ i >= j}
<1>1. "project" \in Scope
  BY DEF Scope
<1>2. n \in Nat /\ n > 0 /\ (\A i \in 1..n : f[i].version \in Nat /\ f[i].version <= f[n].version)
  BY <1>1 DEF RowsAreSound, SoundRow, NoteRows, TopsProject
<1>3. Newest("project") = IF at = {} THEN NoRow ELSE f[CHOOSE i \in at : TRUE]
  BY DEF Newest
<1> HIDE DEF f, n
<1>4. n \in at
  BY <1>2
<1>5. \A i \in at : i = n
  BY <1>2, <1>4
<1>6. (CHOOSE i \in at : TRUE) = n
  BY <1>4, <1>5
<1> QED BY <1>3, <1>4, <1>6 DEF f, n

(* So what an operation reads of a file is sound.                           *)
LEMMA LatestIsSound ==
  ASSUME RowsAreSound, NEW s \in Scope, Latest(s) # NoRow
  PROVE  /\ SoundRow(Latest(s)) /\ \E i \in 1..Len(rows[s]) : Latest(s) = rows[s][i]
         /\ s = "global" => WasActive(Latest(s).body)
<1>1. Latest(s) = Newest(s) /\ Newest(s) # NoRow
  BY DEF Latest
<1>2. PICK i \in 1..Len(rows[s]) : Latest(s) = rows[s][i]
  BY <1>1, NewestIsARow
<1> QED BY <1>2 DEF RowsAreSound

(* The row that the project's reader finds, and the version after it, are on*)
(* top of the file: what is appended with them is not out of order.         *)
LEMMA LatestTops ==
  ASSUME RowsAreSound, ~raced, NothingIsDead
  PROVE  TopsProject(Latest("project").version) /\ TopsProject(Latest("project").version + 1)
<1> DEFINE n == Len(rows["project"])
<1>1. n \in Nat /\ \A i \in 1..n : rows["project"][i].version \in Nat
  BY DEF RowsAreSound, SoundRow, NoteRows, Scope
<1>2. CASE n = 0
  BY <1>2 DEF TopsProject
<1>3. CASE n > 0
  <2>1. Newest("project") = rows["project"][n] /\ TopsProject(rows["project"][n].version)
    BY <1>3, LastIsNewest DEF RowsAreSound
  <2>2. Latest("project") = rows["project"][n]
    BY <2>1, <1>1, <1>3 DEF Latest, NothingIsDead
  <2> QED BY <2>1, <2>2, <1>1, <1>3 DEF TopsProject
<1> QED BY <1>1, <1>2, <1>3

(* The order that Rollback goes by, in numbers                              *)
LEMMA BeforeInNumbers ==
  ASSUME RowsAreSound, NEW s \in Scope
  PROVE  \E v \in [1..Len(rows[s]) -> Nat] :
           /\ \A i \in 1..Len(rows[s]) : v[i] = rows[s][i].version
           /\ \A i, j \in 1..Len(rows[s]) :
                Before(s, i, j) <=> v[i] > v[j] \/ (v[i] = v[j] /\ i < j)
<1> DEFINE v == [i \in 1..Len(rows[s]) |-> rows[s][i].version]
<1>1. ASSUME NEW i \in 1..Len(rows[s]) PROVE rows[s][i].version \in Nat
  <2>1. rows[s][i] \in NoteRows
    BY DEF RowsAreSound, SoundRow
  <2> QED BY <2>1 DEF NoteRows
<1>2. v \in [1..Len(rows[s]) -> Nat] /\ \A i \in 1..Len(rows[s]) : v[i] = rows[s][i].version
  BY <1>1
<1> HIDE DEF v
<1>3. \A i, j \in 1..Len(rows[s]) : Before(s, i, j) <=> v[i] > v[j] \/ (v[i] = v[j] /\ i < j)
  BY <1>2 DEF Before
<1> QED BY <1>2, <1>3

(* Rollback's order of the rows is total and has a first, so that the rows  *)
(* it speaks of, the first and the second, are there.                       *)
LEMMA SomeRowIsFirst ==
  ASSUME RowsAreSound, NEW s \in Scope, NEW A \in SUBSET (1..Len(rows[s])), A # {}
  PROVE  \E i \in A : \A j \in A : ~Before(s, j, i)
<1> DEFINE Up(i) == {j \in A : Before(s, j, i)}
           size == [i \in A |-> Cardinality(Up(i))]
           sizes == {size[i] : i \in A}
<1>1. PICK v \in [1..Len(rows[s]) -> Nat] : \A i, j \in 1..Len(rows[s]) :
        Before(s, i, j) <=> v[i] > v[j] \/ (v[i] = v[j] /\ i < j)
  BY BeforeInNumbers
<1>2. IsFiniteSet(A)
  <2>1. Len(rows[s]) \in Nat
    BY DEF RowsAreSound
  <2>2. IsFiniteSet(1..Len(rows[s]))
    BY <2>1, FS_Interval
  <2> QED BY <2>2, FS_Subset
<1>3. ASSUME NEW i \in A PROVE IsFiniteSet(Up(i)) /\ size[i] = Cardinality(Up(i)) /\ size[i] \in Nat
  <2>1. IsFiniteSet(Up(i))
    BY <1>2, FS_Subset
  <2> QED BY <2>1, FS_CardinalityType
<1>4. ASSUME NEW i \in A, NEW j \in A, Before(s, j, i) PROVE size[j] < size[i]
  <2>1. Up(j) \subseteq Up(i) /\ j \in Up(i) /\ j \notin Up(j)
    <3>1. ~Before(s, j, j) /\ \A k \in A : Before(s, k, j) => Before(s, k, i)
      BY <1>1, <1>4
    <3> QED BY <3>1, <1>4
  <2>2. Up(j) # Up(i)
    BY <2>1
  <2>3. Cardinality(Up(j)) <= Cardinality(Up(i)) /\ Cardinality(Up(i)) # Cardinality(Up(j))
    <3> HIDE DEF Up
    <3> QED BY <2>1, <2>2, <1>3, FS_Subset
  <2>4. size[j] \in Nat /\ size[i] \in Nat /\ size[j] <= size[i] /\ size[j] # size[i]
    BY <2>3, <1>3
  <2> HIDE DEF size
  <2> QED BY <2>4
<1>5. PICK m \in sizes : \A d \in sizes : ~(d < m)
  <2>1. sizes # {} /\ sizes \subseteq Nat
    BY <1>3
  <2> HIDE DEF sizes
  <2>2. PICK c \in sizes : \A d \in sizes : ~(<<d, c>> \in OpToRel(<, Nat))
    BY <2>1, NatLessThanWellFounded, WFMin
  <2> QED BY <2>1, <2>2 DEF OpToRel
<1> HIDE DEF size
<1>6. PICK i \in A : m = size[i]
  BY <1>5
<1>7. \A j \in A : ~(size[j] < size[i])
  BY <1>5, <1>6
<1> QED BY <1>4, <1>6, <1>7

(* The newest and the second newest of at least two alive rows are alive    *)
(* rows, and none is newer than the first.                                  *)
LEMMA RankedAreThere ==
  ASSUME RowsAreSound, NEW s \in Scope, \E i, j \in Alive(s) : i # j
  PROVE  /\ Ranked(s, 1) \in Alive(s) /\ Ranked(s, 2) \in Alive(s)
         /\ \A j \in Alive(s) : rows[s][j].version <= rows[s][Ranked(s, 1)].version
<1> DEFINE A == Alive(s)
           Up(i) == {j \in A : Before(s, j, i)}
           Is(i, n) == Cardinality(Up(i)) = n - 1
<1>1. PICK v \in [1..Len(rows[s]) -> Nat] :
        /\ \A i \in 1..Len(rows[s]) : v[i] = rows[s][i].version
        /\ \A i, j \in 1..Len(rows[s]) : Before(s, i, j) <=> v[i] > v[j] \/ (v[i] = v[j] /\ i < j)
  BY BeforeInNumbers
<1>2. A \in SUBSET (1..Len(rows[s])) /\ A # {} /\ (\E i, j \in A : i # j) /\ Len(rows[s]) \in Nat
  BY DEF Alive, RowsAreSound
<1>3. Ranked(s, 1) = (CHOOSE i \in A : Is(i, 1)) /\ Ranked(s, 2) = CHOOSE i \in A : Is(i, 2)
  BY DEF Ranked
<1> HIDE DEF A
<1>4. PICK a \in A : \A j \in A : ~Before(s, j, a)
  BY <1>2, SomeRowIsFirst
<1>5. A \ {a} \in SUBSET (1..Len(rows[s])) /\ A \ {a} # {}
  BY <1>2
<1>6. PICK b \in A \ {a} : \A j \in A \ {a} : ~Before(s, j, b)
  BY <1>5, SomeRowIsFirst
<1>7. ASSUME NEW i \in A, NEW j \in A PROVE (i # j => Before(s, i, j) \/ Before(s, j, i)) /\ ~Before(s, i, i)
  <2>1. i \in 1..Len(rows[s]) /\ j \in 1..Len(rows[s]) /\ i \in Int /\ j \in Int /\ v[i] \in Nat /\ v[j] \in Nat
    BY <1>2
  <2> QED BY <2>1, <1>1
<1>8. Up(a) = {} /\ Up(b) = {a}
  BY <1>4, <1>6, <1>7
<1>9. Is(a, 1) /\ Is(b, 2)
  <2>1. Cardinality(Up(a)) = 0 /\ Cardinality(Up(b)) = 1
    BY <1>8, FS_EmptySet, FS_Singleton
  <2> HIDE DEF Up
  <2> QED BY <2>1
<1> HIDE DEF Is
<1>10. Ranked(s, 1) \in A /\ Is(Ranked(s, 1), 1) /\ Ranked(s, 2) \in A
  BY <1>3, <1>9
<1>11. IsFiniteSet(Up(Ranked(s, 1)))
  <2>1. Len(rows[s]) \in Nat
    BY DEF RowsAreSound
  <2>2. IsFiniteSet(1..Len(rows[s]))
    BY <2>1, FS_Interval
  <2>3. IsFiniteSet(A)
    BY <2>2, <1>2, FS_Subset
  <2>4. Up(Ranked(s, 1)) \in SUBSET A
    OBVIOUS
  <2> HIDE DEF Up
  <2> QED BY <2>3, <2>4, FS_Subset
<1>12. Up(Ranked(s, 1)) = {}
  <2>1. Cardinality(Up(Ranked(s, 1))) = 0
    <3>1. Cardinality(Up(Ranked(s, 1))) = 1 - 1
      BY <1>10 DEF Is
    <3> HIDE DEF Up
    <3> QED BY <3>1
  <2> HIDE DEF Up
  <2> QED BY <2>1, <1>11, FS_EmptySet
<1>13. \A j \in A : ~Before(s, j, Ranked(s, 1))
  BY <1>12
<1>14. ASSUME NEW j \in A PROVE rows[s][j].version <= rows[s][Ranked(s, 1)].version
  <2> DEFINE i == Ranked(s, 1)
  <2>1. i \in 1..Len(rows[s]) /\ j \in 1..Len(rows[s]) /\ v[i] \in Nat /\ v[j] \in Nat
    BY <1>2, <1>10
  <2> HIDE DEF i
  <2>2. ~(v[j] > v[i])
    BY <2>1, <1>1, <1>13 DEF i
  <2>3. v[j] <= v[i]
    BY <2>1, <2>2
  <2> QED BY <2>1, <2>3, <1>1 DEF i
<1> QED BY <1>10, <1>14 DEF A

(* What a sound row says of its parts.                                      *)
LEMMA RowParts ==
  ASSUME NEW r, SoundRow(r)
  PROVE  /\ r \in NoteRows /\ r.version \in Nat /\ r.uses \in Nat /\ r.flags \in Nat
         /\ r.version + 1 \in Nat /\ r.uses + 1 \in Nat /\ r.flags + 0 \in Nat /\ r.flags + 1 \in Nat
<1>1. r \in NoteRows
  BY DEF SoundRow
<1>2. r.version \in Nat /\ r.uses \in Nat /\ r.flags \in Nat
  BY <1>1 DEF NoteRows
<1> QED BY <1>1, <1>2

(* Each operation reads its way to a good row.                              *)
LEMMA WriteKeeps == ASSUME NotesInv, NEW o \in Op, WriteSkill(o) PROVE NotesInv'
<1>1. RowsAreSound /\ bodies \in Nat /\ bodies' = bodies + 1 /\ "project" \in Scope
  BY DEF WriteSkill, NotesInv, RowsAreSound, Scope
<1>2. PICK v : v = Latest("project").version + 1 /\ v \in Nat /\ v >= 1
  <2>1. Latest("project").version \in Nat
    <3>1. CASE Latest("project") = NoRow
      BY <3>1 DEF NoRow
    <3>2. CASE Latest("project") # NoRow
      BY <3>2, <1>1, LatestIsSound DEF SoundRow, NoteRows
    <3> QED BY <3>1, <3>2
  <2> QED BY <2>1
<1>3. ~raced /\ NothingIsDead => TopsProject(v)
  BY <1>1, <1>2, LatestTops
<1>4. PICK scored \in BOOLEAN :
        Reads(o, "project", [NoRow EXCEPT !.body = bodies + 1, !.state = "quarantined", !.version = v,
                                          !.scored = scored])
  BY <1>2 DEF WriteSkill
<1>5. PICK row :
        /\ Reads(o, "project", row) /\ row \in NoteRows
        /\ row.body = bodies + 1 /\ row.version = v /\ row.state = "quarantined"
  <2> DEFINE b == bodies + 1
             row == [NoRow EXCEPT !.body = b, !.state = "quarantined", !.version = v, !.scored = scored]
  <2>1. Reads(o, "project", row) /\ b = bodies + 1
    BY <1>4
  <2>2. b \in Nat /\ NoRow \in NoteRows
    BY <1>1 DEF NoRow, NoteRows
  <2> HIDE DEF b
  <2>3. row \in NoteRows /\ row.body = b /\ row.version = v /\ row.state = "quarantined"
    BY <1>2, <2>2 DEF NoteRows
  <2> QED BY <2>1, <2>3
<1>6. SoundRow(row)'
  <2>1. bodies + 1 \in 1..bodies'
    BY <1>1
  <2> QED BY <2>1, <1>2, <1>5 DEF SoundRow
<1>7. bodies' \in Nat /\ bodies' >= bodies
  BY <1>1
<1> QED BY <1>1, <1>3, <1>5, <1>6, <1>7, ReadsKeeps

(* recordSkillUse prepares a counted, perhaps promoted copy of what it read. *)
LEMMA UseKeeps == ASSUME NotesInv, NEW o \in Op, RecordSkillUse(o) PROVE NotesInv'
<1>1. RowsAreSound /\ bodies' = bodies /\ bodies \in Nat /\ "project" \in Scope
  BY DEF RecordSkillUse, NotesInv, RowsAreSound, Scope
<1>2. PICK current : current = Latest("project") /\ SoundRow(current)
  BY <1>1, LatestIsSound DEF RecordSkillUse
<1>3. PICK flagged \in BOOLEAN :
        LET noted == [current EXCEPT !.uses = @ + 1, !.flags = @ + IF flagged THEN 1 ELSE 0,
                                    !.version = @ + 1]
        IN Reads(o, "project", [noted EXCEPT !.state = IF Promotes(noted) THEN "active" ELSE @])
  BY <1>2 DEF RecordSkillUse
<1> DEFINE noted == [current EXCEPT !.uses = @ + 1, !.flags = @ + IF flagged THEN 1 ELSE 0,
                                   !.version = @ + 1]
           row == [noted EXCEPT !.state = IF Promotes(noted) THEN "active" ELSE @]
<1>4. /\ noted \in NoteRows /\ noted.state = current.state /\ noted.body = current.body
      /\ noted.scored = current.scored /\ noted.version = current.version + 1
  <2> DEFINE u == current.uses + 1  f == current.flags + IF flagged THEN 1 ELSE 0  v == current.version + 1
  <2>1. current \in NoteRows /\ u \in Nat /\ f \in Nat /\ v \in Nat
    BY <1>2, RowParts
  <2>2. noted = [current EXCEPT !.uses = u, !.flags = f, !.version = v]
    OBVIOUS
  <2>3. v = current.version + 1
    OBVIOUS
  <2> HIDE DEF u, f, v, noted
  <2> QED BY <2>1, <2>2, <2>3 DEF NoteRows
<1>5. /\ row \in NoteRows /\ row.body = current.body /\ row.version = current.version + 1
      /\ row.state \in {"active", "global"} => row.scored
  <2>1. current.state \in {"active", "global"} => current.scored
    BY <1>2 DEF SoundRow
  <2> HIDE DEF noted
  <2>2. row \in NoteRows /\ row.body = noted.body /\ row.version = noted.version /\ row.scored = noted.scored
        /\ row.state = IF Promotes(noted) THEN "active" ELSE noted.state
    BY <1>4 DEF NoteRows
  <2>3. Promotes(noted) => noted.scored
    BY DEF Promotes
  <2> HIDE DEF row
  <2> QED BY <1>4, <2>1, <2>2, <2>3
<1>6. Reads(o, "project", row)
  BY <1>3
<1> HIDE DEF row, noted
<1>7. PICK new : new = row
  OBVIOUS
<1>8. current.version \in Nat /\ current.version >= 1 /\ current.body \in 1..bodies
  BY <1>2 DEF SoundRow, NoteRows
<1>9. SoundRow(new)'
  <2>1. current.version + 1 >= 1
    BY <1>8
  <2> QED BY <2>1, <1>1, <1>5, <1>8, <1>7 DEF SoundRow
<1>10. ~raced /\ NothingIsDead => TopsProject(new.version)
  BY <1>1, <1>2, <1>5, <1>7, LatestTops
<1>11. bodies' \in Nat /\ bodies' >= bodies
  BY <1>1
<1> QED BY <1>1, <1>6, <1>9, <1>10, <1>11, <1>7, ReadsKeeps

(* promoteToGlobal prepares a copy of an active row for the global file.    *)
LEMMA PromoteKeeps == ASSUME NotesInv, NEW o \in Op, PromoteToGlobal(o) PROVE NotesInv'
<1>1. RowsAreSound /\ bodies' = bodies /\ bodies \in Nat /\ "project" \in Scope /\ "global" \in Scope
  BY DEF PromoteToGlobal, NotesInv, RowsAreSound, Scope
<1>2. PICK current :
        /\ current = Latest("project") /\ SoundRow(current) /\ current.state = "active"
        /\ \E i \in 1..Len(rows["project"]) : current = rows["project"][i]
  <2>1. Latest("project").state = "active" /\ Latest("project") # NoRow
    BY DEF PromoteToGlobal, NoRow
  <2> QED BY <2>1, <1>1, LatestIsSound
<1> DEFINE row == [current EXCEPT !.state = "global", !.version = 1, !.uses = 0, !.flags = 0]
<1>3. Reads(o, "global", row)
  BY <1>2 DEF PromoteToGlobal
<1>4. row \in NoteRows /\ row.body = current.body /\ row.version = 1 /\ row.scored
  <2>1. current \in NoteRows /\ current.scored
    BY <1>2, RowParts DEF SoundRow
  <2> QED BY <2>1 DEF NoteRows
<1> HIDE DEF row
<1>5. PICK new : new = row
  OBVIOUS
<1>6. SoundRow(new)' /\ WasActive(new.body)
  <2>1. current.body \in 1..bodies
    BY <1>2 DEF SoundRow
  <2>2. SoundRow(new)'
    BY <2>1, <1>1, <1>4, <1>5 DEF SoundRow
  <2>3. WasActive(current.body)
    BY <1>2 DEF WasActive
  <2> QED BY <2>2, <2>3, <1>4, <1>5
<1>7. bodies' \in Nat /\ bodies' >= bodies
  BY <1>1
<1> QED BY <1>1, <1>3, <1>6, <1>7, <1>5, ReadsKeeps

(* rollbackSkill prepares the body of the second newest row again.          *)
LEMMA RollbackKeeps == ASSUME NotesInv, NEW o \in Op, RollbackSkill(o) PROVE NotesInv'
<1>1. RowsAreSound /\ bodies' = bodies /\ bodies \in Nat
  BY DEF RollbackSkill, NotesInv, RowsAreSound
<1>2. PICK s \in Scope :
        /\ \E i, j \in Alive(s) : i # j
        /\ Reads(o, s, [rows[s][Ranked(s, 2)] EXCEPT !.version = rows[s][Ranked(s, 1)].version + 1])
  BY DEF RollbackSkill
<1>3. PICK first, second \in Alive(s) :
        /\ first = Ranked(s, 1) /\ second = Ranked(s, 2)
        /\ \A j \in Alive(s) : rows[s][j].version <= rows[s][first].version
  BY <1>1, <1>2, RankedAreThere
<1>4. first \in 1..Len(rows[s]) /\ second \in 1..Len(rows[s])
  BY DEF Alive
<1>5. PICK back, v : back = rows[s][second] /\ v = rows[s][first].version + 1
  OBVIOUS
<1> DEFINE row == [back EXCEPT !.version = v]
<1>6. SoundRow(back) /\ rows[s][first].version \in Nat /\ v \in Nat /\ v >= 1
  <2>1. SoundRow(rows[s][first]) /\ SoundRow(rows[s][second])
    BY <1>1, <1>4 DEF RowsAreSound
  <2> QED BY <2>1, <1>5 DEF SoundRow, NoteRows
<1>7. Reads(o, s, row)
  BY <1>2, <1>3, <1>5
<1>8. s = "global" => WasActive(back.body)
  BY <1>1, <1>4, <1>5 DEF RowsAreSound
<1>9. ASSUME s = "project", NothingIsDead PROVE TopsProject(v)
  <2>1. \A i \in 1..Len(rows["project"]) : i \in Alive(s)
    BY <1>9 DEF NothingIsDead, Alive
  <2>2. \A i \in 1..Len(rows["project"]) : rows["project"][i].version <= rows[s][first].version
    BY <2>1, <1>3, <1>9
  <2>3. \A i \in 1..Len(rows["project"]) : rows["project"][i].version \in Nat
    BY <1>1 DEF RowsAreSound, SoundRow, NoteRows, Scope
  <2> QED BY <2>2, <2>3, <1>6, <1>5 DEF TopsProject
<1>10. row \in NoteRows /\ row.body = back.body /\ row.version = v /\ row.state = back.state /\ row.scored = back.scored
  BY <1>6 DEF SoundRow, NoteRows
<1> HIDE DEF row
<1>11. SoundRow(row)'
  BY <1>1, <1>6, <1>10 DEF SoundRow
<1>12. bodies' \in Nat /\ bodies' >= bodies
  BY <1>1
<1> QED BY <1>1, <1>7, <1>8, <1>9, <1>10, <1>11, <1>12, ReadsKeeps

(* deleteSkill prepares a tombstone above the newest row.                   *)
LEMMA DeleteKeeps == ASSUME NotesInv, NEW o \in Op, DeleteSkill(o) PROVE NotesInv'
<1>1. RowsAreSound /\ bodies' = bodies /\ bodies \in Nat
  BY DEF DeleteSkill, NotesInv, RowsAreSound
<1>2. PICK s \in Scope :
        Latest(s) # NoRow /\ Reads(o, s, [Latest(s) EXCEPT !.version = @ + 1, !.dead = TRUE])
  BY DEF DeleteSkill
<1>3. PICK current : current = Latest(s) /\ SoundRow(current) /\ (s = "global" => WasActive(current.body))
  BY <1>1, <1>2, LatestIsSound
<1> DEFINE row == [current EXCEPT !.version = @ + 1, !.dead = TRUE]
<1>4. Reads(o, s, row)
  BY <1>2, <1>3
<1>5. /\ row \in NoteRows /\ row.body = current.body /\ row.version = current.version + 1
      /\ row.state = current.state /\ row.scored = current.scored
  <2> DEFINE v == current.version + 1
  <2>1. current \in NoteRows /\ v \in Nat
    BY <1>3, RowParts
  <2>2. row = [current EXCEPT !.version = v, !.dead = TRUE]
    OBVIOUS
  <2> HIDE DEF v, row
  <2>3. row \in NoteRows /\ row.body = current.body /\ row.version = v /\ row.state = current.state /\ row.scored = current.scored
    BY <2>1, <2>2 DEF NoteRows
  <2> QED BY <2>3 DEF v
<1> HIDE DEF row
<1>6. current.version \in Nat /\ current.version + 1 >= 1
  BY <1>3, RowParts
<1>7. SoundRow(row)'
  BY <1>1, <1>3, <1>5, <1>6 DEF SoundRow
<1>8. s = "project" /\ ~raced /\ NothingIsDead => TopsProject(row.version)
  BY <1>1, <1>3, <1>5, LatestTops
<1>9. bodies' \in Nat /\ bodies' >= bodies
  BY <1>1
<1> QED BY <1>3, <1>4, <1>5, <1>7, <1>8, <1>9, ReadsKeeps

(* NotesPerSiteSafe, whatever operations overlap.                           *)
THEOREM NotesPerSiteSafeHolds == SkillSpec => []NotesPerSiteSafe
<1>1. NotesInv /\ [SkillNext]_skillVars => NotesInv'
  <2> SUFFICES ASSUME NotesInv, [SkillNext]_skillVars PROVE NotesInv'
    OBVIOUS
  <2>1. CASE UNCHANGED skillVars
    <3>1. UNCHANGED <<rows, op, bodies, raced>>
      BY <2>1 DEF skillVars
    <3>2. RowsAreSound'
      BY <3>1 DEF NotesInv, RowsAreSound, SoundRow, WasActive, NothingIsDead, TopsProject
    <3>3. \A t, r, n : GoodRead(t, r, n)' = GoodRead(t, r, n)
      BY <3>1 DEF GoodRead, SoundRow, WasActive, NothingIsDead, TopsProject
    <3> QED BY <3>1, <3>2, <3>3 DEF NotesInv
  <2> QED BY <2>1, WriteKeeps, UseKeeps, PromoteKeeps, RollbackKeeps, DeleteKeeps, AppendKeeps
          DEF SkillNext, SkillStep
<1>2. ASSUME NotesInv PROVE NotesPerSiteSafe
  <2>1. RowsAreSound /\ "project" \in Scope /\ "global" \in Scope
    BY <1>2 DEF NotesInv, Scope
  <2>2. SkillTypeOK /\ GlobalWasActive
    BY <2>1 DEF RowsAreSound, SoundRow, SkillTypeOK, GlobalWasActive, WasActive
  <2>3. FiresOnlyScanned
    <3>1. \A s \in Scope : Latest(s).state \in {"active", "global"} => Latest(s).scored
      <4>1. NoRow.state = "none"
        BY DEF NoRow
      <4> QED BY <4>1, <2>1, LatestIsSound DEF SoundRow
    <3> QED BY <2>1, <3>1 DEF FiresOnlyScanned, Fires
  <2>4. LastWriteIsSeen
    BY <2>1, LastIsNewest DEF LastWriteIsSeen, NothingIsDead
  <2> QED BY <2>2, <2>3, <2>4 DEF NotesPerSiteSafe
<1> QED BY <1>1, <1>2, InitNotes, PTL DEF SkillSpec
-----------------------------------------------------------------------------
(***************************************************************************)
(* The files of browser skills: what is approved is complete and nobody    *)
(* touches it again, so it is complete when a commit renames it into place *)
(* and when a removal renames it away.                                     *)
(***************************************************************************)
SkillDirs == [by : Staging \cup {"none", "hand"}, files : SUBSET File]
StagingStates == [at : {"new", "staging", "approved", "committing", "refused", "ended", "left", "dead"}, tier : Tier]
RunStates == [at : {"none", "running", "exited", "ended"}, timedOut : BOOLEAN, truncated : BOOLEAN,
              code : {0, 1}, result : {"none", "output", "error"}]

ApprovedIsWhole == \A w \in Staging : staging[w].at \in {"approved", "committing"} => staged[w].files = File

CommitIsLast ==
  \A w \in Staging : staged[w].by \in {w, "none"} /\ (Placed(w) => staging[w].at = "ended")

FilesTyped ==
  /\ dir \in [Tier -> SkillDirs] /\ staged \in [Staging -> SkillDirs]
  /\ staging \in [Staging -> StagingStates]
  /\ run \in [Run -> RunStates] /\ skillTokens \subseteq Run

FilesInv == FilesTyped /\ SkillsAreWhole /\ ApprovedIsWhole /\ CommitIsLast /\ NothingOutlivesItsUse

Removes == \A t \in Tier : dir[t] # NoDir /\ dir'[t] # dir[t] => dir'[t] = NoDir /\ dir[t] \in tombstones'

(* There is no skill at first.                                              *)
LEMMA InitSkillFiles == FilesInit => FilesInv
<1> SUFFICES ASSUME FilesInit PROVE FilesInv
  OBVIOUS
<1>1. NoDir \in SkillDirs /\ NoDir.by \notin Staging
  BY SkillFilesAssumption DEF NoDir, SkillDirs
<1>2. NotRun \in RunStates
  BY DEF NotRun, RunStates
<1>3. FilesTyped
  BY <1>1, <1>2 DEF FilesInit, FilesTyped, StagingStates
<1>4. SkillsAreWhole
  BY <1>1 DEF FilesInit, SkillsAreWhole
<1>6. \A w \in Staging : ~Placed(w)
  BY <1>1 DEF FilesInit, Placed
<1>7. \A w \in Staging : staged[w].by = "none"
  BY DEF FilesInit, NoDir
<1>5. ApprovedIsWhole /\ CommitIsLast /\ NothingOutlivesItsUse
  BY <1>6, <1>7 DEF FilesInit, ApprovedIsWhole, CommitIsLast, NothingOutlivesItsUse
<1> QED BY <1>3, <1>4, <1>5 DEF FilesInv

(* A staging moves on before its commit, and its directory with it: what it *)
(* has approved is whole.                                                   *)
LEMMA StagingSteps ==
  ASSUME FilesInv, NEW w \in Staging, UNCHANGED <<dir, tombstones, byHand, run, skillTokens>>,
         NEW to \in StagingStates, NEW d \in SkillDirs,
         staging' = [staging EXCEPT ![w] = to], staged' = [staged EXCEPT ![w] = d],
         to.at \in {"approved", "committing"} => d.files = File,
         staging[w].at # "ended", d.by \in {w, "none"}
  PROVE  FilesInv' /\ Removes
<1>1. FilesTyped'
  BY DEF FilesInv, FilesTyped
<1>2. /\ staging'[w] = to /\ staged'[w] = d
      /\ \A v \in Staging : v # w => staging'[v] = staging[v] /\ staged'[v] = staged[v]
  BY DEF FilesInv, FilesTyped
<1>3. SkillsAreWhole' /\ Removes
  BY DEF FilesInv, SkillsAreWhole, Removes
<1>4. ApprovedIsWhole'
  BY <1>2 DEF FilesInv, ApprovedIsWhole
<1>5. \A v \in Staging : Placed(v)' <=> Placed(v)
  BY DEF Placed
<1>6. ~Placed(w)
  BY DEF FilesInv, CommitIsLast
<1>7. CommitIsLast' /\ NothingOutlivesItsUse'
  BY <1>2, <1>5, <1>6 DEF FilesInv, CommitIsLast, NothingOutlivesItsUse
<1> QED BY <1>1, <1>3, <1>4, <1>7 DEF FilesInv

(* The steps of a staging process other than the rename touch only its own  *)
(* staging directory.                                                       *)
LEMMA StagingKeeps ==
  ASSUME FilesInv, NEW w \in Staging,
         \/ Stages(w) \/ StagesFile(w) \/ StageFails(w) \/ IsApproved(w) \/ IsRejected(w)
         \/ ChecksDest(w) \/ DiscardStaged(w) \/ StagingDies(w)
  PROVE  FilesInv' /\ Removes
<1>1. staging \in [Staging -> StagingStates] /\ staged \in [Staging -> SkillDirs]
  BY DEF FilesInv, FilesTyped
<1>2. PICK was \in StagingStates, held \in SkillDirs : was = staging[w] /\ held = staged[w]
  BY <1>1
<1>3. NoDir \in SkillDirs
  BY DEF NoDir, SkillDirs
<1>4. UNCHANGED <<dir, tombstones, byHand, run, skillTokens>>
  BY DEF Stages, StagesFile, StageFails, IsApproved, IsRejected, ChecksDest, DiscardStaged, StagingDies,
         OthersStay
<1> DEFINE Moved(at) == [was EXCEPT !.at = at]
           Moves(at) == staging' = [staging EXCEPT ![w] = Moved(at)]
<1>5. ASSUME NEW at, staging' = [staging EXCEPT ![w].at = at]
      PROVE  Moves(at)
  BY <1>2, <1>5
<1>6. ASSUME NEW at \in {"staging", "approved", "committing", "refused", "ended", "left", "dead"}
      PROVE  Moved(at) \in StagingStates /\ Moved(at).at = at
  BY <1>2 DEF StagingStates
<1> HIDE DEF Moved
<1>7. staged = [staged EXCEPT ![w] = held] /\ staging = [staging EXCEPT ![w] = was]
  BY <1>1, <1>2
<1>8. ApprovedIsWhole /\ was.at # "ended" /\ held.by \in {w, "none"} /\ NoDir.by = "none"
  BY <1>2 DEF FilesInv, CommitIsLast, NoDir, Stages, StagesFile, StageFails, IsApproved, IsRejected, ChecksDest,
              DiscardStaged, StagingDies, At
<1>9. CASE Stages(w)
  <2>1. Moves("staging")
    BY <1>5, <1>9 DEF Stages, At
  <2> DEFINE d == [held EXCEPT !.by = w]
  <2>2. staged' = [staged EXCEPT ![w] = d]
    BY <1>2, <1>9 DEF Stages
  <2>3. d \in SkillDirs /\ d.by = w
    BY <1>2 DEF SkillDirs
  <2> HIDE DEF d
  <2> QED BY <2>1, <2>2, <2>3, <1>2, <1>4, <1>6, <1>8, StagingSteps
<1>10. CASE StagesFile(w)
  <2>1. PICK f \in File : staged' = [staged EXCEPT ![w].files = @ \cup {f}]
    BY <1>10 DEF StagesFile
  <2> DEFINE more == held.files \cup {f}  d == [held EXCEPT !.files = more]
  <2>2. staged' = [staged EXCEPT ![w] = d]
    BY <2>1, <1>2
  <2>3. more \in SUBSET File
    BY <1>2 DEF SkillDirs
  <2> HIDE DEF more
  <2>4. d \in SkillDirs /\ d.by = held.by
    BY <2>3, <1>2 DEF SkillDirs
  <2>5. staging' = [staging EXCEPT ![w] = was] /\ was.at = "staging"
    BY <1>2, <1>7, <1>10 DEF StagesFile
  <2> HIDE DEF d
  <2> QED BY <2>2, <2>4, <2>5, <1>2, <1>4, <1>8, StagingSteps
<1>11. CASE IsApproved(w)
  <2>1. Moves("approved") /\ staged' = [staged EXCEPT ![w] = held] /\ held.files = File
    BY <1>2, <1>5, <1>7, <1>11 DEF IsApproved, At
  <2> QED BY <2>1, <1>2, <1>4, <1>6, <1>8, StagingSteps
<1>12. CASE IsRejected(w)
  <2>1. Moves("refused") /\ staged' = [staged EXCEPT ![w] = held]
    BY <1>5, <1>7, <1>12 DEF IsRejected, At
  <2> QED BY <2>1, <1>2, <1>4, <1>6, <1>8, StagingSteps
<1>13. CASE ChecksDest(w)
  <2>1. Moves("committing") \/ Moves("refused")
    BY <1>5, <1>13 DEF ChecksDest, At
  <2>2. staged' = [staged EXCEPT ![w] = held] /\ held.files = File
    BY <1>2, <1>7, <1>8, <1>13 DEF ChecksDest, At, ApprovedIsWhole
  <2> QED BY <2>1, <2>2, <1>2, <1>4, <1>6, <1>8, StagingSteps
<1>14. CASE DiscardStaged(w)
  <2>1. CASE At(w, "refused", "ended") /\ staged' = [staged EXCEPT ![w] = NoDir]
    <3>1. Moves("ended")
      BY <1>5, <2>1 DEF At
    <3> QED BY <2>1, <3>1, <1>2, <1>3, <1>4, <1>6, <1>8, StagingSteps
  <2>2. ASSUME At(w, "refused", "left"), NEW files \in SUBSET staged[w].files,
               staged' = [staged EXCEPT ![w].files = files]
        PROVE  FilesInv' /\ Removes
    <3>1. Moves("left")
      BY <1>5, <2>2 DEF At
    <3>2. files \in SUBSET File
      BY <1>2, <2>2 DEF SkillDirs
    <3> DEFINE d == [held EXCEPT !.files = files]
    <3>3. staged' = [staged EXCEPT ![w] = d]
      BY <1>2, <2>2
    <3>4. d \in SkillDirs /\ d.by = held.by
      BY <1>2, <3>2 DEF SkillDirs
    <3> HIDE DEF d
    <3> QED BY <3>1, <3>3, <3>4, <1>2, <1>4, <1>6, <1>8, StagingSteps
  <2> QED BY <1>14, <2>1, <2>2 DEF DiscardStaged
<1>16. CASE StageFails(w)
  <2>1. Moves("left") /\ staged' = [staged EXCEPT ![w] = held]
    BY <1>5, <1>7, <1>16 DEF StageFails, At
  <2> QED BY <2>1, <1>2, <1>4, <1>6, <1>8, StagingSteps
<1>15. CASE StagingDies(w)
  <2>1. Moves("dead") /\ staged' = [staged EXCEPT ![w] = held]
    BY <1>5, <1>7, <1>15 DEF StagingDies
  <2> QED BY <2>1, <1>2, <1>4, <1>6, <1>8, StagingSteps
<1> QED BY <1>9, <1>10, <1>11, <1>12, <1>13, <1>14, <1>15, <1>16

(* commitSkill: the rename comes too late, or puts a whole skill where      *)
(* there was none.                                                          *)
LEMMA CommitKeeps == ASSUME FilesInv, NEW w \in Staging, Commits(w) PROVE FilesInv' /\ Removes
<1> DEFINE t == staging[w].tier
<1>1. /\ staging \in [Staging -> StagingStates] /\ staged \in [Staging -> SkillDirs]
      /\ dir \in [Tier -> SkillDirs] /\ t \in Tier
  BY DEF FilesInv, FilesTyped, StagingStates
<1>2. staging[w].at = "committing" /\ UNCHANGED <<tombstones, byHand, run, skillTokens>>
  BY DEF Commits, At, OthersStay
<1>3. CASE dir[t] = NoDir
  <2>1. /\ staging' = [staging EXCEPT ![w].at = "ended"] /\ staged' = [staged EXCEPT ![w] = NoDir]
        /\ dir' = [dir EXCEPT ![t] = staged[w]]
    BY <1>3 DEF Commits, At
  <2>2. FilesTyped'
    <3>1. staging' \in [Staging -> StagingStates]
      BY <2>1, <1>1 DEF StagingStates
    <3>2. NoDir \in SkillDirs
      BY DEF NoDir, SkillDirs
    <3> QED BY <3>1, <3>2, <2>1, <1>1, <1>2 DEF FilesInv, FilesTyped
  <2>3. staged[w].files = File
    BY <1>2 DEF FilesInv, ApprovedIsWhole
  <2> HIDE DEF t
  <2>4. SkillsAreWhole'
    BY <2>1, <2>3, <1>1, <1>2 DEF FilesInv, SkillsAreWhole
  <2>5. Removes
    BY <2>1, <1>1, <1>3 DEF Removes
  <2>6. /\ \A v \in Staging : v # w => staging'[v] = staging[v] /\ staged'[v] = staged[v]
        /\ staging'[w].at = "ended" /\ staged'[w] = NoDir
    BY <2>1, <1>1 DEF StagingStates
  <2>7. ApprovedIsWhole'
    BY <2>6, <1>2 DEF FilesInv, ApprovedIsWhole
  <2>8. staged[w].by \in {w, "none"} /\ "none" \notin Staging /\ NoDir.by = "none"
    BY SkillFilesAssumption DEF FilesInv, CommitIsLast, NoDir
  <2>9. \A v \in Staging : Placed(v)' => v = w \/ Placed(v)
    BY <2>1, <2>8, <1>1, <1>2 DEF Placed
  <2>10. CommitIsLast' /\ NothingOutlivesItsUse'
    BY <2>6, <2>8, <2>9, <1>2 DEF FilesInv, CommitIsLast, NothingOutlivesItsUse
  <2> QED BY <2>2, <2>4, <2>5, <2>7, <2>10 DEF FilesInv
<1>4. CASE dir[t] # NoDir
  <2>1. PICK was \in StagingStates : was = staging[w]
    BY <1>1
  <2> DEFINE to == [was EXCEPT !.at = "refused"]
  <2>2. staging' = [staging EXCEPT ![w] = to] /\ UNCHANGED <<dir, staged>>
    BY <1>4, <2>1 DEF Commits, At
  <2>3. to \in StagingStates /\ to.at = "refused"
    BY <2>1 DEF StagingStates
  <2>4. /\ staged' = [staged EXCEPT ![w] = staged[w]] /\ staged[w] \in SkillDirs
        /\ staged[w].by \in {w, "none"}
    BY <2>2, <1>1 DEF FilesInv, CommitIsLast
  <2> HIDE DEF to
  <2> QED BY <2>2, <2>3, <2>4, <1>2, StagingSteps
<1> QED BY <1>3, <1>4

(* A user writes where there is nothing; a removal keeps what it removes.   *)
LEMMA TierKeeps ==
  ASSUME FilesInv, NEW t \in Tier, WritesByHand(t) \/ TombstoneBrowserSkill(t)
  PROVE  FilesInv' /\ Removes
<1>1. UNCHANGED <<staged, staging, run, skillTokens>> /\ dir \in [Tier -> SkillDirs]
  BY DEF WritesByHand, TombstoneBrowserSkill, OthersStay, FilesInv, FilesTyped
<1>2. ApprovedIsWhole'
  BY <1>1 DEF FilesInv, ApprovedIsWhole
<1>5. ASSUME \A w \in Staging : Placed(w)' => Placed(w)
      PROVE  CommitIsLast' /\ NothingOutlivesItsUse'
  BY <1>1, <1>5 DEF FilesInv, CommitIsLast, NothingOutlivesItsUse
<1>3. CASE WritesByHand(t)
  <2>1. PICK files \in {File, File \ {Script}} : dir' = [dir EXCEPT ![t] = [by |-> "hand", files |-> files]]
    BY <1>3 DEF WritesByHand
  <2> DEFINE d == [by |-> "hand", files |-> files]
  <2>2. d \in SkillDirs /\ d.by = "hand" /\ dir' = [dir EXCEPT ![t] = d]
    BY <2>1 DEF SkillDirs
  <2> HIDE DEF d
  <2>3. dir[t] = NoDir /\ tombstones' = tombstones
    BY <1>3 DEF WritesByHand
  <2>4. FilesTyped'
    BY <2>2, <1>1 DEF FilesInv, FilesTyped
  <2>5. SkillsAreWhole'
    BY <2>2, <2>3, <1>1, SkillFilesAssumption DEF FilesInv, SkillsAreWhole
  <2>6. Removes
    BY <2>2, <2>3, <1>1 DEF Removes
  <2>7. \A w \in Staging : Placed(w)' => Placed(w)
    BY <2>2, <2>3, <1>1, SkillFilesAssumption DEF Placed
  <2> QED BY <1>2, <1>5, <2>4, <2>5, <2>6, <2>7 DEF FilesInv
<1>4. CASE TombstoneBrowserSkill(t)
  <2>1. tombstones' = tombstones \cup {dir[t]} /\ dir' = [dir EXCEPT ![t] = NoDir]
    BY <1>4 DEF TombstoneBrowserSkill
  <2>2. NoDir \in SkillDirs /\ NoDir.by \notin Staging
    BY SkillFilesAssumption DEF NoDir, SkillDirs
  <2>3. FilesTyped'
    BY <2>1, <2>2, <1>1 DEF FilesInv, FilesTyped
  <2>4. SkillsAreWhole'
    BY <2>1, <2>2, <1>1 DEF FilesInv, SkillsAreWhole
  <2>5. Removes
    BY <2>1, <1>1 DEF Removes
  <2>6. \A w \in Staging : Placed(w)' => Placed(w)
    BY <2>1, <2>2, <1>1 DEF Placed
  <2> QED BY <1>2, <1>5, <2>3, <2>4, <2>5, <2>6 DEF FilesInv
<1> QED BY <1>3, <1>4

(* A run has a token from its spawn to its end at most.                     *)
LEMMA RunKeeps ==
  ASSUME FilesInv, NEW r \in Run,
         SpawnSkill(r) \/ KillerFires(r) \/ ChildExits(r) \/ ReturnsResult(r) \/ TokenExpires(r)
  PROVE  FilesInv' /\ Removes
<1>1. UNCHANGED <<dir, staged, staging, tombstones>> /\ run \in [Run -> RunStates] /\ skillTokens \subseteq Run
  BY DEF SpawnSkill, KillerFires, ChildExits, ReturnsResult, TokenExpires, FilesInv, FilesTyped
<1>2. /\ run' \in [Run -> RunStates] /\ \A q \in Run : q # r => run'[q] = run[q]
      /\ skillTokens' \subseteq skillTokens \cup {r}
      /\ r \in skillTokens' => run'[r].at \in {"running", "exited"}
  <2>1. r \in skillTokens => run[r].at \in {"running", "exited"}
    BY DEF FilesInv, NothingOutlivesItsUse
  <2>2. CASE SpawnSkill(r)
    BY <1>1, <2>1, <2>2 DEF SpawnSkill, RunStates
  <2>3. CASE KillerFires(r)
    BY <1>1, <2>1, <2>3 DEF KillerFires, RunStates
  <2>4. CASE ChildExits(r)
    <3>1. PICK code \in {0, 1}, big \in BOOLEAN :
            run' = [run EXCEPT ![r].at = "exited", ![r].code = code, ![r].truncated = big]
      BY <2>4 DEF ChildExits
    <3>2. PICK was \in RunStates : was = run[r]
      BY <1>1
    <3> DEFINE to == [was EXCEPT !.at = "exited", !.code = code, !.truncated = big]
    <3>3. to \in RunStates /\ to.at = "exited"
      BY <3>1, <3>2 DEF RunStates
    <3>4. run' = [run EXCEPT ![r] = to]
      BY <3>1, <3>2
    <3> HIDE DEF to
    <3> QED BY <3>3, <3>4, <1>1, <2>1, <2>4 DEF ChildExits
  <2>5. CASE ReturnsResult(r)
    BY <1>1, <2>1, <2>5 DEF ReturnsResult, Result, RunStates
  <2>6. CASE TokenExpires(r)
    BY <1>1, <2>1, <2>6 DEF TokenExpires, RunStates
  <2> QED BY <2>2, <2>3, <2>4, <2>5, <2>6
<1>3. FilesTyped' /\ SkillsAreWhole' /\ ApprovedIsWhole' /\ CommitIsLast' /\ Removes
  BY <1>1, <1>2 DEF FilesInv, FilesTyped, SkillsAreWhole, ApprovedIsWhole, CommitIsLast, Placed, Removes
<1>4. NothingOutlivesItsUse'
  BY <1>1, <1>2 DEF FilesInv, NothingOutlivesItsUse, Placed
<1> QED BY <1>3, <1>4 DEF FilesInv

(* SkillFilesCorrect, whatever stagings, users and runs do.                 *)
THEOREM SkillFilesCorrectHolds == FilesSpec => SkillFilesCorrect
<1>1. ASSUME FilesInv, [FilesNext]_skillFileVars PROVE FilesInv' /\ Removes
  <2>1. CASE UNCHANGED skillFileVars
    <3>1. UNCHANGED <<dir, staged, staging, tombstones, run, skillTokens>>
      BY <2>1 DEF skillFileVars
    <3> QED BY <3>1, <1>1 DEF FilesInv, FilesTyped, SkillsAreWhole, ApprovedIsWhole, CommitIsLast, Placed,
                              NothingOutlivesItsUse, Removes
  <2>2. CASE \E w \in Staging : \/ Stages(w) \/ StagesFile(w) \/ StageFails(w) \/ IsApproved(w) \/ IsRejected(w)
                                \/ ChecksDest(w) \/ Commits(w) \/ DiscardStaged(w) \/ StagingDies(w)
    BY <2>2, <1>1, StagingKeeps, CommitKeeps
  <2>3. CASE \E t \in Tier : WritesByHand(t) \/ TombstoneBrowserSkill(t)
    BY <2>3, <1>1, TierKeeps
  <2>4. CASE \E r \in Run : SpawnSkill(r) \/ KillerFires(r) \/ ChildExits(r) \/ ReturnsResult(r) \/ TokenExpires(r)
    BY <2>4, <1>1, RunKeeps
  <2> QED BY <1>1, <2>1, <2>2, <2>3, <2>4 DEF FilesNext
<1>2. FilesInv => SkillsAreWhole /\ NothingOutlivesItsUse
  BY DEF FilesInv
<1>3. FilesInv /\ [FilesNext]_skillFileVars =>
        FilesInv' /\ [\A t \in Tier : dir[t] # NoDir /\ dir'[t] # dir[t]
                         => dir'[t] = NoDir /\ dir[t] \in tombstones']_skillFileVars
  BY <1>1 DEF Removes
<1> QED BY <1>2, <1>3, InitSkillFiles, PTL DEF FilesSpec, SkillFilesCorrect, RemovedIsKept
-----------------------------------------------------------------------------
(* The cookie and lease stores.  Cookies expire in the order in which they  *)
(* were minted (CookiesAge), so when the cap takes the oldest before its    *)
(* time, all the others still have time too.                                *)

(* A map whose ids are among the first k                                    *)
MapOf(map, k) ==
  /\ IsFiniteSet(map) /\ map \subseteq [id : 1..k, expiresAt : Nat]
  /\ \A d, e \in map : d.id = e.id => d = e

CookiesAge ==
  /\ \A e \in cookies : e.expiresAt <= now + Ttl
  /\ \A d, e \in cookies : d.id < e.id => d.expiresAt <= e.expiresAt

StoreInv ==
  /\ now \in Nat /\ mints \in Nat
  /\ MapOf(cookies, mints) /\ Cardinality(cookies) <= MaxSessions
  /\ MapOf(leases, mints) /\ Cardinality(leases) <= MaxSessions
  /\ CookiesAge

(* A set of entries has an oldest one.                                      *)
LEMMA OldestEntry ==
  ASSUME NEW k \in Nat, NEW map, MapOf(map, k), map # {}
  PROVE  \E m \in map : \A e \in map \ {m} : e.id > m.id
<1> DEFINE ids == {e.id : e \in map}
<1>1. ids # {} /\ ids \subseteq Nat
  BY DEF MapOf
<1>2. PICK least \in ids : \A i \in ids : ~(<<i, least>> \in OpToRel(<, Nat))
  BY <1>1, NatLessThanWellFounded, WFMin
<1>3. ASSUME NEW i \in ids, i < least PROVE FALSE
  <2>1. <<i, least>> \in Nat \X Nat /\ <<i, least>>[1] < <<i, least>>[2]
    BY <1>1, <1>3
  <2>2. <<i, least>> \in OpToRel(<, Nat)
    BY <2>1 DEF OpToRel
  <2> QED BY <1>2, <2>2
<1>4. PICK m \in map : m.id = least
  BY <1>2
<1>5. ASSUME NEW e \in map \ {m} PROVE e.id > m.id
  <2>1. e.id \in ids /\ m.id \in ids /\ e.id # m.id
    BY <1>4 DEF MapOf
  <2>2. e.id \in Nat /\ m.id \in Nat /\ ~(e.id < m.id)
    BY <1>1, <1>3, <1>4, <2>1
  <2> QED BY <2>1, <2>2
<1> QED BY <1>5

(* Part of a map is a map.                                                  *)
LEMMA PartOfMap ==
  ASSUME NEW k \in Nat, NEW map, MapOf(map, k), NEW part \in SUBSET map
  PROVE  MapOf(part, k) /\ Cardinality(part) \in Nat /\ Cardinality(part) <= Cardinality(map)
<1>1. IsFiniteSet(map)
  BY DEF MapOf
<1>2. IsFiniteSet(part) /\ Cardinality(part) <= Cardinality(map)
  BY <1>1, FS_Subset
<1>3. Cardinality(part) \in Nat
  BY <1>2, FS_CardinalityType
<1> QED BY <1>2, <1>3 DEF MapOf

(* pruneExpired leaves a part of the map, within the cap.                   *)
LEMMA PrunedIs ==
  ASSUME NEW k \in Nat, NEW map, MapOf(map, k)
  PROVE  /\ PruneExpired(map) \subseteq map /\ MapOf(PruneExpired(map), k)
         /\ Cardinality(PruneExpired(map)) <= MaxSessions
<1>1. PICK live : live = Unexpired(map)
  OBVIOUS
<1>2. PICK kept : kept = UpToCap(live)
  OBVIOUS
<1>3. live \in SUBSET map /\ kept \in SUBSET live /\ kept = PruneExpired(map)
  BY <1>1, <1>2 DEF Unexpired, UpToCap, PruneExpired
<1>4. MapOf(live, k) /\ MapOf(kept, k) /\ Cardinality(kept) \in Nat
  BY <1>3, PartOfMap
<1>5. MaxSessions \in Nat
  BY SessionStoresAssumption
<1>6. CASE kept = {}
  <2>1. Cardinality(kept) = 0
    BY <1>6, FS_EmptySet
  <2> QED BY <1>3, <1>4, <1>5, <2>1
<1>7. CASE kept # {}
  <2>1. PICK m \in kept : \A e \in kept \ {m} : e.id > m.id
    BY <1>4, <1>7, OldestEntry
  <2>2. PICK newer : newer = Newer(live, m)
    OBVIOUS
  <2>3. newer \in SUBSET live /\ kept \ {m} \subseteq newer /\ Cardinality(newer) < MaxSessions
    BY <1>2, <1>3, <2>1, <2>2 DEF Newer, UpToCap
  <2>4. MapOf(newer, k) /\ Cardinality(newer) \in Nat
    BY <1>4, <2>3, PartOfMap
  <2>5. Cardinality(kept \ {m}) \in Nat /\ Cardinality(kept \ {m}) <= Cardinality(newer)
    BY <2>3, <2>4, PartOfMap
  <2>6. Cardinality(kept \ {m}) = Cardinality(kept) - 1
    BY <1>4, <2>1, FS_RemoveElement DEF MapOf
  <2>7. Cardinality(kept) <= MaxSessions
    BY <1>4, <1>5, <2>3, <2>4, <2>5, <2>6
  <2> QED BY <1>3, <1>4, <2>7
<1> QED BY <1>6, <1>7

(* What pruneExpired takes before its time was the oldest of a map over the *)
(* cap.                                                                     *)
LEMMA TakesTheOldest ==
  ASSUME NEW k \in Nat, NEW map, MapOf(map, k), Cardinality(map) <= MaxSessions + 1,
         NEW e \in map, e.expiresAt > now, e \notin PruneExpired(map)
  PROVE  Cardinality(map) = MaxSessions + 1 /\ \A d \in map \ {e} : d.id > e.id
<1>1. PICK live : live = Unexpired(map)
  OBVIOUS
<1>2. PICK newer : newer = Newer(live, e)
  OBVIOUS
<1>3. live \subseteq map /\ e \in live
  BY <1>1 DEF Unexpired
<1>4. ~(Cardinality(newer) < MaxSessions)
  BY <1>1, <1>2, <1>3 DEF PruneExpired, UpToCap
<1>5. PICK others : others = map \ {e}
  OBVIOUS
<1>6. e.id \in Nat
  BY DEF MapOf
<1>7. newer \in SUBSET others /\ \A d \in newer : d.id > e.id
  BY <1>2, <1>3, <1>5, <1>6 DEF Newer
<1>8. IsFiniteSet(map) /\ IsFiniteSet(others) /\ Cardinality(others) = Cardinality(map) - 1
  BY <1>5, FS_RemoveElement DEF MapOf
<1>9. /\ IsFiniteSet(newer) /\ Cardinality(newer) <= Cardinality(others)
      /\ Cardinality(newer) = Cardinality(others) => newer = others
  BY <1>7, <1>8, FS_Subset
<1>10. Cardinality(map) \in Nat /\ Cardinality(others) \in Nat /\ Cardinality(newer) \in Nat /\ MaxSessions \in Nat
  BY <1>8, <1>9, FS_CardinalityType, SessionStoresAssumption
<1>11. Cardinality(newer) = Cardinality(others) /\ Cardinality(map) = MaxSessions + 1
  BY <1>4, <1>8, <1>9, <1>10
<1> QED BY <1>5, <1>7, <1>9, <1>11

(* A map with a new entry.                                                  *)
LEMMA MintedIs ==
  ASSUME NEW k \in Nat, NEW map, MapOf(map, k), now \in Nat
  PROVE  LET more == map \cup {Entry(k + 1)}
         IN /\ MapOf(more, k + 1) /\ Cardinality(more) = Cardinality(map) + 1
            /\ Cardinality(map) \in Nat
<1>1. PICK new : new = Entry(k + 1)
  OBVIOUS
<1>2. new \in [id : 1..(k + 1), expiresAt : Nat] /\ new.id = k + 1
  BY <1>1, SessionStoresAssumption DEF Entry
<1>3. \A e \in map : e \in [id : 1..k, expiresAt : Nat]
  BY DEF MapOf
<1>4. \A e \in map : e \in [id : 1..(k + 1), expiresAt : Nat] /\ e.id # k + 1
  BY <1>3
<1>5. PICK more : more = map \cup {new}
  OBVIOUS
<1>6. new \notin map
  BY <1>2, <1>4
<1>7. IsFiniteSet(more) /\ Cardinality(more) = Cardinality(map) + 1 /\ Cardinality(map) \in Nat
  BY <1>5, <1>6, FS_AddElement, FS_CardinalityType DEF MapOf
<1>8. \A d, e \in more : d.id = e.id => d = e
  BY <1>2, <1>4, <1>5 DEF MapOf
<1>9. MapOf(more, k + 1)
  BY <1>2, <1>4, <1>5, <1>7, <1>8 DEF MapOf
<1> QED BY <1>1, <1>5, <1>7, <1>9

(* A map with one of its entries extended.                                  *)
LEMMA ExtendedIs ==
  ASSUME NEW k \in Nat, NEW map, MapOf(map, k), now \in Nat, NEW i \in 1..k, Known(map, i)
  PROVE  MapOf(Extended(map, i), k) /\ Cardinality(Extended(map, i)) <= Cardinality(map)
<1>1. PICK old \in map : old.id = i
  BY DEF Known
<1>2. PICK others : others = map \ {old}
  OBVIOUS
<1>3. Without(map, i) = others
  BY <1>1, <1>2 DEF Without, MapOf
<1>4. IsFiniteSet(others) /\ Cardinality(others) = Cardinality(map) - 1 /\ Cardinality(map) \in Nat
  BY <1>1, <1>2, FS_RemoveElement, FS_CardinalityType DEF MapOf
<1>5. PICK new : new = Entry(i)
  OBVIOUS
<1>6. new \in [id : 1..k, expiresAt : Nat] /\ new.id = i
  BY <1>5, SessionStoresAssumption DEF Entry
<1>7. \A e \in others : e.id # i
  BY <1>1, <1>2 DEF MapOf
<1>8. new \notin others
  BY <1>6, <1>7
<1>9. PICK all : all = others \cup {new}
  OBVIOUS
<1>10. IsFiniteSet(all) /\ Cardinality(all) = Cardinality(others) + 1
  BY <1>4, <1>8, <1>9, FS_AddElement
<1>11. \A d, e \in all : d.id = e.id => d = e
  BY <1>2, <1>6, <1>7, <1>9 DEF MapOf
<1>12. MapOf(all, k)
  BY <1>2, <1>6, <1>9, <1>10, <1>11 DEF MapOf
<1>13. Extended(map, i) = all
  BY <1>3, <1>5, <1>9 DEF Extended
<1> QED BY <1>4, <1>10, <1>12, <1>13

(* What a step may do to the entries of the maps                            *)
StaysDead ==
  \A i \in 1..mints : /\ ~Valid(cookies, i) => ~Valid(cookies, i)'
                      /\ ~Valid(leases, i) => ~Valid(leases, i)'

ForgetsForAReason ==
  \A e \in cookies : e.expiresAt > now' /\ ~Known(cookies', e.id) =>
    \/ e.id \in revoked'
    \/ /\ Cardinality(cookies) = MaxSessions
       /\ \A d \in cookies : e.id <= d.id /\ d.expiresAt > now

StoresStep == StoreInv' /\ StaysDead /\ ForgetsForAReason

(* The entries of a map are numbers.                                        *)
LEMMA EntryIs ==
  ASSUME NEW k \in Nat, NEW map, MapOf(map, k), NEW e \in map
  PROVE  e.id \in 1..k /\ e.expiresAt \in Nat
BY DEF MapOf

(* Cookies and leases that are only taken out of their maps.                *)
LEMMA TakenOut ==
  ASSUME StoreInv, cookies' \subseteq cookies, leases' \subseteq leases, now' = now, mints' = mints
  PROVE  StoreInv' /\ StaysDead
<1>1. now \in Nat /\ mints \in Nat /\ MaxSessions \in Nat
  BY SessionStoresAssumption DEF StoreInv
<1>2. PICK c \in SUBSET cookies, l \in SUBSET leases : c = cookies' /\ l = leases'
  OBVIOUS
<1>3. /\ MapOf(c, mints) /\ Cardinality(c) \in Nat /\ Cardinality(c) <= Cardinality(cookies)
      /\ MapOf(l, mints) /\ Cardinality(l) \in Nat /\ Cardinality(l) <= Cardinality(leases)
  BY <1>1, PartOfMap DEF StoreInv
<1>4. Cardinality(cookies) \in Nat /\ Cardinality(leases) \in Nat
  BY FS_CardinalityType DEF StoreInv, MapOf
<1>5. Cardinality(c) <= MaxSessions /\ Cardinality(l) <= MaxSessions
  BY <1>1, <1>3, <1>4 DEF StoreInv
<1>6. CookiesAge'
  BY DEF StoreInv, CookiesAge
<1>7. StoreInv'
  BY <1>1, <1>2, <1>3, <1>5, <1>6 DEF StoreInv, MapOf
<1>8. StaysDead
  BY DEF StaysDead, Valid
<1> QED BY <1>7, <1>8

(* mint: the cap takes the oldest cookie only.                              *)
LEMMA MintsKeep ==
  ASSUME StoreInv, NEW kind \in {"cookie", "lease"}, Mints(kind)
  PROVE  StoresStep
<1>1. /\ now \in Nat /\ mints \in Nat /\ MaxSessions \in Nat /\ Ttl \in Nat
      /\ now' = now /\ mints' = mints + 1
  BY SessionStoresAssumption DEF StoreInv, Mints
<1>2. PICK new : new = Entry(mints + 1)
  OBVIOUS
<1>3. new.id = mints + 1 /\ new.expiresAt = now + Ttl
  BY <1>2 DEF Entry
<1>4. PICK cs : cs = cookies \cup {new}
  OBVIOUS
<1>5. PICK ls : ls = leases \cup {new}
  OBVIOUS
<1>6. /\ MapOf(cs, mints + 1) /\ Cardinality(cs) = Cardinality(cookies) + 1
      /\ Cardinality(cookies) \in Nat
  BY <1>1, <1>2, <1>4, MintedIs DEF StoreInv
<1>7. MapOf(ls, mints + 1) /\ Cardinality(leases) \in Nat
  BY <1>1, <1>2, <1>5, MintedIs DEF StoreInv
<1>8. PICK pc : pc = PruneExpired(cs)
  OBVIOUS
<1>9. PICK pl : pl = PruneExpired(ls)
  OBVIOUS
<1>10. /\ pc \subseteq cs /\ MapOf(pc, mints + 1) /\ Cardinality(pc) <= MaxSessions
       /\ pl \subseteq ls /\ MapOf(pl, mints + 1) /\ Cardinality(pl) <= MaxSessions
  BY <1>1, <1>6, <1>7, <1>8, <1>9, PrunedIs
<1>11. /\ MapOf(cookies, mints + 1) /\ Cardinality(cookies) <= MaxSessions
       /\ MapOf(leases, mints + 1) /\ Cardinality(leases) <= MaxSessions
  <2>1. 1..mints \subseteq 1..(mints + 1)
    BY <1>1
  <2> QED BY <2>1 DEF StoreInv, MapOf
<1>12. /\ kind = "cookie" => cookies' = pc /\ leases' = leases
       /\ kind = "lease" => cookies' = cookies /\ leases' = pl
  BY <1>2, <1>4, <1>5, <1>8, <1>9 DEF Mints
<1>13. \A e \in cookies : e.id \in 1..mints /\ e.expiresAt \in Nat
  BY <1>1, EntryIs DEF StoreInv
<1>14. cookies' \subseteq cs /\ leases' \subseteq ls
  BY <1>4, <1>5, <1>10, <1>12
<1>15. CookiesAge'
  <2>1. \A e \in cs : e.expiresAt <= now + Ttl
    BY <1>1, <1>3, <1>4 DEF StoreInv, CookiesAge
  <2>2. \A d, e \in cs : d.id < e.id => d.expiresAt <= e.expiresAt
    BY <1>1, <1>3, <1>4, <1>13, <2>1 DEF StoreInv, CookiesAge
  <2> QED BY <1>1, <1>14, <2>1, <2>2 DEF CookiesAge
<1>16. StoreInv'
  <2>1. MapOf(cookies', mints + 1) /\ MapOf(leases', mints + 1)
    BY <1>10, <1>11, <1>12
  <2>2. Cardinality(cookies') <= MaxSessions /\ Cardinality(leases') <= MaxSessions
    BY <1>10, <1>11, <1>12
  <2>3. mints + 1 \in Nat
    BY <1>1
  <2> QED BY <1>1, <1>15, <2>1, <2>2, <2>3 DEF StoreInv, MapOf
<1>17. StaysDead
  <2>1. \A i \in 1..mints : new.id # i
    BY <1>1, <1>3
  <2> QED BY <1>1, <1>4, <1>5, <1>14, <2>1 DEF StaysDead, Valid
<1>18. ForgetsForAReason
  <2>1. SUFFICES ASSUME NEW e \in cookies, e.expiresAt > now, ~Known(cookies', e.id)
                 PROVE  /\ Cardinality(cookies) = MaxSessions
                        /\ \A d \in cookies : e.id <= d.id /\ d.expiresAt > now
    BY <1>1 DEF ForgetsForAReason
  <2>2. e \notin cookies'
    BY <2>1 DEF Known
  <2>3. e \in cs /\ e \notin pc
    BY <1>4, <1>12, <2>1, <2>2
  <2>4. Cardinality(cs) <= MaxSessions + 1
    BY <1>1, <1>6, <1>11
  <2>5. Cardinality(cs) = MaxSessions + 1 /\ \A d \in cs \ {e} : d.id > e.id
    BY <1>1, <1>6, <1>8, <2>1, <2>3, <2>4, TakesTheOldest
  <2>6. ASSUME NEW d \in cookies, d # e PROVE e.id <= d.id /\ d.expiresAt > now
    <3>1. d.id > e.id
      BY <1>4, <2>5, <2>6
    <3>2. e.expiresAt <= d.expiresAt
      BY <1>13, <2>6, <3>1 DEF StoreInv, CookiesAge
    <3> QED BY <1>1, <1>13, <2>1, <3>1, <3>2
  <2> QED BY <1>1, <1>6, <1>13, <2>1, <2>5, <2>6
<1> QED BY <1>16, <1>17, <1>18 DEF StoresStep

(* validate: what is pruned on the way has expired.                         *)
LEMMA ValidatesKeeps ==
  ASSUME StoreInv, NEW i \in 1..mints, Validates(i)
  PROVE  StoresStep
<1>1. /\ now \in Nat /\ mints \in Nat /\ MaxSessions \in Nat /\ now' = now /\ mints' = mints
      /\ MapOf(cookies, mints) /\ MapOf(leases, mints)
  BY SessionStoresAssumption DEF StoreInv, Validates
<1>2. PICK cs : cs = Without(cookies, i)
  OBVIOUS
<1>3. PICK ls : ls = Without(leases, i)
  OBVIOUS
<1>4. cs \in SUBSET cookies /\ ls \in SUBSET leases
  BY <1>2, <1>3 DEF Without
<1>5. /\ MapOf(cs, mints) /\ Cardinality(cs) \in Nat /\ Cardinality(cs) <= Cardinality(cookies)
      /\ MapOf(ls, mints)
  BY <1>1, <1>4, PartOfMap
<1>6. PruneExpired(cs) \subseteq cs /\ PruneExpired(ls) \subseteq ls
  BY <1>1, <1>5, PrunedIs
<1>7. /\ cookies' \in {cookies, Validated(cookies, i)}
      /\ leases' \in {leases, Validated(leases, i)}
  BY DEF Validates
<1>8. cookies' \subseteq cookies /\ leases' \subseteq leases
  BY <1>2, <1>3, <1>4, <1>6, <1>7 DEF Validated
<1>9. StoreInv' /\ StaysDead
  BY <1>1, <1>8, TakenOut
<1>10. ForgetsForAReason
  <2>1. SUFFICES ASSUME NEW e \in cookies, e.expiresAt > now, e \notin cookies' PROVE FALSE
    BY <1>1 DEF ForgetsForAReason, Known
  <2>2. ~Valid(cookies, i) /\ cookies' = PruneExpired(cs)
    BY <1>2, <1>7, <2>1 DEF Validated
  <2>3. e.expiresAt \in Nat
    BY <1>1, EntryIs
  <2>4. e.id # i
    BY <1>1, <2>1, <2>2, <2>3 DEF Valid
  <2>5. e \in cs
    BY <1>2, <2>4 DEF Without
  <2>6. Cardinality(cs) <= MaxSessions /\ Cardinality(cs) <= MaxSessions + 1
    <3>1. Cardinality(cookies) \in Nat /\ Cardinality(cookies) <= MaxSessions
      BY FS_CardinalityType DEF StoreInv, MapOf
    <3> QED BY <1>1, <1>5, <3>1
  <2>7. Cardinality(cs) = MaxSessions + 1
    BY <1>1, <1>5, <2>1, <2>2, <2>5, <2>6, TakesTheOldest
  <2> QED BY <1>1, <1>5, <2>6, <2>7
<1> QED BY <1>9, <1>10 DEF StoresStep

(* refreshLease: only a valid lease is given more time.                     *)
LEMMA RefreshKeeps ==
  ASSUME StoreInv, NEW i \in 1..mints, RefreshLease(i)
  PROVE  StoresStep
<1>1. /\ now \in Nat /\ mints \in Nat /\ MaxSessions \in Nat /\ now' = now /\ mints' = mints
      /\ cookies' = cookies /\ revoked' = revoked /\ Known(leases, i) /\ MapOf(leases, mints)
  BY SessionStoresAssumption DEF StoreInv, RefreshLease
<1>2. ForgetsForAReason
  BY <1>1 DEF ForgetsForAReason, Known
<1>3. CASE Valid(leases, i)
  <2>1. PICK all : all = Extended(leases, i)
    OBVIOUS
  <2>2. MapOf(all, mints) /\ Cardinality(all) <= Cardinality(leases)
    BY <1>1, <2>1, ExtendedIs
  <2>3. leases' = all
    BY <1>3, <2>1 DEF RefreshLease
  <2>4. Cardinality(all) \in Nat /\ Cardinality(leases) \in Nat /\ Cardinality(leases) <= MaxSessions
    BY <2>2, FS_CardinalityType DEF StoreInv, MapOf
  <2>5. Cardinality(leases') <= MaxSessions
    BY <1>1, <2>2, <2>3, <2>4
  <2>6. StoreInv'
    BY <1>1, <2>2, <2>3, <2>5 DEF StoreInv, CookiesAge, MapOf
  <2>7. \A e \in all : e.id = i \/ e \in leases
    BY <2>1 DEF Extended, Without, Entry
  <2>8. StaysDead
    BY <1>1, <1>3, <2>3, <2>7 DEF StaysDead, Valid
  <2> QED BY <1>2, <2>6, <2>8 DEF StoresStep
<1>4. CASE ~Valid(leases, i)
  <2>1. leases' \subseteq leases /\ cookies' \subseteq cookies
    BY <1>1, <1>4 DEF RefreshLease, Without
  <2>2. StoreInv' /\ StaysDead
    BY <1>1, <2>1, TakenOut
  <2> QED BY <1>2, <2>2 DEF StoresStep
<1> QED BY <1>3, <1>4

(* revoke: what goes is noted.                                              *)
LEMMA RevokesKeeps ==
  ASSUME StoreInv, NEW i \in 1..mints, Revokes(i)
  PROVE  StoresStep
<1>1. now' = now /\ mints' = mints /\ cookies' \subseteq cookies /\ leases' \subseteq leases
  BY DEF Revokes, Without
<1>2. StoreInv' /\ StaysDead
  BY <1>1, TakenOut
<1>3. \A e \in cookies : ~Known(cookies', e.id) => e.id \in revoked'
  BY DEF Revokes, Without, Known
<1>4. ForgetsForAReason
  BY <1>3 DEF ForgetsForAReason
<1> QED BY <1>2, <1>4 DEF StoresStep

(* With time, what is valid expires and nothing else.                       *)
LEMMA TimeKeeps == ASSUME StoreInv, TimePasses PROVE StoresStep
<1>1. /\ now \in Nat /\ mints \in Nat /\ Ttl \in Nat /\ now' = now + 1 /\ mints' = mints
      /\ cookies' = cookies /\ leases' = leases
  BY SessionStoresAssumption DEF StoreInv, TimePasses
<1>2. /\ \A e \in cookies : e.id \in 1..mints /\ e.expiresAt \in Nat
      /\ \A e \in leases : e.id \in 1..mints /\ e.expiresAt \in Nat
  BY EntryIs DEF StoreInv
<1>3. CookiesAge'
  <2>1. \A e \in cookies : e.expiresAt <= now + 1 + Ttl
    BY <1>1, <1>2 DEF StoreInv, CookiesAge
  <2> QED BY <1>1, <2>1 DEF StoreInv, CookiesAge
<1>4. StoreInv'
  BY <1>1, <1>3 DEF StoreInv, MapOf
<1>5. StaysDead
  BY <1>1, <1>2 DEF StaysDead, Valid
<1>6. ForgetsForAReason
  BY <1>1 DEF ForgetsForAReason, Known
<1> QED BY <1>4, <1>5, <1>6 DEF StoresStep

(* Every step of the stores is a sound one.                                 *)
LEMMA StoresNextKeeps == StoreInv /\ [StoresNext]_storeVars => StoresStep
<1> SUFFICES ASSUME StoreInv, [StoresNext]_storeVars PROVE StoresStep
  OBVIOUS
<1>1. CASE UNCHANGED storeVars
  <2>1. /\ now' = now /\ mints' = mints /\ cookies' = cookies /\ leases' = leases
    BY <1>1 DEF storeVars
  <2>2. StoreInv'
    BY <2>1 DEF StoreInv, MapOf, CookiesAge
  <2> QED BY <2>1, <2>2 DEF StoresStep, StaysDead, ForgetsForAReason, Known, Valid
<1>2. CASE TimePasses
  BY <1>2, TimeKeeps
<1>3. ASSUME NEW kind \in {"cookie", "lease"}, Mints(kind) PROVE StoresStep
  BY <1>3, MintsKeep
<1>4. ASSUME NEW i \in 1..mints, Validates(i) PROVE StoresStep
  BY <1>4, ValidatesKeeps
<1>5. ASSUME NEW i \in 1..mints, RefreshLease(i) PROVE StoresStep
  BY <1>5, RefreshKeeps
<1>6. ASSUME NEW i \in 1..mints, Revokes(i) PROVE StoresStep
  BY <1>6, RevokesKeeps
<1> QED BY <1>1, <1>2, <1>3, <1>4, <1>5, <1>6 DEF StoresNext

(* The stores are empty at first.                                           *)
LEMMA StoresStart == StoresInit => StoreInv
<1> SUFFICES ASSUME StoresInit PROVE StoreInv
  OBVIOUS
<1>1. IsFiniteSet({}) /\ Cardinality({}) = 0 /\ 0 <= MaxSessions
  BY FS_EmptySet, SessionStoresAssumption
<1> QED BY <1>1 DEF StoresInit, StoreInv, MapOf, CookiesAge

(* The maps of cookies and leases stay within their cap, a live cookie is   *)
(* forgotten only when revoked or as the oldest of a full map, and no dead  *)
(* entry comes back, for any cap, lifetime and cleanup size.                *)
THEOREM StoresCorrectHolds == StoresSpec => StoresCorrect
<1>1. StoresSpec => []StoreInv
  <2>1. StoreInv /\ [StoresNext]_storeVars => StoreInv'
    BY StoresNextKeeps DEF StoresStep
  <2> QED BY <2>1, StoresStart, PTL DEF StoresSpec
<1>2. StoreInv => StoresTypeOK
  BY EntryIs DEF StoreInv, MapOf, StoresTypeOK
<1>3. StoreInv /\ [StoresNext]_storeVars => StaysDead /\ ForgetsForAReason
  BY StoresNextKeeps DEF StoresStep
<1>4. StaysDead => [\A i \in 1..mints : /\ ~Valid(cookies, i) => ~Valid(cookies, i)'
                                        /\ ~Valid(leases, i) => ~Valid(leases, i)']_storeVars
  BY DEF StaysDead
<1>5. ForgetsForAReason =>
        [\A e \in cookies : e.expiresAt > now' /\ ~Known(cookies', e.id) =>
           \/ e.id \in revoked'
           \/ /\ Cardinality(cookies) = MaxSessions
              /\ \A d \in cookies : e.id <= d.id /\ d.expiresAt > now]_storeVars
  BY DEF ForgetsForAReason
<1> QED BY <1>1, <1>2, <1>3, <1>4, <1>5, PTL DEF StoresSpec, StoresCorrect, NoResurrection, LiveCookiesStay
=============================================================================
