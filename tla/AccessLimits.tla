---------------------------- MODULE AccessLimits ----------------------------
(***************************************************************************)
(* What a grant allows and for how long: scopes, domains and rates, and the *)
(* short-lived sessions and leases of the daemon.                          *)
(***************************************************************************)
EXTENDS Naturals, Sequences, SequencesExt, FiniteSets

(* What the capabilities of TokenRegistry stand for: the scopes, domains,  *)
(* rate and tab policy of a grant, when a new pairing counts as a          *)
(* reduction of a live session (grantReducesAccess), and the rate limiter  *)
(* of token-registry.ts.  A host is the sequence of its labels from the    *)
(* top level down, so that *.example.com is every host whose labels begin  *)
(* with those of example.com.                                              *)

CONSTANTS ScopeName, Label, Host,
          Rate,                \* 0 in Rate: unlimited
          MaxOffers,           \* grants given in a behaviour
          WindowTicks, MaxTicks,
          MaxRan               \* commands of one session that are followed

ASSUME GrantLimitsAssumption ==
  /\ Rate \subseteq Nat /\ {MaxOffers, WindowTicks, MaxTicks, MaxRan} \subseteq Nat /\ WindowTicks > 0
  /\ Host \subseteq Seq(Label)

Pattern == [glob : BOOLEAN, apex : Host]
Access == [scopes : SUBSET ScopeName, domains : {d \in SUBSET Pattern : Cardinality(d) <= 2},
           rate : Rate, shared : BOOLEAN]
NoAccess == [scopes |-> {}, domains |-> {}, rate |-> 0, shared |-> FALSE]

VARIABLES session,  \* of one client: is there a live session, and its grant
          key,      \* is there a pending setup key, and its grant
          given,    \* history: grants given and not superseded since
          offers,
          bucket,   \* rateBuckets of the client: count and windowStart
          limit, ticks,
          ran       \* history: ticks at which a command of this session was let through

(* Variants named ...ByApex or ...Late are plausible mistakes in the        *)
(* definition that follows them; no specification uses them.                *)
grantVars == <<session, key, given, offers>>
rateVars == <<bucket, limit, ticks, ran>>
limitVars == <<grantVars, rateVars>>

NoBucket == [count |-> 0, windowStart |-> 0]
NoToken == [live |-> FALSE, grant |-> NoAccess]
Holding(g) == [live |-> TRUE, grant |-> g]

GrantInit == session = NoToken /\ key = NoToken /\ given = {} /\ offers = 0
RateInit == bucket = NoBucket /\ limit \in Rate /\ ticks = 0 /\ ran = <<>>
-----------------------------------------------------------------------------
(* matchDomainGlob and checkDomain                                          *)
Matches(host, p) == IF p.glob THEN IsPrefix(p.apex, host) ELSE host = p.apex
Reaches(g, host) == g.domains = {} \/ \E p \in g.domains : Matches(host, p)

DomainGlobCoversByApex(wide, narrow) == wide.glob /\ IsPrefix(narrow.apex, wide.apex)

DomainGlobCovers(wide, narrow) ==
  \/ wide = narrow
  \/ wide.glob /\ IsPrefix(wide.apex, narrow.apex)

DomainsReduced(prior, next) ==
  IF prior = {} THEN next # {}
  ELSE next # {} /\ \E p \in prior : \A n \in next : ~DomainGlobCovers(n, p)

RateReduced(prior, next) ==
  IF prior = 0 THEN next # 0 ELSE next # 0 /\ next < prior

GrantReducesAccess(prior, next) ==
  \/ ~(prior.scopes \subseteq next.scopes)
  \/ DomainsReduced(prior.domains, next.domains)
  \/ RateReduced(prior.rate, next.rate)
  \/ prior.shared /\ ~next.shared

(* POST /token gives a session at once and leaves a pending key as it is    *)
GivesToken(g) ==
  /\ offers < MaxOffers /\ offers' = offers + 1
  /\ session' = Holding(g) /\ given' = given \cup {g}
  /\ UNCHANGED key

(* POST /pair drops the pending key for a new one, and the session too if   *)
(* the new grant takes something from it                                    *)
GivesKey(g) ==
  /\ offers < MaxOffers /\ offers' = offers + 1 /\ ~g.shared
  /\ session' = IF session.live /\ GrantReducesAccess(session.grant, g) THEN NoToken ELSE session
  /\ key' = Holding(g) /\ given' = {g}

(* POST /connect                                                            *)
Exchanges ==
  /\ key.live /\ session' = Holding(key.grant) /\ key' = NoToken
  /\ UNCHANGED <<given, offers>>

(* A session or key reaches its time                                        *)
GrantExpires ==
  /\ \/ session.live /\ session' = NoToken /\ UNCHANGED key
     \/ key.live /\ key' = NoToken /\ UNCHANGED session
  /\ UNCHANGED <<given, offers>>

GrantNext == Exchanges \/ GrantExpires \/ \E g \in Access : GivesToken(g) \/ GivesKey(g)
-----------------------------------------------------------------------------
InWindow == bucket.count > 0 /\ ticks - bucket.windowStart < WindowTicks

Counted == IF InWindow THEN [bucket EXCEPT !.count = @ + 1] ELSE [count |-> 1, windowStart |-> ticks]

ChecksRateOneLate ==
  /\ limit # 0 => (~InWindow \/ bucket.count <= limit)
  /\ bucket' = IF limit = 0 THEN bucket ELSE Counted
  /\ ran' = Append(ran, ticks) /\ UNCHANGED <<limit, ticks>>

(* checkRateLimit of a command that it lets through: a new window, or room  *)
(* in the old one.  A refused command changes nothing.                      *)
ChecksRate ==
  /\ limit # 0 => (~InWindow \/ bucket.count < limit)
  /\ bucket' = IF limit = 0 THEN bucket ELSE Counted
  /\ ran' = Append(ran, ticks)
  /\ UNCHANGED <<limit, ticks>>

(* revokeToken drops the bucket; a session that replaces another finds it   *)
(* as it was.  Either may have another limit.                               *)
RenewsLimit ==
  /\ bucket' \in {NoBucket, bucket} /\ limit' \in Rate /\ ran' = <<>>
  /\ UNCHANGED ticks

Ticks == ticks < MaxTicks /\ ticks' = ticks + 1 /\ UNCHANGED <<bucket, limit, ran>>

RateNext == Ticks \/ RenewsLimit \/ (Len(ran) < MaxRan /\ ChecksRate)

LimitsNext == (GrantNext /\ UNCHANGED rateVars) \/ (RateNext /\ UNCHANGED grantVars)
LimitsSpec == GrantInit /\ RateInit /\ [][LimitsNext]_limitVars
-----------------------------------------------------------------------------
Admits(g) == g.scopes \X {h \in Host : Reaches(g, h)}

(* A live session can do nothing beyond a grant that the operator gave and  *)
(* has not superseded: no scope, host, rate or tab of others that it lacks. *)
OfferIsTheLimit ==
  session.live => \E g \in given :
    /\ Admits(session.grant) \subseteq Admits(g)
    /\ session.grant.scopes \subseteq g.scopes
    /\ session.grant.shared => g.shared
    /\ g.rate # 0 => session.grant.rate \in 1..g.rate

(* In any stretch of one window a session runs at most twice its limit, the *)
(* end of one window and the beginning of the next, also when it replaced a *)
(* session of another limit in the middle of a window.                      *)
RateIsBounded ==
  limit # 0 => \A i \in DOMAIN ran :
    Cardinality({j \in DOMAIN ran : ran[j] \in ran[i]..(ran[i] + WindowTicks - 1)}) <= 2 * limit

(* A session stays within a grant in force, in what it may do and how       *)
(* often.                                                                   *)
LimitsHold ==
  OfferIsTheLimit /\ RateIsBounded
-----------------------------------------------------------------------------
(* The maps of short-lived sessions in the daemon: the cookie stores of    *)
(* session-cookie-store.ts (one store stands for the SSE and the PTY       *)
(* cookie, which differ in their name) and the leases of                   *)
(* pty-session-lease.ts, which can be refreshed.  Ids are counted in the    *)
(* order of minting, so the order of a map is that of its entries' ids.     *)

CONSTANTS Ttl,          \* ticks that an entry lasts
          MaxSessions,  \* hard cap of a map
          Batch,        \* entries looked at by one cleanup
          MaxTime, MaxMints

ASSUME SessionStoresAssumption ==
  /\ {Ttl, MaxSessions, Batch, MaxTime, MaxMints} \subseteq Nat
  /\ MaxSessions > 0

VARIABLES now, cookies, leases,
          mints,    \* history: tokens and lease ids minted, both counted from 1
          revoked   \* history: cookies revoked

storeVars == <<now, cookies, leases, mints, revoked>>

StoresInit ==
  /\ now = 0 /\ cookies = {} /\ leases = {}
  /\ mints = 0 /\ revoked = {}

Entry(i) == [id |-> i, expiresAt |-> now + Ttl]
Without(map, i) == {e \in map : e.id # i}
Known(map, i) == \E e \in map : e.id = i
Valid(map, i) == \E e \in map : e.id = i /\ now <= e.expiresAt

Older(map, e) == {d \in map : d.id < e.id}
Newer(map, e) == {d \in map : d.id > e.id}

Unexpired(map) == {e \in map : e.expiresAt > now \/ Cardinality(Older(map, e)) >= Batch}

(* The variant named ...OneEarly is a plausible mistake in the definition   *)
(* that follows it, and the one named ...Without... below likewise; no      *)
(* specification uses them.                                                 *)
UpToCapOneEarly(map) == {e \in map : Cardinality(Newer(map, e)) < MaxSessions - 1}

UpToCap(map) == {e \in map : Cardinality(Newer(map, e)) < MaxSessions}

(* pruneExpired: the expired among the first entries, then the oldest ones  *)
PruneExpired(map) == UpToCap(Unexpired(map))

Mints(kind) ==
  /\ mints < MaxMints /\ mints' = mints + 1
  /\ cookies' = IF kind = "cookie" THEN PruneExpired(cookies \cup {Entry(mints + 1)}) ELSE cookies
  /\ leases'   = IF kind = "lease"  THEN PruneExpired(leases \cup {Entry(mints + 1)}) ELSE leases
  /\ UNCHANGED <<now, revoked>>

(* validate, validateLease: a token that is not valid is deleted, if it is  *)
(* there, and others with it                                                *)
Validated(map, i) == IF Valid(map, i) THEN map ELSE PruneExpired(Without(map, i))

Validates(i) ==
  /\ \/ cookies' = Validated(cookies, i) /\ UNCHANGED leases
     \/ leases' = Validated(leases, i) /\ UNCHANGED cookies
  /\ UNCHANGED <<now, mints, revoked>>

Extended(map, i) == Without(map, i) \cup {Entry(i)}

RefreshLeaseWithoutCheck(i) ==
  /\ Known(leases, i) /\ leases' = Extended(leases, i)
  /\ UNCHANGED <<now, cookies, mints, revoked>>

(* refreshLease: an entry keeps its place in the map                        *)
RefreshLease(i) ==
  /\ Known(leases, i)
  /\ leases' = IF Valid(leases, i) THEN Extended(leases, i) ELSE Without(leases, i)
  /\ UNCHANGED <<now, cookies, mints, revoked>>

Revokes(i) ==
  /\ \/ Known(cookies, i) /\ cookies' = Without(cookies, i) /\ revoked' = revoked \cup {i} /\ UNCHANGED leases
     \/ Known(leases, i) /\ leases' = Without(leases, i) /\ UNCHANGED <<cookies, revoked>>
  /\ UNCHANGED <<now, mints>>

TimePasses == now < MaxTime /\ now' = now + 1 /\ UNCHANGED <<cookies, leases, mints, revoked>>

StoresNext ==
  \/ TimePasses \/ \E kind \in {"cookie", "lease"} : Mints(kind)
  \/ \E i \in 1..mints : Validates(i) \/ RefreshLease(i) \/ Revokes(i)

StoresSpec == StoresInit /\ [][StoresNext]_storeVars
-----------------------------------------------------------------------------
StoresTypeOK ==
  \A map \in {cookies, leases} :
    /\ Cardinality(map) <= MaxSessions
    /\ \A e \in map : e.id \in 1..mints
    /\ \A d, e \in map : d.id = e.id => d = e

(* A session or lease that is no longer valid, for whatever reason, never   *)
(* is again: nothing that is still in a map is brought back to life.        *)
NoResurrection ==
  [][\A i \in 1..mints : /\ ~Valid(cookies, i) => ~Valid(cookies, i)'
                         /\ ~Valid(leases, i) => ~Valid(leases, i)']_storeVars

(* A cookie that still has time is forgotten only because it was revoked,   *)
(* or as the oldest when the map is full of cookies that all have time.     *)
LiveCookiesStay ==
  [][\A e \in cookies : e.expiresAt > now' /\ ~Known(cookies', e.id) =>
       \/ e.id \in revoked'
       \/ /\ Cardinality(cookies) = MaxSessions
          /\ \A d \in cookies : e.id <= d.id /\ d.expiresAt > now]_storeVars

(* The maps of cookies and leases stay within their cap, forget a live      *)
(* cookie only for a reason, and never take back a dead entry.              *)
StoresCorrect ==
  []StoresTypeOK /\ NoResurrection /\ LiveCookiesStay
=============================================================================
