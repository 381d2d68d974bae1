---------------------------- MODULE AgentProofs ----------------------------
(***************************************************************************)
(* The terminal agent alone, then behind the PTY routes, for any finite    *)
(* sets of sockets and processes and any tokens and session ids.           *)
(*                                                                         *)
(* A claude or an index entry is lost when the last thing that would clean *)
(* it up goes away, so the invariant says who refers to a session object:  *)
(* sockets, index entries and processes refer only to objects some socket  *)
(* created (Referenced), an object without a claude has no process either  *)
(* (SpawnedHasProc: a spawn overwrites no process), and each object with a *)
(* claude or an index entry is kept by an open socket or by a timer that   *)
(* disposes it.  Bounded counts the timers: a closed socket arms at most   *)
(* one detach timer, a process is doomed at most once.                     *)
(***************************************************************************)
EXTENDS PtyRoutes, FiniteSetTheorems, TLAPS

(* A PtySession whose timers are not bounded: the type that is inductive    *)
LooseSession ==
  [sid : Sid \cup {None}, cookie : Token \cup {None},
   liveWs : Ws \cup {None}, proc : Pty \cup {None}, spawned : BOOLEAN,
   detached : BOOLEAN, timer : BOOLEAN, strays : Nat, kills : Nat]

PtyStates == {"unborn", "running", "interrupted", "killed", "gone"}

Typed ==
  /\ validTokens  \in [Token -> Sid \cup {None}]
  /\ sessionsById \in [Sid -> Ws \cup {None}]
  /\ ws           \in [Ws -> {"unused", "open", "closed"}]
  /\ binding      \in [Ws -> Ws \cup {None}]
  /\ session      \in [Ws -> LooseSession]
  /\ pty          \in [Pty -> PtyStates]
  /\ spawner      \in [Pty -> Ws \cup {None}]
  /\ uses         \in [Token -> SUBSET Ws]

(* Only a used socket has a session object, and who refers to one refers to *)
(* a used one                                                               *)
Referenced ==
  /\ \A w \in Ws : ws[w] = "open" => binding[w] \in Ws /\ ws[binding[w]] # "unused"
  /\ \A s \in Sid : sessionsById[s] # None =>
       ws[sessionsById[s]] # "unused" /\ session[sessionsById[s]].sid = s
  /\ \A p \in Pty : /\ pty[p] = "unborn" => spawner[p] = None
                    /\ pty[p] # "unborn" => spawner[p] \in Ws /\ ws[spawner[p]] # "unused"

SpawnedHasProc == \A o \in Ws : ~session[o].spawned => session[o].proc = None

(* Timers are armed by closes, and killers by processes                     *)
Armed(r) == r.strays + IF r.timer THEN 1 ELSE 0
Doomed(r) == r.kills + IF r.proc = None THEN 0 ELSE 1
ClosedWs == {w \in Ws : ws[w] = "closed"}
SpawnedBy(o) == {p \in Pty : spawner[p] = o}
Bounded == \A o \in Ws : /\ Armed(session[o]) <= Cardinality(ClosedWs)
                         /\ Doomed(session[o]) <= Cardinality(SpawnedBy(o))

Kept(o) == Attached(o) \/ Expiring(o)

AgentInv == Typed /\ Referenced /\ SpawnedHasProc /\ Bounded /\ NoOrphanPty /\ IndexNotLeaked

(* IndexNotLeaked, said of the objects: what the index names is kept.       *)
LEMMA IndexFromKept ==
  ASSUME sessionsById' \in [Sid -> Ws \cup {None}],
         \A s \in Sid, v \in Ws : sessionsById'[s] = v => Kept(v)'
  PROVE  IndexNotLeaked'
BY DEF IndexNotLeaked, Kept

(* Closed sockets and the processes of an object are finitely many.         *)
LEMMA CardinalitiesAreNat ==
  /\ Cardinality(ClosedWs) \in Nat /\ Cardinality(ClosedWs) <= Cardinality(Ws)
  /\ \A o : Cardinality(SpawnedBy(o)) \in Nat /\ Cardinality(SpawnedBy(o)) <= Cardinality(Pty)
<1>1. ClosedWs \subseteq Ws /\ \A o : SpawnedBy(o) \subseteq Pty
  BY DEF ClosedWs, SpawnedBy
<1> QED BY <1>1, FinitelyMany, FS_Subset, FS_CardinalityType

(* The agent starts without sockets, sessions and processes.                *)
LEMMA InitAgentInv == Init => AgentInv
<1> SUFFICES ASSUME Init PROVE AgentInv
  OBVIOUS
<1>1. PICK r : r = NewSession(None, None, None)
  OBVIOUS
<1>2. r \in LooseSession /\ ~r.spawned /\ r.proc = None /\ Armed(r) = 0 /\ Doomed(r) = 0
  BY <1>1 DEF NewSession, LooseSession, Armed, Doomed
<1>3. \A o \in Ws : session[o] = r
  BY <1>1 DEF Init
<1>4. Typed
  BY <1>1, <1>2 DEF Init, Typed, PtyStates
<1>5. Referenced /\ NoOrphanPty /\ IndexNotLeaked
  BY DEF Init, Referenced, NoOrphanPty, IndexNotLeaked
<1>6. SpawnedHasProc /\ Bounded
  BY <1>2, <1>3, CardinalitiesAreNat DEF SpawnedHasProc, Bounded
<1> QED BY <1>4, <1>5, <1>6 DEF AgentInv

(* disposeSession changes one object: it forgets its process, which its     *)
(* SIGKILL timer now counts for, and keeps its session id and its timers.   *)
LEMMA DisposedObject ==
  ASSUME Typed, NEW o \in Ws
  PROVE  \E d \in LooseSession :
           /\ Disposed(o) = [session EXCEPT ![o] = d]
           /\ d.proc = None /\ ~d.spawned /\ d.sid = session[o].sid /\ d.timer = session[o].timer
           /\ Armed(d) = Armed(session[o]) /\ Doomed(d) = Doomed(session[o])
<1> DEFINE r == session[o]
           k == IF r.proc = None THEN r.kills ELSE r.kills + 1
           d == [r EXCEPT !.kills = k, !.proc = None, !.spawned = FALSE]
<1>1. r \in LooseSession
  BY DEF Typed
<1>2. k \in Nat
  BY <1>1 DEF LooseSession
<1>3. Disposed(o) = [session EXCEPT ![o] = d]
  BY DEF Disposed, Typed, LooseSession
<1> HIDE DEF k
<1>4. d \in LooseSession
  BY <1>1, <1>2 DEF LooseSession
<1>5. d.proc = None /\ ~d.spawned /\ d.sid = r.sid /\ d.timer = r.timer /\ d.strays = r.strays
      /\ d.kills = (IF r.proc = None THEN r.kills ELSE r.kills + 1)
  BY <1>1 DEF LooseSession, k
<1>6. Armed(d) = Armed(r) /\ Doomed(d) = Doomed(r)
  <2> HIDE DEF d
  <2> QED BY <1>1, <1>5 DEF Armed, Doomed, LooseSession
<1> QED BY <1>3, <1>4, <1>5, <1>6

(* What holds of an object holds while it, its sockets and its claude are   *)
(* left alone.                                                              *)
LEMMA KeptStays ==
  ASSUME NEW o \in Ws, Kept(o), session'[o] = session[o],
         \A w \in Ws : ws[w] = "open" /\ binding[w] = o => ws'[w] = "open" /\ binding'[w] = o
  PROVE  Kept(o)'
BY DEF Kept, Attached, Expiring

(* A session object that is disposed is unindexed, and its claude no longer *)
(* runs: nothing else can need a socket or a timer of this object.          *)
LEMMA DisposalKeeps ==
  ASSUME AgentInv, NEW o \in Ws,
         NEW d \in LooseSession, session' = [session EXCEPT ![o] = d],
         d.proc = None, d.sid = session[o].sid,
         Armed(d) <= Armed(session[o]), Doomed(d) <= Doomed(session[o]),
         pty' \in [Pty -> PtyStates],
         \A p \in Pty : /\ pty'[p] = "running" => pty[p] = "running" /\ p # session[o].proc
                        /\ pty'[p] = "unborn" <=> pty[p] = "unborn",
         sessionsById' = [sessionsById EXCEPT ![session[o].sid] = None],
         \/ UNCHANGED <<ws, binding>>
         \/ \E w \in Ws : /\ ws[w] = "open" /\ binding[w] = o
                          /\ ws' = [ws EXCEPT ![w] = "closed"]
                          /\ binding' = [binding EXCEPT ![w] = None],
         UNCHANGED <<spawner, uses>>, validTokens' \in [Token -> Sid \cup {None}]
  PROVE  AgentInv'
<1> USE DEF AgentInv
<1>1. /\ session' \in [Ws -> LooseSession] /\ session'[o] = d
      /\ \A v \in Ws \ {o} : session'[v] = session[v]
  BY DEF Typed
<1>2. /\ ws' \in [Ws -> {"unused", "open", "closed"}] /\ binding' \in [Ws -> Ws \cup {None}]
      /\ \A w \in Ws : /\ ws'[w] = "unused" <=> ws[w] = "unused"
                       /\ ws'[w] = "open" => ws[w] = "open" /\ binding'[w] = binding[w]
                       /\ ws[w] = "open" /\ binding[w] # o => ws'[w] = "open" /\ binding'[w] = binding[w]
  BY DEF Typed
<1>3. \A s \in Sid : /\ sessionsById'[s] \in {sessionsById[s], None}
                      /\ s = session[o].sid => sessionsById'[s] = None
  BY DEF Typed
<1>4. Typed'
  BY <1>1, <1>2 DEF Typed
<1>5. Referenced'
  <2>1. \A s \in Sid : sessionsById'[s] # None =>
          ws'[sessionsById'[s]] # "unused" /\ session'[sessionsById'[s]].sid = s
    BY <1>1, <1>2, <1>3 DEF Referenced, Typed
  <2>2. \A w \in Ws : ws'[w] = "open" => binding'[w] \in Ws /\ ws'[binding'[w]] # "unused"
    BY <1>2 DEF Referenced
  <2>3. \A p \in Pty : /\ pty'[p] = "unborn" => spawner'[p] = None
                       /\ pty'[p] # "unborn" => spawner'[p] \in Ws /\ ws'[spawner'[p]] # "unused"
    BY <1>2 DEF Referenced
  <2> QED BY <2>1, <2>2, <2>3 DEF Referenced
<1>6. SpawnedHasProc'
  BY <1>1 DEF SpawnedHasProc
<1>7. Bounded'
  <2>1. Cardinality(ClosedWs) <= Cardinality(ClosedWs')
    <3>1. ClosedWs \subseteq ClosedWs' /\ ClosedWs' \subseteq Ws
      BY DEF ClosedWs, Typed
    <3> QED BY <3>1, FinitelyMany, FS_Subset
  <2>2. \A v : SpawnedBy(v)' = SpawnedBy(v)
    BY DEF SpawnedBy
  <2>3. \A v \in Ws : /\ Armed(session[v]) \in Nat /\ Doomed(session[v]) \in Nat
                      /\ Armed(session'[v]) \in Nat /\ Doomed(session'[v]) \in Nat
    BY <1>1 DEF Typed, LooseSession, Armed, Doomed
  <2>4. Cardinality(ClosedWs') \in Nat
    <3>1. ClosedWs' \subseteq Ws
      BY DEF ClosedWs
    <3> QED BY <3>1, FinitelyMany, FS_Subset, FS_CardinalityType
  <2>5. \A v \in Ws : Armed(session'[v]) <= Armed(session[v]) /\ Doomed(session'[v]) <= Doomed(session[v])
    BY <1>1, <2>3
  <2> SUFFICES ASSUME NEW v \in Ws
               PROVE  /\ Armed(session'[v]) <= Cardinality(ClosedWs')
                      /\ Doomed(session'[v]) <= Cardinality(SpawnedBy(v))
    BY <2>2 DEF Bounded
  <2>6. Cardinality(ClosedWs) \in Nat /\ Cardinality(SpawnedBy(v)) \in Nat
        /\ Cardinality(ClosedWs') \in Nat
    BY CardinalitiesAreNat, <2>4
  <2> QED BY <2>1, <2>3, <2>5, <2>6 DEF Bounded
<1>8. ASSUME NEW v \in Ws \ {o}, Kept(v) PROVE Kept(v)'
  BY <1>1, <1>2, <1>8, KeptStays
<1>9. NoOrphanPty'
  <2> SUFFICES ASSUME NEW p \in Pty, pty'[p] = "running"
               PROVE  session'[spawner[p]].proc = p /\ Kept(spawner[p])'
    BY DEF NoOrphanPty, Kept
  <2>1. pty[p] = "running" /\ spawner[p] \in Ws
    BY DEF Referenced
  <2>2. session[spawner[p]].proc = p /\ Kept(spawner[p])
    BY <2>1 DEF NoOrphanPty, Kept
  <2>3. spawner[p] # o
    BY <2>2
  <2> QED BY <1>1, <1>8, <2>1, <2>2, <2>3
<1>10. IndexNotLeaked'
  <2> SUFFICES ASSUME NEW s \in Sid, NEW v \in Ws, sessionsById'[s] = v PROVE Kept(v)'
    BY <1>4, IndexFromKept DEF Typed
  <2>1. sessionsById[s] = v /\ s # session[o].sid
    BY <1>3, NoneIsFresh
  <2>2. v # o /\ Kept(v)
    BY <2>1, NoneIsFresh DEF Referenced, IndexNotLeaked, Kept
  <2> QED BY <1>8, <2>2
<1> QED BY <1>4, <1>5, <1>6, <1>7, <1>9, <1>10

(* A step that leaves every session object its claude and its index, and    *)
(* disturbs no object but o, which keeps a socket or a timer.               *)
LEMMA GentleKeeps ==
  ASSUME AgentInv, NEW o \in Ws,
         NEW d \in LooseSession, session' = [session EXCEPT ![o] = d],
         d.proc = session[o].proc, d.sid = session[o].sid, ~d.spawned => d.proc = None,
         Armed(d) <= Cardinality(ClosedWs'), Doomed(d) <= Doomed(session[o]),
         Kept(o) => Kept(o)',
         pty' \in [Pty -> PtyStates],
         \A p \in Pty : /\ pty'[p] = "running" => pty[p] = "running"
                        /\ pty'[p] = "unborn" <=> pty[p] = "unborn",
         ws' \in [Ws -> {"unused", "open", "closed"}], binding' \in [Ws -> Ws \cup {None}],
         \A w \in Ws :
           /\ ws[w] # "unused" => ws'[w] # "unused"
           /\ ws[w] = "closed" => ws'[w] = "closed"
           /\ ws'[w] = "open" => binding'[w] \in Ws /\ ws[binding'[w]] # "unused"
           /\ ws[w] = "open" /\ binding[w] # o => ws'[w] = "open" /\ binding'[w] = binding[w],
         UNCHANGED <<spawner, sessionsById>>, uses' \in [Token -> SUBSET Ws],
         validTokens' \in [Token -> Sid \cup {None}]
  PROVE  AgentInv'
<1> USE DEF AgentInv
<1>1. /\ session' \in [Ws -> LooseSession] /\ session'[o] = d
      /\ \A v \in Ws \ {o} : session'[v] = session[v]
  BY DEF Typed
<1>2. Typed'
  BY <1>1 DEF Typed
<1>3. Referenced'
  BY <1>1 DEF Referenced, Typed
<1>4. SpawnedHasProc'
  BY <1>1 DEF SpawnedHasProc
<1>5. Bounded'
  <2>1. Cardinality(ClosedWs) <= Cardinality(ClosedWs') /\ Cardinality(ClosedWs') \in Nat
    <3>1. ClosedWs \subseteq ClosedWs' /\ ClosedWs' \subseteq Ws
      BY DEF ClosedWs, Typed
    <3> QED BY <3>1, FinitelyMany, FS_Subset, FS_CardinalityType
  <2>2. \A v : SpawnedBy(v)' = SpawnedBy(v)
    BY DEF SpawnedBy
  <2>3. \A v \in Ws : /\ Armed(session[v]) \in Nat /\ Doomed(session[v]) \in Nat
                      /\ Armed(session'[v]) \in Nat /\ Doomed(session'[v]) \in Nat
    BY <1>1 DEF Typed, LooseSession, Armed, Doomed
  <2> SUFFICES ASSUME NEW v \in Ws
               PROVE  /\ Armed(session'[v]) <= Cardinality(ClosedWs')
                      /\ Doomed(session'[v]) <= Cardinality(SpawnedBy(v))
    BY <2>2 DEF Bounded
  <2>4. Cardinality(ClosedWs) \in Nat /\ Cardinality(SpawnedBy(v)) \in Nat
    BY CardinalitiesAreNat
  <2>5. Armed(session'[v]) = Armed(session[v]) \/ Armed(session'[v]) <= Cardinality(ClosedWs')
    BY <1>1
  <2>6. Doomed(session'[v]) <= Doomed(session[v])
    BY <1>1, <2>3
  <2>7. Armed(session[v]) <= Cardinality(ClosedWs) /\ Doomed(session[v]) <= Cardinality(SpawnedBy(v))
    BY DEF Bounded
  <2> QED BY <2>1, <2>3, <2>4, <2>5, <2>6, <2>7
<1>6. ASSUME NEW v \in Ws, Kept(v) PROVE Kept(v)'
  <2>1. CASE v = o
    BY <1>6, <2>1
  <2>2. CASE v # o
    BY <1>1, <1>6, <2>2, KeptStays
  <2> QED BY <2>1, <2>2
<1>7. NoOrphanPty'
  <2> SUFFICES ASSUME NEW p \in Pty, pty'[p] = "running"
               PROVE  session'[spawner[p]].proc = p /\ Kept(spawner[p])'
    BY DEF NoOrphanPty, Kept
  <2>1. pty[p] = "running" /\ spawner[p] \in Ws
    BY DEF Referenced
  <2>2. session[spawner[p]].proc = p /\ Kept(spawner[p])
    BY <2>1 DEF NoOrphanPty, Kept
  <2> QED BY <1>1, <1>6, <2>1, <2>2
<1>8. IndexNotLeaked'
  <2> SUFFICES ASSUME NEW s \in Sid, NEW v \in Ws, sessionsById'[s] = v PROVE Kept(v)'
    BY <1>2, IndexFromKept DEF Typed
  <2>1. Kept(v)
    BY NoneIsFresh DEF IndexNotLeaked, Kept
  <2> QED BY <1>6, <2>1
<1> QED BY <1>2, <1>3, <1>4, <1>5, <1>7, <1>8

(* A lost socket marks one object detached and arms one timer more.         *)
LEMMA DetachedObject ==
  ASSUME Typed, NEW o \in Ws
  PROVE  \E d \in LooseSession :
           /\ Detached(o) = [session EXCEPT ![o] = d]
           /\ d.proc = session[o].proc /\ d.spawned = session[o].spawned /\ d.sid = session[o].sid
           /\ d.detached /\ d.timer
           /\ Armed(d) = Armed(session[o]) + 1 /\ Doomed(d) = Doomed(session[o])
<1> DEFINE r == session[o]
           k == IF r.timer THEN r.strays + 1 ELSE r.strays
           d == [r EXCEPT !.detached = TRUE, !.liveWs = None, !.timer = TRUE, !.strays = k]
<1>1. r \in LooseSession
  BY DEF Typed
<1>2. k \in Nat
  BY <1>1 DEF LooseSession
<1>3. Detached(o) = [session EXCEPT ![o] = d]
  BY DEF Detached, Typed, LooseSession
<1> HIDE DEF k
<1>4. d \in LooseSession
  BY <1>1, <1>2 DEF LooseSession
<1>5. d.proc = r.proc /\ d.spawned = r.spawned /\ d.sid = r.sid /\ d.kills = r.kills
      /\ d.detached /\ d.timer /\ d.strays = k
  BY <1>1 DEF LooseSession
<1>6. Armed(d) = Armed(r) + 1 /\ Doomed(d) = Doomed(r)
  <2> HIDE DEF d
  <2>1. k = IF r.timer THEN r.strays + 1 ELSE r.strays
    BY DEF k
  <2> QED BY <1>1, <1>5, <2>1 DEF Armed, Doomed, LooseSession
<1> QED BY <1>3, <1>4, <1>5, <1>6

(* The close handler, also when a process has just gone: on purpose it      *)
(* disposes the object, otherwise it leaves it a timer.                     *)
LEMMA OnCloseKeeps ==
  ASSUME AgentInv, NEW w \in Ws, ws[w] = "open", NEW intentional \in BOOLEAN,
         NEW ptys \in [Pty -> PtyStates],
         \A p \in Pty : /\ ptys[p] = "running" => pty[p] = "running"
                        /\ ptys[p] = "unborn" <=> pty[p] = "unborn",
         OnClose(w, intentional, ptys)
  PROVE  AgentInv'
<1>0. PICK o : o = binding[w]
  OBVIOUS
<1>1. Typed /\ o \in Ws /\ ws[o] # "unused"
  BY <1>0 DEF AgentInv, Referenced
<1>2. ws' = [ws EXCEPT ![w] = "closed"] /\ binding' = [binding EXCEPT ![w] = None]
      /\ validTokens' = TokensAfterClose(o) /\ UNCHANGED <<spawner, uses>>
  BY <1>0 DEF OnClose
<1>3. validTokens' \in [Token -> Sid \cup {None}]
  BY <1>1, <1>2 DEF Typed, TokensAfterClose
<1>4. CASE intentional
  <2>1. session' = Disposed(o) /\ pty' = Interrupted(o, ptys) /\ sessionsById' = Unindexed(o)
    BY <1>0, <1>4 DEF OnClose
  <2>2. PICK d \in LooseSession :
           /\ Disposed(o) = [session EXCEPT ![o] = d]
           /\ d.proc = None /\ ~d.spawned /\ d.sid = session[o].sid /\ d.timer = session[o].timer
           /\ Armed(d) = Armed(session[o]) /\ Doomed(d) = Doomed(session[o])
    BY <1>1, DisposedObject
  <2>3. /\ pty' \in [Pty -> PtyStates]
        /\ \A p \in Pty : /\ pty'[p] = "running" => pty[p] = "running" /\ p # session[o].proc
                          /\ pty'[p] = "unborn" <=> pty[p] = "unborn"
    BY <2>1 DEF Interrupted, PtyStates
  <2>4. Armed(session[o]) \in Nat /\ Doomed(session[o]) \in Nat
    BY <1>1 DEF Typed, LooseSession, Armed, Doomed
  <2>5. Armed(d) <= Armed(session[o]) /\ Doomed(d) <= Doomed(session[o])
    BY <2>2, <2>4
  <2>6. ws[w] = "open" /\ binding[w] = o
    BY <1>0
  <2> QED BY <1>1, <1>2, <1>3, <2>1, <2>2, <2>3, <2>5, <2>6, DisposalKeeps DEF Unindexed
<1>5. CASE ~intentional
  <2>1. session' = Detached(o) /\ pty' = ptys /\ UNCHANGED sessionsById
    BY <1>0, <1>5 DEF OnClose
  <2>2. PICK d \in LooseSession :
           /\ Detached(o) = [session EXCEPT ![o] = d]
           /\ d.proc = session[o].proc /\ d.spawned = session[o].spawned /\ d.sid = session[o].sid
           /\ d.detached /\ d.timer
           /\ Armed(d) = Armed(session[o]) + 1 /\ Doomed(d) = Doomed(session[o])
    BY <1>1, DetachedObject
  <2>3. ~d.spawned => d.proc = None
    BY <1>1, <2>2 DEF AgentInv, SpawnedHasProc
  <2>4. Armed(d) <= Cardinality(ClosedWs')
    <3>1. ClosedWs' = ClosedWs \cup {w} /\ w \notin ClosedWs /\ IsFiniteSet(ClosedWs)
      <4>1. ClosedWs \subseteq Ws
        BY DEF ClosedWs
      <4>2. ClosedWs' = ClosedWs \cup {w} /\ w \notin ClosedWs
        BY <1>1, <1>2 DEF ClosedWs, Typed
      <4> QED BY <4>1, <4>2, FinitelyMany, FS_Subset
    <3>2. Cardinality(ClosedWs') = Cardinality(ClosedWs) + 1
      BY <3>1, FS_AddElement
    <3>3. Armed(session[o]) <= Cardinality(ClosedWs)
      BY <1>1 DEF AgentInv, Bounded
    <3>4. Armed(session[o]) \in Nat /\ Cardinality(ClosedWs) \in Nat
      BY <1>1, CardinalitiesAreNat DEF Typed, LooseSession, Armed
    <3> QED BY <2>2, <3>2, <3>3, <3>4
  <2>5. Doomed(d) <= Doomed(session[o])
    <3>1. Doomed(session[o]) \in Nat
      BY <1>1 DEF Typed, LooseSession, Doomed
    <3> QED BY <2>2, <3>1
  <2>6. session'[o] = d
    BY <1>1, <2>1, <2>2 DEF Typed
  <2>7. Kept(o)'
    BY <2>2, <2>6 DEF Kept, Expiring
  <2>8. /\ ws' \in [Ws -> {"unused", "open", "closed"}] /\ binding' \in [Ws -> Ws \cup {None}]
        /\ \A u \in Ws :
             /\ ws[u] # "unused" => ws'[u] # "unused"
             /\ ws[u] = "closed" => ws'[u] = "closed"
             /\ ws'[u] = "open" => binding'[u] \in Ws /\ ws[binding'[u]] # "unused"
             /\ ws[u] = "open" /\ binding[u] # o => ws'[u] = "open" /\ binding'[u] = binding[u]
    <3> QED BY <1>0, <1>1, <1>2 DEF Typed, AgentInv, Referenced
  <2>9. session' = [session EXCEPT ![o] = d] /\ d.proc = session[o].proc /\ d.sid = session[o].sid
    BY <2>1, <2>2
  <2>10. UNCHANGED <<spawner, sessionsById>> /\ uses' \in [Token -> SUBSET Ws]
    BY <1>1, <1>2, <2>1 DEF Typed
  <2>11. /\ pty' \in [Pty -> PtyStates]
         /\ \A p \in Pty : /\ pty'[p] = "running" => pty[p] = "running"
                           /\ pty'[p] = "unborn" <=> pty[p] = "unborn"
    BY <2>1
  <2> QED BY <1>1, <1>3, <2>3, <2>4, <2>5, <2>7, <2>8, <2>9, <2>10, <2>11, GentleKeeps
<1> QED BY <1>4, <1>5

(* Grants, and steps that change nothing of the agent                       *)
LEMMA GrantKeeps ==
  ASSUME AgentInv, validTokens' \in [Token -> Sid \cup {None}],
         UNCHANGED <<sessionsById, ws, binding, session, pty, spawner, uses>>
  PROVE  AgentInv'
<1>1. \A v : SpawnedBy(v)' = SpawnedBy(v)
  BY DEF SpawnedBy
<1>2. ClosedWs' = ClosedWs
  BY DEF ClosedWs
<1>3. Bounded'
  BY <1>1, <1>2 DEF AgentInv, Bounded
<1> QED BY <1>3 DEF AgentInv, Typed, Referenced, SpawnedHasProc, NoOrphanPty, IndexNotLeaked, Attached,
        Expiring

(* /internal/restart disposes the one object it finds, timer cancelled.     *)
LEMMA RestartKeeps == ASSUME AgentInv, NEW s \in Sid, Restart(s) PROVE AgentInv'
<1>1. CASE sessionsById[s] = None
  BY <1>1, GrantKeeps DEF Restart, vars, AgentInv, Typed
<1>2. CASE sessionsById[s] # None
  <2>0. PICK o : o = sessionsById[s]
    OBVIOUS
  <2>1. Typed /\ o \in Ws /\ ws[o] # "unused" /\ session[o].sid = s
    BY <1>2, <2>0 DEF AgentInv, Referenced, Typed
  <2>2. /\ session' = [Disposed(o) EXCEPT ![o].timer = FALSE] /\ pty' = Interrupted(o, pty)
        /\ sessionsById' = [sessionsById EXCEPT ![s] = None]
        /\ UNCHANGED <<validTokens, ws, binding, spawner, uses>>
    BY <1>2, <2>0 DEF Restart
  <2>3. PICK c \in LooseSession :
           /\ Disposed(o) = [session EXCEPT ![o] = c]
           /\ c.proc = None /\ ~c.spawned /\ c.sid = session[o].sid /\ c.timer = session[o].timer
           /\ Armed(c) = Armed(session[o]) /\ Doomed(c) = Doomed(session[o])
    BY <2>1, DisposedObject
  <2>4. PICK d : d = [c EXCEPT !.timer = FALSE]
    OBVIOUS
  <2>5. /\ d \in LooseSession /\ d.proc = None /\ d.sid = c.sid
        /\ ~d.timer /\ d.strays = c.strays /\ d.kills = c.kills
    BY <2>3, <2>4 DEF LooseSession
  <2>6. session' = [session EXCEPT ![o] = d]
    BY <2>1, <2>2, <2>3, <2>4 DEF Typed
  <2>7. Armed(d) <= Armed(session[o]) /\ Doomed(d) <= Doomed(session[o])
    <3>1. Armed(d) <= Armed(c) /\ Doomed(d) = Doomed(c) /\ Doomed(c) \in Nat
      BY <2>3, <2>5 DEF LooseSession, Armed, Doomed
    <3> QED BY <2>3, <3>1
  <2>8. /\ pty' \in [Pty -> PtyStates]
        /\ \A p \in Pty : /\ pty'[p] = "running" => pty[p] = "running" /\ p # session[o].proc
                          /\ pty'[p] = "unborn" <=> pty[p] = "unborn"
    BY <2>1, <2>2 DEF Interrupted, PtyStates, Typed
  <2>9. d.proc = None /\ d.sid = session[o].sid
    BY <2>3, <2>5
  <2>10. sessionsById' = [sessionsById EXCEPT ![session[o].sid] = None]
         /\ validTokens' \in [Token -> Sid \cup {None}] /\ UNCHANGED <<ws, binding>> /\ UNCHANGED <<spawner, uses>>
    BY <2>1, <2>2 DEF Typed
  <2> QED BY <2>1, <2>5, <2>6, <2>7, <2>8, <2>9, <2>10, DisposalKeeps
<1> QED BY <1>1, <1>2

(* A detach timer that fires is gone, whichever of them it was.             *)
LEMMA FiredTimer ==
  ASSUME NEW S \in [Ws -> LooseSession], NEW o \in Ws, NEW T,
         \/ S[o].timer /\ T = [S EXCEPT ![o].timer = FALSE]
         \/ S[o].strays > 0 /\ T = [S EXCEPT ![o].strays = @ - 1]
  PROVE  \E d \in LooseSession :
           /\ T = [S EXCEPT ![o] = d]
           /\ d.proc = S[o].proc /\ d.spawned = S[o].spawned /\ d.sid = S[o].sid
           /\ Armed(d) = Armed(S[o]) - 1 /\ Doomed(d) = Doomed(S[o])
<1>1. PICK r : r = S[o]
  OBVIOUS
<1>2. r \in LooseSession
  BY <1>1
<1>3. CASE r.timer /\ T = [S EXCEPT ![o].timer = FALSE]
  <2>1. PICK d : d = [r EXCEPT !.timer = FALSE]
    OBVIOUS
  <2>2. T = [S EXCEPT ![o] = d]
    BY <1>1, <1>3, <2>1
  <2>3. d \in LooseSession /\ d.proc = r.proc /\ d.spawned = r.spawned /\ d.sid = r.sid
        /\ d.kills = r.kills /\ d.strays = r.strays /\ ~d.timer
    BY <1>2, <2>1 DEF LooseSession
  <2>4. Armed(d) = Armed(r) - 1 /\ Doomed(d) = Doomed(r)
    BY <1>2, <1>3, <2>3 DEF Armed, Doomed, LooseSession
  <2> QED BY <1>1, <2>2, <2>3, <2>4
<1>4. CASE r.strays > 0 /\ T = [S EXCEPT ![o].strays = @ - 1]
  <2>1. PICK d : d = [r EXCEPT !.strays = r.strays - 1]
    OBVIOUS
  <2>2. T = [S EXCEPT ![o] = d]
    BY <1>1, <1>4, <2>1
  <2>3. r.strays - 1 \in Nat
    BY <1>2, <1>4 DEF LooseSession
  <2>4. d \in LooseSession /\ d.proc = r.proc /\ d.spawned = r.spawned /\ d.sid = r.sid
        /\ d.kills = r.kills /\ d.strays = r.strays - 1 /\ d.timer = r.timer
    BY <1>2, <2>1, <2>3 DEF LooseSession
  <2>5. Armed(d) = Armed(r) - 1 /\ Doomed(d) = Doomed(r)
    BY <1>2, <2>4 DEF Armed, Doomed, LooseSession
  <2> QED BY <1>1, <2>2, <2>4, <2>5
<1> QED BY <1>1, <1>3, <1>4

(* A detach timer disposes the object, unless a client came back.           *)
LEMMA DetachTimerKeeps == ASSUME AgentInv, NEW o \in Ws, DetachTimer(o) PROVE AgentInv'
<1>1. PICK r : r = session[o]
  OBVIOUS
<1>2. r \in LooseSession /\ Typed
  BY <1>1 DEF AgentInv, Typed
<1>3. Armed(r) \in Nat /\ Doomed(r) \in Nat /\ Cardinality(ClosedWs) \in Nat
  BY <1>2, CardinalitiesAreNat DEF LooseSession, Armed, Doomed
<1>4. UNCHANGED <<validTokens, ws, binding, spawner, uses>>
  BY DEF DetachTimer
<1>5. CASE r.detached
  <2>1. PICK c \in LooseSession :
           /\ Disposed(o) = [session EXCEPT ![o] = c]
           /\ c.proc = None /\ ~c.spawned /\ c.sid = r.sid /\ c.timer = r.timer
           /\ Armed(c) = Armed(r) /\ Doomed(c) = Doomed(r)
    BY <1>1, <1>2, DisposedObject
  <2>2. Disposed(o) \in [Ws -> LooseSession] /\ Disposed(o)[o] = c /\ c.strays = r.strays
    BY <1>1, <1>2, <2>1 DEF Typed, Disposed, LooseSession
  <2>3. /\ \/ r.timer /\ session' = [Disposed(o) EXCEPT ![o].timer = FALSE]
           \/ r.strays > 0 /\ session' = [Disposed(o) EXCEPT ![o].strays = @ - 1]
        /\ pty' = Interrupted(o, pty) /\ sessionsById' = Unindexed(o)
    BY <1>1, <1>5 DEF DetachTimer
  <2>4. \/ Disposed(o)[o].timer /\ session' = [Disposed(o) EXCEPT ![o].timer = FALSE]
        \/ Disposed(o)[o].strays > 0 /\ session' = [Disposed(o) EXCEPT ![o].strays = @ - 1]
    BY <2>1, <2>2, <2>3
  <2>5. PICK d \in LooseSession :
           /\ session' = [Disposed(o) EXCEPT ![o] = d]
           /\ d.proc = c.proc /\ d.spawned = c.spawned /\ d.sid = c.sid
           /\ Armed(d) = Armed(c) - 1 /\ Doomed(d) = Doomed(c)
    BY <2>2, <2>4, FiredTimer
  <2>6. session' = [session EXCEPT ![o] = d]
    BY <1>2, <2>1, <2>5 DEF Typed
  <2>7. Armed(d) <= Armed(session[o]) /\ Doomed(d) <= Doomed(session[o])
    BY <1>1, <1>3, <2>1, <2>5
  <2>8. /\ pty' \in [Pty -> PtyStates]
        /\ \A p \in Pty : /\ pty'[p] = "running" => pty[p] = "running" /\ p # session[o].proc
                          /\ pty'[p] = "unborn" <=> pty[p] = "unborn"
    BY <1>2, <2>3 DEF Interrupted, PtyStates, Typed
  <2>9. d.proc = None /\ d.sid = session[o].sid
    BY <1>1, <2>1, <2>5
  <2>10. sessionsById' = [sessionsById EXCEPT ![session[o].sid] = None]
         /\ validTokens' \in [Token -> Sid \cup {None}] /\ UNCHANGED <<ws, binding>> /\ UNCHANGED <<spawner, uses>>
    BY <1>2, <1>4, <2>3 DEF Typed, Unindexed
  <2> QED BY <2>6, <2>7, <2>8, <2>9, <2>10, DisposalKeeps
<1>6. CASE ~r.detached
  <2>1. /\ \/ r.timer /\ session' = [session EXCEPT ![o].timer = FALSE]
           \/ r.strays > 0 /\ session' = [session EXCEPT ![o].strays = @ - 1]
        /\ UNCHANGED <<pty, sessionsById>>
    BY <1>1, <1>6 DEF DetachTimer
  <2>2. PICK d \in LooseSession :
           /\ session' = [session EXCEPT ![o] = d]
           /\ d.proc = r.proc /\ d.spawned = r.spawned /\ d.sid = r.sid
           /\ Armed(d) = Armed(r) - 1 /\ Doomed(d) = Doomed(r)
    BY <1>1, <1>2, <2>1, FiredTimer DEF Typed
  <2>3. Kept(o) => Kept(o)'
    BY <1>1, <1>4, <1>6 DEF Kept, Attached, Expiring
  <2>4. Armed(d) <= Cardinality(ClosedWs')
    <3>1. ClosedWs' = ClosedWs /\ Armed(r) <= Cardinality(ClosedWs)
      BY <1>1, <1>4 DEF ClosedWs, AgentInv, Bounded
    <3> QED BY <1>3, <2>2, <3>1
  <2>5. Doomed(d) <= Doomed(session[o]) /\ (~d.spawned => d.proc = None)
    BY <1>1, <1>3, <2>2 DEF AgentInv, SpawnedHasProc
  <2> QED BY <1>1, <1>2, <1>4, <2>1, <2>2, <2>3, <2>4, <2>5, GentleKeeps DEF Typed, AgentInv, Referenced
<1> QED BY <1>5, <1>6

(* A SIGKILL timer takes nobody's socket or timer away.                     *)
LEMMA KillTimerKeeps == ASSUME AgentInv, NEW o \in Ws, KillTimer(o) PROVE AgentInv'
<1>1. PICK r : r = session[o]
  OBVIOUS
<1>2. r \in LooseSession /\ Typed
  BY <1>1 DEF AgentInv, Typed
<1>3. PICK d : d = [r EXCEPT !.kills = r.kills - 1]
  OBVIOUS
<1>4. r.kills > 0 /\ session' = [session EXCEPT ![o] = d]
      /\ UNCHANGED <<validTokens, sessionsById, ws, binding, spawner, uses>>
  BY <1>1, <1>3 DEF KillTimer
<1>5. r.kills - 1 \in Nat
  BY <1>2, <1>4 DEF LooseSession
<1>6. d \in LooseSession /\ d.proc = r.proc /\ d.spawned = r.spawned /\ d.sid = r.sid
      /\ d.kills = r.kills - 1 /\ d.strays = r.strays /\ d.timer = r.timer /\ d.detached = r.detached
  BY <1>2, <1>3, <1>5 DEF LooseSession
<1>7. Doomed(d) <= Doomed(r)
  BY <1>2, <1>6 DEF Doomed, LooseSession
<1>8. Armed(d) <= Cardinality(ClosedWs')
  <2>1. ClosedWs' = ClosedWs /\ Armed(r) <= Cardinality(ClosedWs)
    BY <1>1, <1>4 DEF ClosedWs, AgentInv, Bounded
  <2> QED BY <1>6, <2>1 DEF Armed
<1>9. session'[o] = d
  BY <1>2, <1>4 DEF Typed
<1>10. Kept(o) => Kept(o)'
  BY <1>1, <1>4, <1>6, <1>9 DEF Kept, Attached, Expiring
<1>11. /\ pty' \in [Pty -> PtyStates]
       /\ \A p \in Pty : /\ pty'[p] = "running" => pty[p] = "running"
                         /\ pty'[p] = "unborn" <=> pty[p] = "unborn"
  BY <1>2 DEF KillTimer, PtyStates, Typed
<1>12. ~d.spawned => d.proc = None
  BY <1>1, <1>6 DEF AgentInv, SpawnedHasProc
<1> QED BY <1>1, <1>2, <1>4, <1>6, <1>7, <1>8, <1>10, <1>11, <1>12, GentleKeeps
        DEF Typed, AgentInv, Referenced

(* A process that exits closes its object's live socket, if it is open.     *)
LEMMA PtyExitsKeeps == ASSUME AgentInv, NEW p \in Pty, PtyExits(p) PROVE AgentInv'
<1>1. PICK ptys : ptys = [pty EXCEPT ![p] = "gone"]
  OBVIOUS
<1>2. PICK live : live = session[spawner[p]].liveWs
  OBVIOUS
<1>3. Typed /\ pty[p] # "unborn"
  BY DEF AgentInv, PtyExits
<1>4. spawner[p] \in Ws
  BY <1>3 DEF AgentInv, Referenced
<1>5. live \in Ws \cup {None}
  BY <1>2, <1>3, <1>4 DEF Typed, LooseSession
<1>6. /\ ptys \in [Pty -> PtyStates]
      /\ \A q \in Pty : /\ ptys[q] = "running" => pty[q] = "running"
                        /\ ptys[q] = "unborn" <=> pty[q] = "unborn"
  BY <1>1, <1>3 DEF Typed, PtyStates
<1>7. CASE live # None /\ ws[live] = "open"
  <2>1. OnClose(live, TRUE, ptys) /\ live \in Ws
    BY <1>1, <1>2, <1>5, <1>7 DEF PtyExits
  <2> QED BY <1>6, <1>7, <2>1, OnCloseKeeps
<1>8. CASE ~(live # None /\ ws[live] = "open")
  <2>1. pty' = ptys /\ UNCHANGED <<validTokens, sessionsById, ws, binding, session, spawner, uses>>
    BY <1>1, <1>2, <1>8 DEF PtyExits
  <2>2. PICK o \in Ws : o = spawner[p]
    BY <1>4
  <2>3. PICK d : d = session[o]
    OBVIOUS
  <2>4. d \in LooseSession /\ session' = [session EXCEPT ![o] = d]
    BY <1>3, <2>1, <2>3 DEF Typed
  <2>5. ClosedWs' = ClosedWs /\ Armed(d) <= Cardinality(ClosedWs) /\ Doomed(d) \in Nat
    BY <1>3, <2>1, <2>3, <2>4 DEF ClosedWs, AgentInv, Bounded, LooseSession, Doomed
  <2>6. Kept(o) => Kept(o)'
    BY <2>1 DEF Kept, Attached, Expiring
  <2>7. Doomed(d) <= Doomed(session[o]) /\ (~d.spawned => d.proc = None)
    BY <2>3, <2>5 DEF AgentInv, SpawnedHasProc
  <2> QED BY <1>3, <1>6, <2>1, <2>3, <2>4, <2>5, <2>6, <2>7, GentleKeeps DEF Typed, AgentInv, Referenced
<1> QED BY <1>7, <1>8

(* A client that comes back: the timer goes, and its socket takes over.     *)
LEMMA JoinKeeps ==
  ASSUME AgentInv, NEW w \in Ws, NEW t \in Token, validTokens[t] \in Sid,
         sessionsById[validTokens[t]] # None, Attach(w, t)
  PROVE  AgentInv'
<1>1. PICK o : o = sessionsById[validTokens[t]]
  OBVIOUS
<1>2. PICK r : r = session[o]
  OBVIOUS
<1>3. PICK d : d = [r EXCEPT !.detached = FALSE, !.timer = FALSE, !.liveWs = w, !.cookie = t]
  OBVIOUS
<1>4. Typed /\ o \in Ws /\ ws[o] # "unused"
  BY <1>1 DEF AgentInv, Typed, Referenced
<1>5. /\ ws[w] = "unused" /\ ws' = [ws EXCEPT ![w] = "open"] /\ binding' = [binding EXCEPT ![w] = o]
      /\ uses' = [uses EXCEPT ![t] = @ \cup {w}]
      /\ UNCHANGED <<validTokens, sessionsById, pty, spawner>>
  BY <1>1 DEF Attach
<1>6. session' = [session EXCEPT ![o] = d]
  BY <1>1, <1>2, <1>3 DEF Attach
<1>7. r \in LooseSession
  BY <1>2, <1>4 DEF Typed
<1>8. d \in LooseSession /\ d.proc = r.proc /\ d.sid = r.sid /\ d.spawned = r.spawned
      /\ d.strays = r.strays /\ d.kills = r.kills /\ ~d.timer
  BY <1>3, <1>7 DEF LooseSession
<1>9. Armed(d) <= Cardinality(ClosedWs')
  <2>1. ClosedWs' = ClosedWs
    BY <1>4, <1>5 DEF ClosedWs, Typed
  <2>2. Armed(r) <= Cardinality(ClosedWs) /\ Cardinality(ClosedWs) \in Nat
    BY <1>2, <1>4, CardinalitiesAreNat DEF AgentInv, Bounded
  <2>3. Armed(d) <= Armed(r) /\ Armed(d) \in Nat /\ Armed(r) \in Nat
    BY <1>7, <1>8 DEF Armed, LooseSession
  <2> QED BY <2>1, <2>2, <2>3
<1>10. Doomed(d) <= Doomed(session[o]) /\ (~d.spawned => d.proc = None)
  <2>1. Doomed(d) = Doomed(r) /\ Doomed(r) \in Nat
    BY <1>7, <1>8 DEF Doomed, LooseSession
  <2> QED BY <1>2, <1>4, <1>8, <2>1 DEF AgentInv, SpawnedHasProc
<1>11. Kept(o)'
  BY <1>4, <1>5 DEF Kept, Attached, Typed
<1>12. /\ ws' \in [Ws -> {"unused", "open", "closed"}] /\ binding' \in [Ws -> Ws \cup {None}]
       /\ uses' \in [Token -> SUBSET Ws] /\ validTokens' \in [Token -> Sid \cup {None}]
       /\ pty' \in [Pty -> PtyStates]
  BY <1>4, <1>5 DEF Typed
<1>13. \A u \in Ws :
         /\ ws[u] # "unused" => ws'[u] # "unused"
         /\ ws[u] = "closed" => ws'[u] = "closed"
         /\ ws'[u] = "open" => binding'[u] \in Ws /\ ws[binding'[u]] # "unused"
         /\ ws[u] = "open" /\ binding[u] # o => ws'[u] = "open" /\ binding'[u] = binding[u]
  BY <1>4, <1>5 DEF Typed, AgentInv, Referenced
<1>14. \A p \in Pty : /\ pty'[p] = "running" => pty[p] = "running"
                      /\ pty'[p] = "unborn" <=> pty[p] = "unborn"
  BY <1>5
<1>15. d.proc = session[o].proc /\ d.sid = session[o].sid /\ UNCHANGED <<spawner, sessionsById>>
  BY <1>2, <1>5, <1>8
<1> QED BY <1>4, <1>6, <1>8, <1>9, <1>10, <1>11, <1>12, <1>13, <1>14, <1>15, GentleKeeps

(* A new session: nobody refers yet to the object of an unused socket.      *)
LEMMA BeginKeeps ==
  ASSUME AgentInv, NEW w \in Ws, NEW t \in Token, validTokens[t] \in Sid,
         sessionsById[validTokens[t]] = None, Attach(w, t)
  PROVE  AgentInv'
<1> USE DEF AgentInv
<1>1. PICK s \in Sid : s = validTokens[t]
  OBVIOUS
<1>2. PICK d : d = NewSession(s, t, w)
  OBVIOUS
<1>3. /\ ws[w] = "unused" /\ ws' = [ws EXCEPT ![w] = "open"] /\ binding' = [binding EXCEPT ![w] = w]
      /\ uses' = [uses EXCEPT ![t] = @ \cup {w}] /\ session' = [session EXCEPT ![w] = d]
      /\ sessionsById' = [sessionsById EXCEPT ![s] = w]
      /\ UNCHANGED <<validTokens, pty, spawner>>
  BY <1>1, <1>2 DEF Attach
<1>4. d \in LooseSession /\ d.proc = None /\ d.sid = s /\ Armed(d) = 0 /\ Doomed(d) = 0
  BY <1>2 DEF NewSession, LooseSession, Armed, Doomed
<1>5. /\ session'[w] = d /\ \A v \in Ws \ {w} : session'[v] = session[v]
      /\ ws'[w] = "open" /\ \A v \in Ws \ {w} : ws'[v] = ws[v]
      /\ binding'[w] = w /\ \A v \in Ws \ {w} : binding'[v] = binding[v]
      /\ sessionsById'[s] = w /\ \A x \in Sid \ {s} : sessionsById'[x] = sessionsById[x]
  BY <1>3 DEF Typed
<1>6. Typed'
  BY <1>3, <1>4 DEF Typed
<1>7. Referenced'
  <2>1. \A v \in Ws : ws[v] # "unused" => v # w
    BY <1>3
  <2>2. \A u \in Ws : ws'[u] = "open" => binding'[u] \in Ws /\ ws'[binding'[u]] # "unused"
    BY <1>3, <1>5 DEF Referenced
  <2>3. \A x \in Sid : sessionsById'[x] # None =>
          ws'[sessionsById'[x]] # "unused" /\ session'[sessionsById'[x]].sid = x
    <3> TAKE x \in Sid
    <3>1. CASE x = s
      BY <1>4, <1>5, <3>1
    <3>2. CASE x # s
      <4>1. sessionsById[x] # None => sessionsById[x] \in Ws \ {w}
        BY <1>3 DEF Referenced, Typed
      <4> QED BY <1>5, <3>2, <4>1 DEF Referenced
    <3> QED BY <3>1, <3>2
  <2>4. \A p \in Pty : /\ pty'[p] = "unborn" => spawner'[p] = None
                       /\ pty'[p] # "unborn" => spawner'[p] \in Ws /\ ws'[spawner'[p]] # "unused"
    BY <1>3, <1>5 DEF Referenced
  <2> QED BY <2>2, <2>3, <2>4 DEF Referenced
<1>8. SpawnedHasProc'
  BY <1>4, <1>5 DEF SpawnedHasProc
<1>9. Bounded'
  <2>1. ClosedWs' = ClosedWs
    BY <1>3 DEF ClosedWs, Typed
  <2>2. \A v : SpawnedBy(v)' = SpawnedBy(v)
    BY <1>3 DEF SpawnedBy
  <2> SUFFICES ASSUME NEW v \in Ws
               PROVE  /\ Armed(session'[v]) <= Cardinality(ClosedWs)
                      /\ Doomed(session'[v]) <= Cardinality(SpawnedBy(v))
    BY <2>1, <2>2 DEF Bounded
  <2>3. CASE v = w
    BY <1>4, <1>5, <2>3, CardinalitiesAreNat
  <2>4. CASE v # w
    BY <1>5, <2>4 DEF Bounded
  <2> QED BY <2>3, <2>4
<1>10. ASSUME NEW v \in Ws \ {w}, Kept(v) PROVE Kept(v)'
  <2>1. \A u \in Ws : ws[u] = "open" /\ binding[u] = v => ws'[u] = "open" /\ binding'[u] = v
    BY <1>3, <1>5
  <2> QED BY <1>5, <1>10, <2>1, KeptStays
<1>11. Kept(w)'
  BY <1>5 DEF Kept, Attached
<1>12. NoOrphanPty'
  <2> SUFFICES ASSUME NEW p \in Pty, pty'[p] = "running"
               PROVE  session'[spawner'[p]].proc = p /\ Kept(spawner[p])'
    BY DEF NoOrphanPty, Kept
  <2>1. pty[p] = "running" /\ spawner'[p] = spawner[p] /\ spawner[p] \in Ws \ {w}
    BY <1>3 DEF Referenced
  <2>2. PICK v : v = spawner[p]
    OBVIOUS
  <2>3. session[v].proc = p /\ Kept(v)
    BY <2>1, <2>2 DEF NoOrphanPty, Kept
  <2>4. Kept(v)' /\ spawner'[p] = v /\ session'[v].proc = p
    BY <1>5, <1>10, <2>1, <2>2, <2>3
  <2> QED BY <2>4 DEF Kept, Attached, Expiring
<1>13. IndexNotLeaked'
  <2> SUFFICES ASSUME NEW x \in Sid, NEW v \in Ws, sessionsById'[x] = v PROVE Kept(v)'
    BY <1>6, IndexFromKept DEF Typed
  <2>1. CASE v = w
    BY <1>11, <2>1
  <2>2. CASE v # w
    <3>1. sessionsById[x] = v
      BY <1>5, <2>2
    <3>2. Kept(v)
      BY <3>1, NoneIsFresh DEF IndexNotLeaked, Kept
    <3> QED BY <1>10, <2>2, <3>2
  <2> QED BY <2>1, <2>2
<1> QED BY <1>6, <1>7, <1>8, <1>9, <1>12, <1>13

(* An upgrade joins the session of its token or begins one.                 *)
LEMMA AttachKeeps == ASSUME AgentInv, NEW w \in Ws, NEW t \in Token, Attach(w, t) PROVE AgentInv'
<1>1. validTokens[t] \in Sid
  BY DEF AgentInv, Typed, Attach
<1> QED BY <1>1, JoinKeeps, BeginKeeps

(* A claude is spawned for an object that has none, by an open socket.      *)
LEMMA SpawnKeeps == ASSUME AgentInv, NEW w \in Ws, NEW p \in Pty, Spawn(w, p) PROVE AgentInv'
<1> USE DEF AgentInv
<1>1. PICK o : o = binding[w]
  OBVIOUS
<1>2. Typed /\ ws[w] = "open" /\ o \in Ws /\ ws[o] # "unused"
  BY <1>1 DEF Spawn, Referenced
<1>3. PICK r : r = session[o]
  OBVIOUS
<1>4. PICK d : d = [r EXCEPT !.spawned = TRUE, !.proc = p]
  OBVIOUS
<1>5. /\ ~r.spawned /\ pty[p] = "unborn" /\ pty' = [pty EXCEPT ![p] = "running"]
      /\ spawner' = [spawner EXCEPT ![p] = o]
      /\ UNCHANGED <<validTokens, sessionsById, ws, binding, uses>>
  BY <1>1, <1>3 DEF Spawn
<1>6. session' = [session EXCEPT ![o] = d]
  BY <1>1, <1>3, <1>4 DEF Spawn
<1>7. r \in LooseSession /\ r.proc = None
  BY <1>2, <1>3, <1>5 DEF Typed, SpawnedHasProc
<1>8. d \in LooseSession /\ d.proc = p /\ d.spawned /\ d.sid = r.sid
      /\ d.strays = r.strays /\ d.timer = r.timer /\ d.kills = r.kills /\ d.detached = r.detached
  BY <1>4, <1>7 DEF LooseSession
<1>9. session'[o] = d /\ \A v \in Ws \ {o} : session'[v] = session[v]
  BY <1>2, <1>6 DEF Typed
<1>10. spawner'[p] = o /\ \A q \in Pty \ {p} : spawner'[q] = spawner[q] /\ pty'[q] = pty[q]
  BY <1>2, <1>5 DEF Typed
<1>11. Typed'
  BY <1>2, <1>5, <1>6, <1>8 DEF Typed, PtyStates
<1>12. Referenced'
  <2>1. \A s \in Sid : sessionsById[s] # None => session'[sessionsById[s]].sid = s
    BY <1>2, <1>3, <1>8, <1>9 DEF Typed, Referenced
  <2>2. \A q \in Pty : /\ pty'[q] = "unborn" => spawner'[q] = None
                       /\ pty'[q] # "unborn" => spawner'[q] \in Ws /\ ws[spawner'[q]] # "unused"
    BY <1>2, <1>5, <1>10 DEF Referenced, Typed
  <2> QED BY <1>5, <2>1, <2>2 DEF Referenced
<1>13. SpawnedHasProc'
  BY <1>8, <1>9 DEF SpawnedHasProc
<1>14. Bounded'
  <2>1. ClosedWs' = ClosedWs
    BY <1>5 DEF ClosedWs
  <2>2. \A v \in Ws \ {o} : SpawnedBy(v)' = SpawnedBy(v)
    <3>1. spawner[p] \notin Ws
      BY <1>5, NoneIsFresh DEF Referenced
    <3> QED BY <1>10, <3>1 DEF SpawnedBy
  <2>3. Cardinality(SpawnedBy(o)') = Cardinality(SpawnedBy(o)) + 1
    <3>1. SpawnedBy(o)' = SpawnedBy(o) \cup {p} /\ p \notin SpawnedBy(o)
      BY <1>2, <1>5, <1>10, NoneIsFresh DEF SpawnedBy, Referenced
    <3>2. IsFiniteSet(SpawnedBy(o))
      <4>1. SpawnedBy(o) \subseteq Pty
        BY DEF SpawnedBy
      <4> QED BY <4>1, FinitelyMany, FS_Subset
    <3> QED BY <3>1, <3>2, FS_AddElement
  <2>4. Armed(d) = Armed(r) /\ Doomed(d) = Doomed(r) + 1
    BY <1>7, <1>8, NoneIsFresh DEF LooseSession, Armed, Doomed
  <2> SUFFICES ASSUME NEW v \in Ws
               PROVE  /\ Armed(session'[v]) <= Cardinality(ClosedWs)
                      /\ Doomed(session'[v]) <= Cardinality(SpawnedBy(v)')
    BY <2>1 DEF Bounded
  <2>5. CASE v = o
    <3>1. Doomed(r) <= Cardinality(SpawnedBy(o)) /\ Armed(r) <= Cardinality(ClosedWs)
      BY <1>2, <1>3 DEF Bounded
    <3>2. Doomed(r) \in Nat /\ Cardinality(SpawnedBy(o)) \in Nat
      BY <1>7, CardinalitiesAreNat DEF Doomed, LooseSession
    <3>3. Doomed(d) <= Cardinality(SpawnedBy(o)')
      BY <2>3, <2>4, <3>1, <3>2
    <3> QED BY <1>9, <2>4, <2>5, <3>1, <3>3
  <2>6. CASE v # o
    BY <1>9, <2>2, <2>6 DEF Bounded
  <2> QED BY <2>5, <2>6
<1>15. Kept(o)'
  BY <1>1, <1>2, <1>5 DEF Kept, Attached
<1>16. ASSUME NEW v \in Ws, Kept(v) PROVE Kept(v)'
  <2>1. \A u \in Ws : ws[u] = "open" /\ binding[u] = v => ws'[u] = "open" /\ binding'[u] = v
    BY <1>5
  <2>2. CASE v = o
    BY <1>15, <2>2
  <2>3. CASE v # o
    BY <1>9, <1>16, <2>1, <2>3, KeptStays
  <2> QED BY <2>2, <2>3
<1>17. NoOrphanPty'
  <2> SUFFICES ASSUME NEW q \in Pty, pty'[q] = "running", NEW v, v = spawner'[q]
               PROVE  session'[v].proc = q /\ Kept(v)'
    BY DEF NoOrphanPty, Kept, Attached, Expiring
  <2>1. CASE q = p
    BY <1>8, <1>9, <1>10, <1>15, <2>1
  <2>2. CASE q # p
    <3>1. pty[q] = "running" /\ v = spawner[q] /\ v \in Ws
      BY <1>10, <2>2 DEF Referenced
    <3>2. session[v].proc = q /\ Kept(v)
      BY <3>1 DEF NoOrphanPty, Kept
    <3>3. v # o
      BY <1>3, <1>7, <3>2, NoneIsFresh
    <3> QED BY <1>9, <1>16, <3>1, <3>2, <3>3
  <2> QED BY <2>1, <2>2
<1>18. IndexNotLeaked'
  <2> SUFFICES ASSUME NEW s \in Sid, NEW v \in Ws, sessionsById'[s] = v PROVE Kept(v)'
    BY <1>11, IndexFromKept DEF Typed
  <2>1. Kept(v)
    BY <1>5, NoneIsFresh DEF IndexNotLeaked, Kept
  <2> QED BY <1>16, <2>1
<1> QED BY <1>11, <1>12, <1>13, <1>14, <1>17, <1>18

(* A peer closes its socket, on purpose or not.                             *)
LEMMA CloseKeeps ==
  ASSUME AgentInv, NEW w \in Ws, NEW intentional \in BOOLEAN, ws[w] = "open",
         OnClose(w, intentional, pty)
  PROVE  AgentInv'
<1>1. pty \in [Pty -> PtyStates]
  BY DEF AgentInv, Typed
<1> QED BY <1>1, OnCloseKeeps

(* Every handler of the agent keeps the invariant.                          *)
LEMMA AgentStepKeeps ==
  ASSUME AgentInv,
         \/ SocketStep \/ TimerStep \/ ProcessStep
         \/ \E s \in Sid : Restart(s)
         \/ \E t \in Token, s \in Sid : Grant(t, s)
  PROVE  AgentInv'
<1>1. CASE SocketStep
  BY <1>1, AttachKeeps, SpawnKeeps, CloseKeeps DEF SocketStep, SpawnFails, Close
<1>2. CASE TimerStep
  BY <1>2, DetachTimerKeeps, KillTimerKeeps DEF TimerStep
<1>3. CASE ProcessStep
  BY <1>3, PtyExitsKeeps DEF ProcessStep
<1>4. CASE \E s \in Sid : Restart(s)
  BY <1>4, RestartKeeps
<1>5. CASE \E t \in Token, s \in Sid : Grant(t, s)
  <2>1. validTokens' \in [Token -> Sid \cup {None}]
    BY <1>5 DEF Grant, AgentInv, Typed
  <2> QED BY <1>5, <2>1, GrantKeeps DEF Grant
<1> QED BY <1>1, <1>2, <1>3, <1>4, <1>5

(* The invariant implies AgentSafe; counting bounds the timers.             *)
LEMMA AgentInvIsSafe == AgentInv => AgentSafe
<1> SUFFICES ASSUME AgentInv PROVE AgentSafe
  OBVIOUS
<1> USE DEF AgentInv
<1>1. ASSUME NEW o \in Ws PROVE session[o] \in PtySession
  <2>1. PICK r : r = session[o]
    OBVIOUS
  <2>2. r \in LooseSession /\ Armed(r) <= Cardinality(ClosedWs) /\ Doomed(r) <= Cardinality(SpawnedBy(o))
    BY <2>1 DEF Typed, Bounded
  <2>3. r.strays \in Nat /\ r.kills \in Nat
    BY <2>2 DEF LooseSession
  <2>4. r.strays <= Cardinality(Ws) /\ Cardinality(Ws) \in Nat
    <3>1. r.strays <= Armed(r)
      BY <2>3 DEF Armed
    <3>2. Armed(r) \in Nat /\ Cardinality(Ws) \in Nat
      BY <2>3, FinitelyMany, FS_CardinalityType DEF Armed
    <3> QED BY <2>2, <2>3, <3>1, <3>2, CardinalitiesAreNat
  <2>5. r.kills <= Cardinality(Pty) /\ Cardinality(Pty) \in Nat
    <3>1. r.kills <= Doomed(r)
      BY <2>3 DEF Doomed
    <3>2. Doomed(r) \in Nat /\ Cardinality(Pty) \in Nat
      BY <2>3, FinitelyMany, FS_CardinalityType DEF Doomed
    <3> QED BY <2>2, <2>3, <3>1, <3>2, CardinalitiesAreNat
  <2>6. r.strays \in 0..Cardinality(Ws) /\ r.kills \in 0..Cardinality(Pty)
    BY <2>3, <2>4, <2>5
  <2> QED BY <2>1, <2>2, <2>6 DEF LooseSession, PtySession
<1>2. TypeOK
  BY <1>1 DEF Typed, TypeOK, PtyStates
<1> QED BY <1>2 DEF AgentSafe

(* However sockets overlap, drop and come back, tokens are granted and      *)
(* sessions restarted, timers fire and processes exit: the agent never has  *)
(* a claude or an index entry that nothing will clean up.                   *)
THEOREM AgentSafeHolds == Spec => []AgentSafe
<1>1. Init => AgentInv
  BY InitAgentInv
<1>2. AgentInv /\ [Next]_vars => AgentInv'
  <2> SUFFICES ASSUME AgentInv, [Next]_vars PROVE AgentInv'
    OBVIOUS
  <2>1. CASE Next
    BY <2>1, AgentStepKeeps DEF Next, ServerStep
  <2>2. CASE UNCHANGED vars
    BY <2>2, GrantKeeps DEF vars, AgentInv, Typed
  <2> QED BY <2>1, <2>2
<1>3. AgentInv => AgentSafe
  BY AgentInvIsSafe
<1> QED BY <1>1, <1>2, <1>3, PTL DEF Spec

-----------------------------------------------------------------------------
(* The routes.  A token is safe from the moment its grant has arrived until *)
(* it is used (GrantedTokenWorks), which only the client it was given to    *)
(* does (UsedWasReplied); and the only tokens a close drops are the cookies *)
(* of sessions, which have been used (CookieIsUsed).                        *)
RoutesTyped ==
  /\ lease  \in [Sid -> {"unminted", "valid", "over"}]
  /\ op     \in [Token -> {"new", "granting", "restarting", "disposing",
                           "replied", "failed", "disposed"}]
  /\ sidOf  \in [Token -> Sid \cup {None}]
  /\ oldSid \in [Token -> Sid \cup {None}]
  /\ fresh \cup granting \cup ending \cup ended \subseteq Token
  /\ \A t \in ending : oldSid[t] \in Sid

UsedWasReplied == \A t \in Token : uses[t] # {} => op[t] = "replied"
CookieIsUsed == \A o \in Ws : session[o].cookie # None => uses[session[o].cookie] # {}
GrantIsPending == \A t \in granting : op[t] \in {"granting", "failed"}

GrantedTokenWorks ==
  \A t \in Token : op[t] \in {"granting", "replied"} /\ t \notin granting /\ uses[t] = {} =>
    validTokens[t] = sidOf[t]

TokensInv == UsedWasReplied /\ CookieIsUsed /\ GrantIsPending /\ GrantedTokenWorks
RoutesInv == AgentInv /\ RoutesTyped /\ TokensInv

(* Only an attach uses tokens, and tokens are dropped only by the session   *)
(* they were used for.                                                      *)
TokensFrame ==
  /\ uses' = uses
  /\ \A o \in Ws : session'[o].cookie = session[o].cookie
  /\ \A t \in Token : validTokens'[t] = validTokens[t] \/ \E o \in Ws : session[o].cookie = t

(* The close handler drops at most the token its session was attached with. *)
LEMMA OnCloseFrame ==
  ASSUME AgentInv, NEW w \in Ws, ws[w] = "open", NEW intentional, NEW ptys,
         OnClose(w, intentional, ptys)
  PROVE  TokensFrame
<1>1. PICK o : o = binding[w]
  OBVIOUS
<1>2. Typed /\ o \in Ws
  BY <1>1 DEF AgentInv, Referenced
<1>3. validTokens' = [validTokens EXCEPT ![session[o].cookie] = None] /\ uses' = uses
      /\ (session' = Disposed(o) \/ session' = Detached(o))
  BY <1>1 DEF OnClose, TokensAfterClose
<1>4. \A v \in Ws : session'[v].cookie = session[v].cookie
  BY <1>2, <1>3 DEF Typed, LooseSession, Disposed, Detached
<1>5. \A t \in Token : validTokens'[t] = validTokens[t] \/ session[o].cookie = t
  BY <1>2, <1>3 DEF Typed
<1> QED BY <1>2, <1>3, <1>4, <1>5 DEF TokensFrame

(* Every step of the agent except grants and attaches leaves the used       *)
(* tokens alone, and drops only tokens that were used.                      *)
LEMMA AgentFrame ==
  ASSUME AgentInv,
         \/ \E w \in Ws : \/ \E p \in Pty : Spawn(w, p)
                          \/ SpawnFails(w)
                          \/ \E intentional \in BOOLEAN : Close(w, intentional)
         \/ TimerStep \/ ProcessStep
         \/ \E s \in Sid : Restart(s)
  PROVE  TokensFrame
<1>0. Typed
  BY DEF AgentInv
<1>1. CASE \E w \in Ws : SpawnFails(w) \/ \E intentional \in BOOLEAN : Close(w, intentional)
  BY <1>1, OnCloseFrame DEF SpawnFails, Close
<1>2. CASE \E w \in Ws, p \in Pty : Spawn(w, p)
  BY <1>0, <1>2 DEF Spawn, Typed, LooseSession, TokensFrame
<1>3. CASE TimerStep
  <2>1. PICK o \in Ws : DetachTimer(o) \/ KillTimer(o)
    BY <1>3 DEF TimerStep
  <2>2. uses' = uses /\ validTokens' = validTokens
    BY <2>1 DEF DetachTimer, KillTimer
  <2>3. \A v \in Ws : session'[v].cookie = session[v].cookie
    <3>1. CASE KillTimer(o)
      BY <1>0, <3>1 DEF KillTimer, Typed, LooseSession
    <3>2. CASE DetachTimer(o)
      <4>1. PICK after \in {Disposed(o), session} :
              session' = [after EXCEPT ![o].timer = FALSE] \/ session' = [after EXCEPT ![o].strays = @ - 1]
        BY <3>2 DEF DetachTimer
      <4>2. \A v \in Ws : after[v].cookie = session[v].cookie
        BY <1>0, <4>1 DEF Disposed, Typed, LooseSession
      <4>3. \A v \in Ws : session'[v].cookie = after[v].cookie
        <5>1. after \in [Ws -> LooseSession]
          <6>1. PICK d \in LooseSession : Disposed(o) = [session EXCEPT ![o] = d]
            BY <1>0, DisposedObject
          <6> QED BY <1>0, <4>1, <6>1 DEF Typed
        <5> QED BY <4>1, <5>1 DEF LooseSession
      <4> QED BY <4>2, <4>3
    <3> QED BY <2>1, <3>1, <3>2
  <2> QED BY <2>2, <2>3 DEF TokensFrame
<1>4. CASE ProcessStep
  <2>1. PICK p \in Pty : PtyExits(p)
    BY <1>4 DEF ProcessStep
  <2>2. PICK live : live = session[spawner[p]].liveWs
    OBVIOUS
  <2>3. live \in Ws \cup {None}
    BY <1>0, <2>1, <2>2 DEF PtyExits, AgentInv, Referenced, Typed, LooseSession
  <2>4. CASE live # None /\ ws[live] = "open"
    BY <2>1, <2>2, <2>3, <2>4, OnCloseFrame DEF PtyExits
  <2>5. CASE ~(live # None /\ ws[live] = "open")
    BY <2>1, <2>2, <2>5 DEF PtyExits, TokensFrame
  <2> QED BY <2>4, <2>5
<1>5. CASE \E s \in Sid : Restart(s)
  <2>1. PICK s \in Sid : Restart(s)
    BY <1>5
  <2>2. CASE sessionsById[s] = None
    BY <2>1, <2>2 DEF Restart, vars, TokensFrame
  <2>3. CASE sessionsById[s] # None
    <3>1. PICK o \in Ws : o = sessionsById[s]
      BY <1>0, <2>3 DEF Typed
    <3>2. session' = [Disposed(o) EXCEPT ![o].timer = FALSE] /\ UNCHANGED <<validTokens, uses>>
      BY <2>1, <2>3, <3>1 DEF Restart
    <3>3. \A v \in Ws : session'[v].cookie = session[v].cookie
      BY <1>0, <3>2 DEF Disposed, Typed, LooseSession
    <3> QED BY <3>2, <3>3 DEF TokensFrame
  <2> QED BY <2>2, <2>3
<1> QED BY <1>1, <1>2, <1>3, <1>4, <1>5

(* Such a step takes no token from a client that has not used it.           *)
LEMMA FrameKeepsTokens ==
  ASSUME AgentInv, RoutesTyped, TokensInv, TokensFrame, UNCHANGED <<op, sidOf, granting>>
  PROVE  TokensInv'
<1>1. UsedWasReplied' /\ GrantIsPending'
  BY DEF TokensInv, TokensFrame, UsedWasReplied, GrantIsPending
<1>2. CookieIsUsed'
  BY DEF TokensInv, TokensFrame, CookieIsUsed
<1>3. GrantedTokenWorks'
  BY NoneIsFresh DEF TokensInv, TokensFrame, CookieIsUsed, GrantedTokenWorks
<1> QED BY <1>1, <1>2, <1>3 DEF TokensInv

(* A grant that arrives, also too late, binds the token to its session id.  *)
LEMMA GrantArrivesKeeps == ASSUME RoutesInv, NEW t \in Token, GrantArrives(t) PROVE RoutesInv'
<1> USE DEF RoutesInv
<1>1. Typed /\ validTokens' = [validTokens EXCEPT ![t] = sidOf[t]] /\ granting' = granting \ {t}
      /\ UNCHANGED <<sessionsById, ws, binding, session, pty, spawner, uses>>
      /\ UNCHANGED <<lease, op, sidOf, oldSid, fresh, ending, ended>>
  BY DEF GrantArrives, Grant, AgentInv
<1>2. validTokens' \in [Token -> Sid \cup {None}]
  BY <1>1 DEF Typed, RoutesTyped
<1>3. AgentInv'
  BY <1>1, <1>2, GrantKeeps
<1>4. RoutesTyped'
  BY <1>1 DEF RoutesTyped
<1>5. TokensInv'
  BY <1>1 DEF TokensInv, UsedWasReplied, CookieIsUsed, GrantIsPending, GrantedTokenWorks, Typed
<1> QED BY <1>3, <1>4, <1>5

(* A restart that arrives disposes a session and drops no token.            *)
LEMMA EndArrivesKeeps == ASSUME RoutesInv, NEW t \in Token, EndArrives(t) PROVE RoutesInv'
<1> USE DEF RoutesInv
<1>1. PICK s \in Sid : s = oldSid[t]
  BY DEF EndArrives, RoutesTyped
<1>2. Restart(s) /\ ending' = ending \ {t} /\ ended' = ended \cup {t}
      /\ UNCHANGED <<lease, op, sidOf, oldSid, fresh, granting>>
  BY <1>1 DEF EndArrives
<1>3. AgentInv'
  BY <1>2, RestartKeeps
<1>4. TokensInv'
  BY <1>2, AgentFrame, FrameKeepsTokens
<1>5. RoutesTyped'
  BY <1>2 DEF RoutesTyped
<1> QED BY <1>3, <1>4, <1>5

(* A client attaches only with a token it was given, which is used then.    *)
LEMMA ClientAttachesKeeps ==
  ASSUME RoutesInv, NEW w \in Ws, NEW t \in Token, ClientAttaches(w, t)
  PROVE  RoutesInv'
<1> USE DEF RoutesInv
<1>1. AgentInv'
  BY AttachKeeps DEF ClientAttaches
<1>2. RoutesTyped' /\ op[t] = "replied" /\ UNCHANGED <<op, sidOf, granting>>
  BY DEF ClientAttaches, routeVars, RoutesTyped
<1>3. Typed /\ validTokens' = validTokens /\ uses' = [uses EXCEPT ![t] = @ \cup {w}]
  BY DEF ClientAttaches, Attach, AgentInv
<1>4. \A v \in Ws : session'[v].cookie \in {session[v].cookie, t}
  <2>1. CASE sessionsById[validTokens[t]] # None
    BY <1>3, <2>1 DEF ClientAttaches, Attach, Typed, LooseSession
  <2>2. CASE sessionsById[validTokens[t]] = None
    BY <1>3, <2>2 DEF ClientAttaches, Attach, Typed, LooseSession, NewSession
  <2> QED BY <2>1, <2>2
<1>5. TokensInv'
  <2>1. uses'[t] # {} /\ \A u \in Token : uses[u] # {} => uses'[u] # {}
    BY <1>3 DEF Typed
  <2>2. \A u \in Token \ {t} : uses'[u] = uses[u]
    BY <1>3 DEF Typed
  <2>3. UsedWasReplied'
    BY <1>2, <2>2 DEF TokensInv, UsedWasReplied
  <2>4. CookieIsUsed'
    BY <1>3, <1>4, <2>1 DEF TokensInv, CookieIsUsed, Typed, LooseSession
  <2>5. GrantIsPending' /\ GrantedTokenWorks'
    BY <1>2, <1>3, <2>1, <2>2 DEF TokensInv, GrantIsPending, GrantedTokenWorks
  <2> QED BY <2>3, <2>4, <2>5 DEF TokensInv
<1> QED BY <1>1, <1>2, <1>5

(* What the browse server does by itself: request t goes to a phase that is *)
(* not replied to, or waits for its call, or the call has been answered.    *)
LEMMA ServerKeeps ==
  ASSUME RoutesInv, UNCHANGED vars, NEW t \in Token, RoutesTyped',
         op[t] # "replied",
         \A u \in Token \ {t} : op'[u] = op[u] /\ sidOf'[u] = sidOf[u] /\ (u \in granting' <=> u \in granting),
         \/ op'[t] = "granting" /\ t \in granting'
         \/ op'[t] \notin {"granting", "replied"} /\ (t \in granting' => op'[t] = "failed")
         \/ op[t] = "granting" /\ op'[t] = "replied" /\ sidOf'[t] = sidOf[t] /\ t \notin granting /\ t \notin granting'
  PROVE  RoutesInv'
<1>1. AgentInv'
  BY GrantKeeps DEF RoutesInv, AgentInv, Typed, vars
<1>2. TokensInv'
  BY DEF RoutesInv, RoutesTyped, vars, TokensInv, UsedWasReplied, CookieIsUsed, GrantIsPending, GrantedTokenWorks
<1> QED BY <1>1, <1>2 DEF RoutesInv

(* Requests that wait for the agent are not yet replied to.                 *)
LEMMA RequestKeeps ==
  ASSUME RoutesInv, NEW t \in Token, NEW s \in Sid,
         \/ OpenPtySession(t, s) \/ PtyReattach(t, s) \/ PtyRestart(t, s) \/ PtyDispose(t, s)
         \/ RestartReturns(t, s)
  PROVE  RoutesInv'
<1> USE DEF RoutesInv
<1>1. CASE OpenPtySession(t, s) \/ PtyReattach(t, s)
  <2>1. /\ op[t] = "new" /\ UNCHANGED vars /\ UNCHANGED <<oldSid, ending, ended>>
        /\ op' = [op EXCEPT ![t] = "granting"] /\ sidOf' = [sidOf EXCEPT ![t] = s]
        /\ granting' = granting \cup {t} /\ fresh' \in {fresh, fresh \cup {t}}
        /\ lease' \in {lease, [lease EXCEPT ![s] = "valid"]}
    BY <1>1 DEF OpenPtySession, PtyReattach, MintAndGrant
  <2>2. RoutesTyped'
    BY <2>1 DEF RoutesTyped
  <2> QED BY <2>1, <2>2, ServerKeeps DEF RoutesTyped
<1>2. CASE PtyRestart(t, s) \/ PtyDispose(t, s)
  <2>1. PICK phase \in {"restarting", "disposing"} : EndSession(t, s, phase)
    BY <1>2 DEF PtyRestart, PtyDispose
  <2>2. t \notin granting
    BY <2>1 DEF EndSession, TokensInv, GrantIsPending
  <2>3. RoutesTyped'
    BY <2>1 DEF RoutesTyped, EndSession
  <2> QED BY <2>1, <2>2, <2>3, ServerKeeps DEF RoutesTyped, EndSession
<1>3. CASE RestartReturns(t, s)
  <2>1. RoutesTyped'
    BY <1>3 DEF RoutesTyped, RestartReturns, MintAndGrant, EndReturns
  <2> QED BY <1>3, <2>1, ServerKeeps DEF RoutesTyped, RestartReturns, MintAndGrant
<1> QED BY <1>1, <1>2, <1>3

(* A reply follows the agent's ok, so the token has arrived by then.        *)
LEMMA ReplyKeeps ==
  ASSUME RoutesInv, NEW t \in Token, DisposeReturns(t) \/ GrantReturns(t) \/ GrantFails(t)
  PROVE  RoutesInv'
<1> USE DEF RoutesInv
<1>1. CASE DisposeReturns(t)
  <2>1. t \notin granting
    BY <1>1 DEF DisposeReturns, TokensInv, GrantIsPending
  <2>2. RoutesTyped'
    BY <1>1 DEF RoutesTyped, DisposeReturns, EndReturns
  <2> QED BY <1>1, <2>1, <2>2, ServerKeeps DEF RoutesTyped, DisposeReturns
<1>2. CASE GrantReturns(t)
  <2>1. RoutesTyped'
    BY <1>2 DEF RoutesTyped, GrantReturns
  <2> QED BY <1>2, <2>1, ServerKeeps DEF RoutesTyped, GrantReturns
<1>3. CASE GrantFails(t)
  <2>1. RoutesTyped'
    BY <1>3 DEF RoutesTyped, GrantFails
  <2> QED BY <1>3, <2>1, ServerKeeps DEF RoutesTyped, GrantFails
<1> QED BY <1>1, <1>2, <1>3

(* Whatever the server, the agent and the calls between them do.            *)
LEMMA RoutesInvHolds == RoutesSpec => []RoutesInv
<1>1. RoutesInit => RoutesInv
  <2> SUFFICES ASSUME RoutesInit PROVE RoutesInv
    OBVIOUS
  <2>1. AgentInv
    BY InitAgentInv DEF RoutesInit
  <2>2. RoutesTyped
    BY DEF RoutesInit, RoutesTyped
  <2>3. \A o \in Ws : session[o].cookie = None
    BY DEF RoutesInit, Init, NewSession
  <2>4. TokensInv
    BY <2>3 DEF RoutesInit, Init, TokensInv, UsedWasReplied, CookieIsUsed, GrantIsPending, GrantedTokenWorks
  <2> QED BY <2>1, <2>2, <2>4 DEF RoutesInv
<1>2. RoutesInv /\ [RoutesNext]_allVars => RoutesInv'
  <2> SUFFICES ASSUME RoutesInv, [RoutesNext]_allVars PROVE RoutesInv'
    OBVIOUS
  <2> USE DEF RoutesInv
  <2>1. CASE RequestStep \/ ReturnStep
    <3>1. CASE RequestStep
      BY <3>1, RequestKeeps DEF RequestStep
    <3>2. CASE ReturnStep
      <4>1. PICK t \in Token : \/ \E s \in Sid : RestartReturns(t, s)
                               \/ DisposeReturns(t) \/ GrantReturns(t) \/ GrantFails(t)
        BY <3>2 DEF ReturnStep
      <4>2. CASE \E s \in Sid : RestartReturns(t, s)
        BY <4>2, RequestKeeps
      <4>3. CASE DisposeReturns(t) \/ GrantReturns(t) \/ GrantFails(t)
        BY <4>3, ReplyKeeps
      <4> QED BY <4>1, <4>2, <4>3
    <3> QED BY <2>1, <3>1, <3>2
  <2>2. CASE ArrivalStep
    BY <2>2, GrantArrivesKeeps, EndArrivesKeeps DEF ArrivalStep
  <2>3. CASE \E s \in Sid : LeaseExpires(s)
    <3>1. AgentInv'
      BY <2>3, GrantKeeps DEF LeaseExpires, vars, AgentInv, Typed
    <3>2. RoutesTyped'
      BY <2>3 DEF LeaseExpires, RoutesTyped
    <3>3. TokensInv'
      BY <2>3, FrameKeepsTokens DEF LeaseExpires, vars, TokensFrame
    <3> QED BY <3>1, <3>2, <3>3
  <2>4. CASE \E w \in Ws, t \in Token : ClientAttaches(w, t)
    BY <2>4, ClientAttachesKeeps
  <2>5. CASE AgentStep
    <3>1. AgentInv'
      BY <2>5, AgentStepKeeps DEF AgentStep, SocketStep
    <3>2. RoutesTyped' /\ UNCHANGED <<op, sidOf, granting>>
      BY <2>5 DEF AgentStep, routeVars, RoutesTyped
    <3>3. TokensInv'
      BY <2>5, <3>2, AgentFrame, FrameKeepsTokens DEF AgentStep
    <3> QED BY <3>1, <3>2, <3>3
  <2>6. CASE UNCHANGED allVars
    <3>1. AgentInv'
      BY <2>6, GrantKeeps DEF allVars, vars, AgentInv, Typed
    <3>2. RoutesTyped'
      BY <2>6 DEF allVars, routeVars, RoutesTyped
    <3>3. TokensInv'
      BY <2>6, FrameKeepsTokens DEF allVars, routeVars, vars, TokensFrame
    <3> QED BY <3>1, <3>2, <3>3
  <2> QED BY <2>1, <2>2, <2>3, <2>4, <2>5, <2>6 DEF RoutesNext
<1> QED BY <1>1, <1>2, PTL DEF RoutesSpec

(* However the calls between server and agent are lost, late or repeated:   *)
(* a token the client was given works until it is used, and every claude    *)
(* still has somebody that will clean it up.                                *)
THEOREM RoutesSafeHolds == RoutesSpec => []RoutesSafe
<1>1. RoutesInv => RoutesSafe
  <2> SUFFICES ASSUME RoutesInv PROVE RoutesSafe
    OBVIOUS
  <2>1. AgentSafe
    BY AgentInvIsSafe DEF RoutesInv
  <2>2. RoutesTypeOK
    BY <2>1 DEF RoutesInv, RoutesTyped, RoutesTypeOK, AgentSafe
  <2>3. HandedTokenWorks
    BY DEF RoutesInv, TokensInv, GrantIsPending, GrantedTokenWorks, HandedTokenWorks
  <2> QED BY <2>1, <2>2, <2>3 DEF AgentSafe, RoutesSafe
<1> QED BY <1>1, RoutesInvHolds, PTL
-----------------------------------------------------------------------------
(***************************************************************************)
(* A restart reaches one terminal only: an object's process is one that    *)
(* the object spawned, and the index names an object by its session id.    *)
(***************************************************************************)
ProcIsOwn == \A o \in Ws : session[o].proc # None => spawner[session[o].proc] = o

ProcsFrame == spawner' = spawner /\ \A o \in Ws : session'[o].proc \in {session[o].proc, None}

(* A close at most forgets the process.                                     *)
LEMMA OnCloseProcs ==
  ASSUME AgentInv, NEW w \in Ws, ws[w] = "open", NEW intentional, NEW ptys,
         OnClose(w, intentional, ptys)
  PROVE  ProcsFrame
<1>1. PICK o : o = binding[w]
  OBVIOUS
<1>2. Typed /\ o \in Ws
  BY <1>1 DEF AgentInv, Referenced
<1>3. spawner' = spawner /\ (session' = Disposed(o) \/ session' = Detached(o))
  BY <1>1 DEF OnClose
<1>4. \A v \in Ws : session'[v].proc \in {session[v].proc, None}
  BY <1>2, <1>3 DEF Typed, LooseSession, Disposed, Detached
<1> QED BY <1>3, <1>4 DEF ProcsFrame

(* So does every step but a spawn.                                          *)
LEMMA ProcsAreForgotten ==
  ASSUME AgentInv,
         \/ \E w \in Ws : \/ \E t \in Token : Attach(w, t)
                          \/ SpawnFails(w)
                          \/ \E intentional \in BOOLEAN : Close(w, intentional)
         \/ TimerStep \/ ProcessStep
         \/ \E s \in Sid : Restart(s)
  PROVE  ProcsFrame
<1>0. Typed
  BY DEF AgentInv
<1>1. CASE \E w \in Ws : SpawnFails(w) \/ \E intentional \in BOOLEAN : Close(w, intentional)
  BY <1>1, OnCloseProcs DEF SpawnFails, Close
<1>2. ASSUME NEW w \in Ws, NEW t \in Token, Attach(w, t) PROVE ProcsFrame
  <2>1. PICK s, o : s = validTokens[t] /\ o = sessionsById[s]
    OBVIOUS
  <2>2. s \in Sid /\ o \in Ws \cup {None}
    BY <1>0, <1>2, <2>1 DEF Attach, Typed
  <2>3. \/ o \in Ws /\ session' = [session EXCEPT ![o].detached = FALSE, ![o].timer = FALSE,
                                                  ![o].liveWs = w, ![o].cookie = t]
        \/ session' = [session EXCEPT ![w] = NewSession(s, t, w)]
    BY <1>2, <2>1, <2>2 DEF Attach
  <2>4. NewSession(s, t, w).proc = None
    BY DEF NewSession
  <2>5. \A v \in Ws : session'[v].proc \in {session[v].proc, None}
    BY <1>0, <2>3, <2>4 DEF Typed, LooseSession
  <2> QED BY <1>2, <2>5 DEF Attach, ProcsFrame
<1>3. CASE TimerStep
  <2>1. PICK o \in Ws : DetachTimer(o) \/ KillTimer(o)
    BY <1>3 DEF TimerStep
  <2>2. spawner' = spawner
    BY <2>1 DEF DetachTimer, KillTimer
  <2>3. \A v \in Ws : session'[v].proc \in {session[v].proc, None}
    <3>1. CASE KillTimer(o)
      BY <1>0, <3>1 DEF KillTimer, Typed, LooseSession
    <3>2. CASE DetachTimer(o)
      <4>1. PICK after \in {Disposed(o), session} :
              session' = [after EXCEPT ![o].timer = FALSE] \/ session' = [after EXCEPT ![o].strays = @ - 1]
        BY <3>2 DEF DetachTimer
      <4>2. \A v \in Ws : after[v].proc \in {session[v].proc, None}
        BY <1>0, <4>1 DEF Disposed, Typed, LooseSession
      <4>3. \A v \in Ws : session'[v].proc = after[v].proc
        <5>1. after \in [Ws -> LooseSession]
          <6>1. PICK d \in LooseSession : Disposed(o) = [session EXCEPT ![o] = d]
            BY <1>0, DisposedObject
          <6> QED BY <1>0, <4>1, <6>1 DEF Typed
        <5> QED BY <4>1, <5>1 DEF LooseSession
      <4> QED BY <4>2, <4>3
    <3> QED BY <2>1, <3>1, <3>2
  <2> QED BY <2>2, <2>3 DEF ProcsFrame
<1>4. CASE ProcessStep
  <2>1. PICK p \in Pty : PtyExits(p)
    BY <1>4 DEF ProcessStep
  <2>2. PICK live : live = session[spawner[p]].liveWs
    OBVIOUS
  <2>3. live \in Ws \cup {None}
    BY <1>0, <2>1, <2>2 DEF PtyExits, AgentInv, Referenced, Typed, LooseSession
  <2>4. CASE live # None /\ ws[live] = "open"
    BY <2>1, <2>2, <2>3, <2>4, OnCloseProcs DEF PtyExits
  <2>5. CASE ~(live # None /\ ws[live] = "open")
    BY <2>1, <2>2, <2>5 DEF PtyExits, ProcsFrame
  <2> QED BY <2>4, <2>5
<1>5. CASE \E s \in Sid : Restart(s)
  <2>1. PICK s \in Sid : Restart(s)
    BY <1>5
  <2>2. CASE sessionsById[s] = None
    BY <2>1, <2>2 DEF Restart, vars, ProcsFrame
  <2>3. CASE sessionsById[s] # None
    <3>1. PICK o \in Ws : o = sessionsById[s]
      BY <1>0, <2>3 DEF Typed
    <3>2. session' = [Disposed(o) EXCEPT ![o].timer = FALSE] /\ spawner' = spawner
      BY <2>1, <2>3, <3>1 DEF Restart
    <3>3. \A v \in Ws : session'[v].proc \in {session[v].proc, None}
      BY <1>0, <3>2 DEF Disposed, Typed, LooseSession
    <3> QED BY <3>2, <3>3 DEF ProcsFrame
  <2> QED BY <2>2, <2>3
<1> QED BY <1>1, <1>2, <1>3, <1>4, <1>5

(* A spawn gives an object a process that nobody spawned.                   *)
LEMMA ProcStaysOwn ==
  ASSUME AgentInv, ProcIsOwn, ProcsFrame \/ \E w \in Ws, p \in Pty : Spawn(w, p)
  PROVE  ProcIsOwn'
<1>1. CASE ProcsFrame
  BY <1>1 DEF ProcsFrame, ProcIsOwn
<1>2. ASSUME NEW w \in Ws, NEW p \in Pty, Spawn(w, p) PROVE ProcIsOwn'
  <2>1. PICK o : o = binding[w]
    OBVIOUS
  <2>2. Typed /\ o \in Ws
    BY <1>2, <2>1 DEF AgentInv, Referenced, Spawn
  <2>3. /\ spawner' = [spawner EXCEPT ![p] = o] /\ spawner[p] = None
        /\ session' = [session EXCEPT ![o].spawned = TRUE, ![o].proc = p]
    BY <1>2, <2>1 DEF Spawn, AgentInv, Referenced
  <2>4. session'[o].proc = p /\ \A v \in Ws : v # o => session'[v] = session[v]
    BY <2>2, <2>3 DEF Typed, LooseSession
  <2>5. \A v \in Ws : session[v].proc \in Pty \cup {None}
    BY <2>2 DEF Typed, LooseSession
  <2>6. ASSUME NEW v \in Ws, session'[v].proc # None PROVE spawner'[session'[v].proc] = v
    <3>1. CASE v = o
      BY <3>1, <2>2, <2>3, <2>4 DEF Typed
    <3>2. CASE v # o
      <4>1. session[v].proc \in Pty /\ spawner[session[v].proc] = v
        BY <3>2, <2>4, <2>5, <2>6 DEF ProcIsOwn
      <4>2. session[v].proc # p
        BY <4>1, <2>3, NoneIsFresh
      <4> QED BY <3>2, <4>1, <4>2, <2>2, <2>3, <2>4 DEF Typed
    <3> QED BY <3>1, <3>2
  <2> QED BY <2>6 DEF ProcIsOwn
<1> QED BY <1>1, <1>2

(* RestartIsScoped: what /internal/restart signals is the session it names. *)
THEOREM RestartIsScopedHolds == RoutesSpec => RestartIsScoped
<1>1. RoutesInit => ProcIsOwn
  BY DEF RoutesInit, Init, NewSession, ProcIsOwn
<1>2. RoutesInv /\ ProcIsOwn /\ [RoutesNext]_allVars => ProcIsOwn'
  <2> SUFFICES ASSUME RoutesInv, ProcIsOwn, [RoutesNext]_allVars PROVE ProcIsOwn'
    OBVIOUS
  <2>1. AgentInv
    BY DEF RoutesInv
  <2>2. CASE UNCHANGED <<session, spawner>>
    BY <2>2 DEF ProcIsOwn
  <2>3. CASE RequestStep \/ ReturnStep \/ \E s \in Sid : LeaseExpires(s)
    <3>1. UNCHANGED <<session, spawner>>
      BY <2>3 DEF RequestStep, ReturnStep, OpenPtySession, PtyReattach, PtyRestart, PtyDispose, EndSession,
                  RestartReturns, DisposeReturns, GrantReturns, GrantFails, LeaseExpires, vars
    <3> QED BY <3>1, <2>2
  <2>4. CASE ArrivalStep
    <3>1. PICK t \in Token : GrantArrives(t) \/ EndArrives(t)
      BY <2>4 DEF ArrivalStep
    <3>2. CASE GrantArrives(t)
      BY <3>2, <2>2 DEF GrantArrives, Grant
    <3>3. CASE EndArrives(t)
      <4>1. oldSid[t] \in Sid /\ Restart(oldSid[t])
        BY <3>3 DEF EndArrives, RoutesInv, RoutesTyped
      <4> QED BY <4>1, <2>1, ProcsAreForgotten, ProcStaysOwn
    <3> QED BY <3>1, <3>2, <3>3
  <2>5. CASE \E w \in Ws, t \in Token : ClientAttaches(w, t)
    BY <2>5, <2>1, ProcsAreForgotten, ProcStaysOwn DEF ClientAttaches
  <2>6. CASE AgentStep
    BY <2>6, <2>1, ProcsAreForgotten, ProcStaysOwn DEF AgentStep
  <2>7. CASE UNCHANGED allVars
    BY <2>7, <2>2 DEF allVars, vars
  <2> QED BY <2>3, <2>4, <2>5, <2>6, <2>7 DEF RoutesNext
<1>3. ASSUME RoutesInv, ProcIsOwn, RoutesNext,
             NEW t \in ended' \ ended, NEW p \in Pty, pty'[p] # pty[p]
      PROVE  session[spawner[p]].sid = oldSid[t]
  <2>1. EndArrives(t)
    BY <1>3 DEF RoutesNext, RequestStep, ReturnStep, OpenPtySession, PtyReattach, PtyRestart, PtyDispose,
                EndSession, RestartReturns, DisposeReturns, GrantReturns, GrantFails, LeaseExpires,
                ArrivalStep, GrantArrives, EndArrives, ClientAttaches, AgentStep, routeVars
  <2>2. PICK s, o : s = oldSid[t] /\ o = sessionsById[s]
    OBVIOUS
  <2>3. Restart(s) /\ s \in Sid /\ AgentInv
    BY <1>3, <2>1, <2>2 DEF EndArrives, RoutesInv, RoutesTyped
  <2>4. o # None /\ pty' = Interrupted(o, pty)
    BY <1>3, <2>2, <2>3 DEF Restart, vars
  <2>5. o \in Ws /\ session[o].sid = s
    BY <2>2, <2>3, <2>4 DEF AgentInv, Typed, Referenced
  <2>6. p = session[o].proc
    BY <1>3, <2>4 DEF Interrupted
  <2>7. spawner[p] = o
    BY <1>3, <2>5, <2>6, NoneIsFresh DEF ProcIsOwn
  <2> QED BY <2>2, <2>5, <2>7
<1>4. RoutesInv /\ ProcIsOwn /\ [RoutesNext]_allVars =>
        [\A t \in ended' \ ended : \A p \in Pty :
           pty'[p] # pty[p] => session[spawner[p]].sid = oldSid[t]]_allVars
  BY <1>3
<1> QED BY <1>1, <1>2, <1>4, RoutesInvHolds, PTL DEF RoutesSpec, RestartIsScoped
=============================================================================
