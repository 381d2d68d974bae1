--------------------------- MODULE BrowserContext ---------------------------
(***************************************************************************)
(* browser-manager.ts when it replaces its Playwright context: a new user  *)
(* agent or device scale (recreateContext), and the promotion of the       *)
(* headless browser to a headed one (handoff).  Both save the tabs, swap   *)
(* the context and restore the tabs, with an await between any two tabs,   *)
(* while HTTP commands go on opening tabs, agents are released and pages   *)
(* close by themselves.                                                    *)
(*                                                                         *)
(* A context is named by a number; a page belongs to the context that made *)
(* it and dies with it.  One replacement runs at a time; a crash of        *)
(* Chromium itself ends the daemon and belongs to DaemonLifecycle.         *)
(***************************************************************************)
EXTENDS Integers, FiniteSets, FiniteSetsExt, Sequences, SequencesExt

CONSTANTS Agent,      \* scoped clients
          Anyone,     \* the root caller, who owns nothing
          MaxId,      \* bound: tab ids handed out
          MaxContext  \* bound: contexts created

ASSUME AnyoneIsNoAgent == Anyone \notin Agent
ASSUME ContextBounds == MaxId \in Nat \ {0} /\ MaxContext \in Nat \ {0}

Id == 1..MaxId
Context == 1..MaxContext
Scale == 1..2
ScreenScale == 0  \* that of the display, which an unset deviceScaleFactor leaves in force

VARIABLES table,    \* keys of the maps pages and tabSessions
          owner,    \* tabOwnership; Anyone when there is no entry
          active,   \* activeTabId
          nextId,   \* nextTabId
          context,  \* this.context
          open,     \* the contexts that are not closed
          made,     \* contexts created so far
          home,     \* home[i]: the context of page i, 0 when the page is gone
          opener,   \* history: the agent a tab was opened for, carried on by a restore
          scale,    \* deviceScaleFactor
          built,    \* the scale that this.context was created with, or ScreenScale
          mode,     \* connectionMode
          op,       \* the replacement in progress
          asking,   \* asking[a]: the context of a newTab that waits for its page, or 0
          released  \* agents that were released, each once and for good

ctxVars == <<table, owner, active, nextId, context, open, made, home, opener,
             scale, built, mode, op, asking, released>>
tabState == <<table, owner, active, nextId, home, opener>>

(* Variants named ...Without..., ...Of..., ...Only... and the like are       *)
(* plausible mistakes in the definition that follows them; no specification *)
(* uses them.                                                               *)

Stage == {"idle", "saving", "closing", "creating", "cookies", "restoring", "blank",
          "cleanup", "fallback", "promoting"}
SavedTab == [id : Id, owner : Agent \cup {Anyone}, isActive : BOOLEAN]
NoOp == [at |-> "idle", kind |-> "none", saved |-> <<>>, last |-> 0, activeId |-> 0,
         prevScale |-> 1, retried |-> FALSE]

At(stage) == op.at = stage
Goto(stage) == op' = [op EXCEPT !.at = stage]
Dies(x) == [i \in Id |-> IF home[i] = x THEN 0 ELSE home[i]]
Survivors(x) == {i \in table : home[i] # x}
LastTabOfNone(S) == IF S = {} THEN -1 ELSE Max(S)

LastTab(S) == IF S = {} THEN 0 ELSE Max(S)
ActiveAmong(S) == IF active \in table /\ active \notin S THEN LastTab(S) ELSE active

(* launch() has made the first context and its first tab                    *)
CtxInit ==
  /\ table = {1} /\ active = 1 /\ nextId = 2
  /\ owner = [i \in Id |-> Anyone] /\ opener = [i \in Id |-> Anyone]
  /\ context = 1 /\ open = {1} /\ made = 1
  /\ home = [i \in Id |-> IF i = 1 THEN 1 ELSE 0]
  /\ scale = 1 /\ built = 1
  /\ mode = "launched" /\ op = NoOp
  /\ asking = [a \in Agent |-> 0] /\ released = {}

(* A page under a fresh id, in context x, for `who`; `first` opened the tab  *)
Registers(x, who, first) ==
  /\ nextId <= MaxId
  /\ table'  = table \cup {nextId}
  /\ home'   = [home EXCEPT ![nextId] = x]
  /\ owner'  = IF who = Anyone THEN owner ELSE [owner EXCEPT ![nextId] = who]
  /\ opener' = [opener EXCEPT ![nextId] = first]
  /\ nextId' = nextId + 1
-----------------------------------------------------------------------------
(* Commands that run meanwhile                                              *)

NewTabAsks(a) ==
  /\ asking[a] = 0 /\ a \notin released /\ context \in open /\ nextId <= MaxId
  /\ asking' = [asking EXCEPT ![a] = context]
  /\ UNCHANGED <<tabState, context, open, made, scale, built, mode, op, released>>

NewTabOpens(a) ==
  /\ asking[a] \in open
  /\ Registers(asking[a], a, a)
  /\ active' = nextId
  /\ asking' = [asking EXCEPT ![a] = 0]
  /\ UNCHANGED <<context, open, made, scale, built, mode, op, released>>

NewTabRejected(a) ==
  /\ asking[a] # 0
  /\ asking[a] \notin open \/ nextId > MaxId
  /\ asking' = [asking EXCEPT ![a] = 0]
  /\ UNCHANGED <<tabState, context, open, made, scale, built, mode, op, released>>

ReleaseAgent(a) ==
  /\ a \notin released
  /\ owner' = [i \in Id |-> IF owner[i] = a THEN Anyone ELSE owner[i]]
  /\ released' = released \cup {a}
  /\ UNCHANGED <<table, active, nextId, home, opener, context, open, made, scale, built,
                 mode, op, asking>>

(* The 'close' handler that wirePageEvents puts on every page               *)
PageGoneUnwired(i) ==
  /\ home[i] # 0
  /\ home'   = [home EXCEPT ![i] = 0]
  /\ table'  = IF opener[i] = Anyone THEN table ELSE table \ {i}
  /\ active' = ActiveAmong(table \ {i})
  /\ UNCHANGED <<owner, nextId, opener, context, open, made, scale, built, mode, op, asking, released>>
-----------------------------------------------------------------------------
(* Starting a replacement                                                   *)

PageGone(i) ==
  /\ home[i] # 0
  /\ home'   = [home EXCEPT ![i] = 0]
  /\ table'  = table \ {i}
  /\ active' = ActiveAmong(table \ {i})
  /\ UNCHANGED <<owner, nextId, opener, context, open, made, scale, built, mode, op, asking, released>>

Begins(kind, prev) == [NoOp EXCEPT !.at = "saving", !.kind = kind, !.prevScale = prev]

SetUserAgent ==
  /\ At("idle") /\ mode = "launched"
  /\ op' = Begins("useragent", scale)
  /\ UNCHANGED <<tabState, context, open, made, scale, built, mode, asking, released>>

SetDeviceScaleFactor(s) ==
  /\ At("idle") /\ mode = "launched" /\ s # scale
  /\ op' = Begins("scale", scale)
  /\ scale' = s
  /\ UNCHANGED <<tabState, context, open, made, built, mode, asking, released>>

Handoff ==
  /\ At("idle") /\ mode = "launched"
  /\ op' = Begins("handoff", scale)
  /\ UNCHANGED <<tabState, context, open, made, scale, built, mode, asking, released>>

(* saveState walks the live map, with an await for every page               *)
SavesPage ==
  LET rest == {i \in table : i > op.last} IN
  /\ At("saving") /\ rest # {} /\ context \in open
  /\ LET i == Min(rest) IN
     op' = [op EXCEPT !.last = i,
                      !.saved = Append(@, [id |-> i, owner |-> owner[i], isActive |-> i = active])]
  /\ UNCHANGED <<tabState, context, open, made, scale, built, mode, asking, released>>

Saved ==
  /\ At("saving") /\ {i \in table : i > op.last} = {} /\ context \in open
  /\ op' = [op EXCEPT !.last = 0, !.at = IF op.kind = "handoff" THEN "promoting" ELSE "closing"]
  /\ IF op.kind = "handoff" THEN UNCHANGED table ELSE table' = {}
  /\ home' = IF op.kind = "handoff" THEN home ELSE [i \in Id |-> IF i \in table THEN 0 ELSE home[i]]
  /\ active' \in IF op.kind = "handoff" THEN {active} ELSE {active, 0}
  /\ UNCHANGED <<owner, nextId, opener, context, open, made, scale, built, mode, asking, released>>

(* context.cookies() throws: the context is gone                            *)
SaveFails ==
  /\ At("saving") /\ context \notin open
  /\ op' = IF op.kind = "handoff" THEN NoOp ELSE [op EXCEPT !.at = "cleanup"]
  /\ UNCHANGED <<tabState, context, open, made, scale, built, mode, asking, released>>

(* The old context closes and takes with it what a late newTab put there    *)
OldContextClosed ==
  /\ At("closing")
  /\ open' = open \ {context}
  /\ home' = Dies(context) /\ table' = Survivors(context)
  /\ active' = ActiveAmong(Survivors(context))
  /\ Goto("creating")
  /\ UNCHANGED <<owner, nextId, opener, context, made, scale, built, mode, asking, released>>

Creates ==
  /\ made < MaxContext
  /\ made' = made + 1 /\ context' = made + 1
  /\ open' = open \cup {made + 1}

ContextCreated ==
  /\ At("creating") /\ Creates
  /\ built' = scale
  /\ Goto("cookies")
  /\ UNCHANGED <<tabState, scale, mode, asking, released>>

(* newContext, applyStealth or the headers fail                             *)
ContextFails ==
  /\ At("creating") /\ Goto("cleanup")
  /\ UNCHANGED <<tabState, context, open, made, scale, built, mode, asking, released>>
-----------------------------------------------------------------------------
(* handoff: the headed browser replaces the headless one before the restore; *)
(* its launch passes neither a viewport nor a scale                          *)

HeadedLaunched ==
  /\ At("promoting") /\ Creates
  /\ built' = ScreenScale
  /\ table' = {} /\ mode' = "headed"
  /\ Goto("cookies")
  /\ UNCHANGED <<owner, active, nextId, home, opener, scale, asking, released>>

HeadedLaunchFails ==
  /\ At("promoting") /\ op' = NoOp
  /\ UNCHANGED <<tabState, context, open, made, scale, built, mode, asking, released>>

(* The browser that was replaced closes at its own pace                     *)
OldBrowserClosesWhenEmpty(x) ==
  /\ At("idle") /\ mode = "headed" /\ x \in open /\ x # context /\ \A i \in Id : home[i] # x
  /\ context \in open
  /\ open' = open \ {x}
  /\ home' = Dies(x) /\ table' = Survivors(x)
  /\ active' = ActiveAmong(Survivors(x))
  /\ UNCHANGED <<owner, nextId, opener, context, made, scale, built, mode, op, asking, released>>

OldBrowserCloses(x) ==
  /\ At("idle") /\ mode = "headed" /\ x \in open /\ x # context /\ context \in open
  /\ open' = open \ {x}
  /\ home' = Dies(x) /\ table' = Survivors(x)
  /\ active' = ActiveAmong(Survivors(x))
  /\ UNCHANGED <<owner, nextId, opener, context, made, scale, built, mode, op, asking, released>>
-----------------------------------------------------------------------------
(* restoreState                                                             *)

CookiesAdded ==
  /\ At("cookies")
  /\ owner' = [i \in Id |-> Anyone]
  /\ Goto("restoring")
  /\ UNCHANGED <<table, active, nextId, home, opener, context, open, made, scale, built, mode, asking, released>>

(* A saved tab comes back under a fresh id, for the owner it was saved with; *)
(* one whose URL is refused stays blank and forgets that it was active       *)
PageRestoredWithStickyOwner(refused) ==
  LET s == Head(op.saved) IN
  /\ At("restoring") /\ op.saved # <<>>
  /\ Registers(context, IF s.owner = Anyone THEN owner[nextId - 1] ELSE s.owner, opener[s.id])
  /\ op' = [op EXCEPT !.saved = Tail(@),
                      !.activeId = IF s.isActive /\ ~refused THEN nextId ELSE @]
  /\ UNCHANGED <<active, context, open, made, scale, built, mode, asking, released>>

PageRestored(refused) ==
  LET s == Head(op.saved) IN
  /\ At("restoring") /\ op.saved # <<>>
  /\ Registers(context, s.owner, opener[s.id])
  /\ op' = [op EXCEPT !.saved = Tail(@),
                      !.activeId = IF s.isActive /\ ~refused THEN nextId ELSE @]
  /\ UNCHANGED <<active, context, open, made, scale, built, mode, asking, released>>

Restored ==
  /\ At("restoring") /\ op.saved = <<>>
  /\ IF table = {} THEN /\ Goto("blank") /\ UNCHANGED active
     ELSE /\ active' = IF op.activeId # 0 THEN op.activeId ELSE Min(table)
          /\ op' = NoOp
  /\ UNCHANGED <<table, owner, nextId, home, opener, context, open, made, scale, built, mode, asking, released>>

RestoreFails ==
  /\ At("cookies") \/ At("restoring") \/ At("blank")
  /\ IF op.kind = "handoff"
     THEN /\ open' = open \ {context} /\ home' = Dies(context)
          /\ table' = Survivors(context) /\ active' = ActiveAmong(Survivors(context))
          /\ op' = NoOp
     ELSE Goto("cleanup") /\ UNCHANGED <<open, home, table, active>>
  /\ UNCHANGED <<owner, nextId, opener, context, made, scale, built, mode, asking, released>>

(* The newTab() of a restore without tabs, and of the fallback              *)
BlankTab ==
  /\ At("blank") /\ context \in open
  /\ Registers(context, Anyone, Anyone)
  /\ active' = nextId
  /\ op' = NoOp
  /\ UNCHANGED <<context, open, made, scale, built, mode, asking, released>>
-----------------------------------------------------------------------------
(* The clean slate after a failure, and the rollback of the scale           *)

FallbackCloses ==
  /\ At("cleanup")
  /\ table' = {}
  /\ open' = open \ {context} /\ home' = Dies(context)
  /\ active' \in {active, 0}
  /\ Goto("fallback")
  /\ UNCHANGED <<owner, nextId, opener, context, made, scale, built, mode, asking, released>>

AfterErrorOnlyFields ==
  IF op.kind = "scale" /\ ~op.retried
  THEN op' = NoOp /\ scale' = op.prevScale
  ELSE op' = NoOp /\ UNCHANGED scale

AfterErrorAgain ==
  IF op.kind = "scale"
  THEN op' = [Begins("scale", op.prevScale) EXCEPT !.retried = TRUE] /\ scale' = op.prevScale
  ELSE op' = NoOp /\ UNCHANGED scale

AfterError ==
  IF op.kind = "scale" /\ ~op.retried
  THEN op' = [Begins("scale", op.prevScale) EXCEPT !.retried = TRUE] /\ scale' = op.prevScale
  ELSE op' = NoOp /\ UNCHANGED scale

FallbackOpens ==
  /\ At("fallback") /\ Creates
  /\ built' = scale
  /\ \/ /\ nextId <= MaxId
        /\ table' = table \cup {nextId} /\ home' = [home EXCEPT ![nextId] = made + 1]
        /\ opener' = [opener EXCEPT ![nextId] = Anyone]
        /\ nextId' = nextId + 1 /\ active' = nextId
     \/ UNCHANGED <<table, home, opener, nextId, active>>
  /\ AfterError
  /\ UNCHANGED <<owner, mode, asking, released>>

FallbackFails ==
  /\ At("fallback") /\ AfterError
  /\ UNCHANGED <<tabState, context, open, made, built, mode, asking, released>>

Replacement ==
  \/ SavesPage \/ Saved \/ SaveFails \/ OldContextClosed
  \/ ContextCreated \/ ContextFails \/ HeadedLaunched \/ HeadedLaunchFails
  \/ CookiesAdded \/ (\E refused \in BOOLEAN : PageRestored(refused)) \/ Restored
  \/ RestoreFails \/ BlankTab \/ FallbackCloses \/ FallbackOpens \/ FallbackFails

CtxNext ==
  \/ Replacement
  \/ SetUserAgent \/ (\E s \in Scale : SetDeviceScaleFactor(s)) \/ Handoff
  \/ \E a \in Agent : NewTabAsks(a) \/ NewTabOpens(a) \/ NewTabRejected(a) \/ ReleaseAgent(a)
  \/ \E i \in Id : PageGone(i)
  \/ \E x \in Context : OldBrowserCloses(x)

(* Every call into Playwright that is awaited settles (newPage, close, goto *)
(* and launch have time limits), so a replacement keeps moving; a browser   *)
(* told to close closes.                                                    *)
CtxSpec ==
  /\ CtxInit /\ [][CtxNext]_ctxVars
  /\ WF_ctxVars(Replacement)
  /\ \A x \in Context : WF_ctxVars(OldBrowserCloses(x))
-----------------------------------------------------------------------------
CtxTypeOK ==
  /\ table \subseteq Id /\ active \in 0..MaxId /\ nextId \in 2..(MaxId + 1)
  /\ owner \in [Id -> Agent \cup {Anyone}] /\ opener \in [Id -> Agent \cup {Anyone}]
  /\ context \in Context /\ open \subseteq Context /\ made \in Context
  /\ home \in [Id -> 0..MaxContext] /\ asking \in [Agent -> 0..MaxContext]
  /\ scale \in Scale /\ built \in Scale \cup {ScreenScale}
  /\ mode \in {"launched", "headed"} /\ released \subseteq Agent
  /\ op.at \in Stage /\ op.saved \in Seq(SavedTab)

(* Whatever is closed, recreated, rolled back or handed over, a tab id that *)
(* a command can name stands for a page that exists.                        *)
RegisteredPagesLive == \A i \in table : home[i] \in open

(* A restored tab never goes to an agent other than the one that opened it, *)
(* although it has a new id (the reason restoreState gives for clearing the *)
(* ownership map).                                                          *)
OwnerOpenedTheTab == \A i \in table : owner[i] \in {Anyone, opener[i]}

(* "live state matches tracked state", which setDeviceScaleFactor says of a *)
(* rollback: whatever fails, a headless context in use was built with the   *)
(* recorded scale.  A headed one never is: the record outlives a handoff,   *)
(* and getDeviceScaleFactor goes on to report it, but the window has the    *)
(* scale of its screen.                                                     *)
ScaleMatchesContext ==
  At("idle") /\ context \in open => built = IF mode = "launched" THEN scale ELSE ScreenScale

(* Recreating a context, rolling one back and handing one over leave a      *)
(* table of live tabs that belong to those who opened them, in a context of *)
(* the recorded scale, or a headed one of its screen's.                     *)
ContextSafe ==
  CtxTypeOK /\ RegisteredPagesLive /\ OwnerOpenedTheTab /\ ScaleMatchesContext

(* A tab that a late newTab opened in the browser that was handed over      *)
(* leaves the table when that browser closes.                               *)
StraysLeave ==
  \A i \in Id : (At("idle") /\ context \in open /\ i \in table /\ home[i] # context)
                   ~> i \notin table

(* A replacement ends, whichever of its awaits fail.                        *)
ReplacementEnds == At("saving") ~> At("idle")

(* A replacement of the context or the browser ends, and what it has left   *)
(* behind in the table goes.                                                *)
ReplacementSettles ==
  ReplacementEnds /\ StraysLeave
=============================================================================
