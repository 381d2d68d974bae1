---------------------------- MODULE ServerProofs ----------------------------
(***************************************************************************)
(* What the daemon keeps: its tab table, its terminal agents, its own life, *)
(* its classifier process and its activity feed.                           *)
(***************************************************************************)
EXTENDS CommandPipeline, AgentLifecycle, DaemonLifecycle, SidecarClient, ActivityFeed,
        FiniteSetTheorems, TLAPS

(***************************************************************************)
(* The tab table under any number of concurrent commands: it agrees with   *)
(* the open pages, and ownership follows the page.                         *)
(*                                                                         *)
(* Ownership entries outlive their tabs, so what protects a new tab from   *)
(* an old entry is that its id was never used before: Inv adds that ids    *)
(* from nextTabId on have no page and no owner (FreshIds).  A tab whose    *)
(* closeTab is under way has been told to close (ToldToClose), so          *)
(* forgetting it never loses an open page.                                 *)
(*                                                                         *)
(* The active tab needs more (Calm): while commands come one at a time and *)
(* pages close only when told to, it is registered, or the one command     *)
(* that is under way will see to it.                                       *)
(***************************************************************************)

FreshIds ==
  \A t \in Tab : t >= nextTabId => page[t] = "unborn" /\ tabOwnership[t] = Root

ToldToClose ==
  \A c \in Call : call[c].at = "closing" =>
    call[c].tab \in Tab /\ page[call[c].tab] \in {"closing", "closed"}

Inv == TableTypeOK /\ FreshIds /\ ToldToClose /\ OwnerIsOpener /\ TableMatchesPages

tableVars == <<page, pages, tabOwnership, nextTabId, opener>>

(* One tab, open and unowned.                                               *)
LEMMA InitInv == CommandsInit => Inv
BY MaxTabIsPositive, RootIsNoClient
DEF CommandsInit, TabsInit, Inv, TableTypeOK, FreshIds, OwnerIsOpener,
    TableMatchesPages, ToldToClose, Tab, CallState, Idle

(* Steps that leave the table alone and set one call well typed             *)
LEMMA TableUntouched ==
  ASSUME Inv, UNCHANGED tableVars, call' \in [Call -> CallState],
         \A c \in Call : call'[c] = call[c] \/ call'[c].at # "closing"
  PROVE  Inv'
BY DEF tableVars, Inv, ToldToClose, TableTypeOK, FreshIds, OwnerIsOpener, TableMatchesPages, Tab

(* The call states the actions build are call states, and only Closing      *)
(* closes.                                                                  *)
LEMMA CallStates ==
  ASSUME TableTypeOK
  PROVE  /\ Idle \in CallState /\ Idle.at # "closing"
         /\ Reopening \in CallState /\ Reopening.at # "closing"
         /\ \A who \in Agent \cup {Root} :
              /\ Working(who) \in CallState /\ Working(who).at # "closing"
              /\ Creating(who) \in CallState /\ Creating(who).at # "closing"
         /\ \A who \in Agent \cup {Root}, t \in Tab : \A a :
              Closing(who, t, a) \in CallState /\ Closing(who, t, a).tab = t
         /\ \A c \in Call : /\ Returned(c) \in [Call -> CallState]
                            /\ Returned(c)[c].at # "closing"
                            /\ \A d \in Call \ {c} : Returned(c)[d] = call[d]
BY DEF TableTypeOK, Idle, CallState, Working, Creating, Reopening, Closing, Returned

(* The start of a command changes the table only if it closes a tab, and    *)
(* then only marks the page.                                                *)
LEMMA CommandStepKeeps == Inv /\ CommandStep => Inv'
<1> SUFFICES ASSUME Inv, CommandStep PROVE Inv'
  OBVIOUS
<1> PICK c \in Call, tabId \in TabRequested :
      \/ \E who \in Agent \cup {Root} :
           \/ Refused(c, who, tabId)
           \/ ScopedNewTab(c, who, tabId)
           \/ NoActivePage(c, who, tabId)
           \/ PageCommand(c, who, tabId)
           \/ \E t \in Tab : CloseTab(c, who, tabId, t) \/ SwitchTab(c, who, tabId, t)
      \/ RootNewTab(c, tabId)
  BY DEF CommandStep
<1> USE CallStates
<1> call \in [Call -> CallState]
  BY DEF Inv, TableTypeOK
<1>1. ASSUME NEW who \in Agent \cup {Root},
             \/ Refused(c, who, tabId)
             \/ NoActivePage(c, who, tabId)
             \/ \E t \in Tab : SwitchTab(c, who, tabId, t)
      PROVE  Inv'
  <2>1. UNCHANGED tableVars /\ UNCHANGED call
    BY <1>1 DEF Refused, NoActivePage, SwitchTab, Admitted, Arrive, tableVars
  <2> QED BY <2>1, TableUntouched
<1>2. ASSUME NEW who \in Agent \cup {Root},
             ScopedNewTab(c, who, tabId) \/ PageCommand(c, who, tabId) \/ RootNewTab(c, tabId)
      PROVE  Inv'
  <2>1. UNCHANGED tableVars
    BY <1>2 DEF ScopedNewTab, PageCommand, RootNewTab, Begin, Admitted, Arrive, tableVars
  <2>2. call' \in [Call -> CallState] /\ \A d \in Call : call'[d] = call[d] \/ call'[d].at # "closing"
    BY <1>2 DEF ScopedNewTab, PageCommand, RootNewTab, Begin, Inv
  <2> QED BY <2>1, <2>2, TableUntouched
<1>3. ASSUME NEW who \in Agent \cup {Root}, NEW t \in Tab, CloseTab(c, who, tabId, t)
      PROVE  Inv'
  <2>1. /\ UNCHANGED <<pages, tabOwnership, nextTabId, opener>>
        /\ page' = PageTold(t) /\ t \in pages
        /\ call' \in [Call -> CallState] /\ call'[c].tab = t
        /\ \A d \in Call \ {c} : call'[d] = call[d]
    BY <1>3 DEF CloseTab, Begin, Admitted, Arrive, Inv
  <2>2. /\ page' \in [Tab -> {"unborn", "open", "closing", "closed"}]
        /\ page'[t] \in {"closing", "closed"}
        /\ \A u \in Tab \ {t} : page'[u] = page[u]
    BY <2>1 DEF Inv, TableTypeOK, TableMatchesPages, PageTold
  <2>3. ToldToClose'
    BY <2>1, <2>2 DEF Inv, ToldToClose
  <2>4. TableTypeOK'
    BY <2>1, <2>2 DEF Inv, TableTypeOK
  <2>5. page[t] \in {"open", "closing"}
    BY <2>1 DEF Inv, TableTypeOK, TableMatchesPages
  <2>6. FreshIds'
    BY <2>1, <2>2, <2>5 DEF Inv, FreshIds
  <2>7. OwnerIsOpener'
    BY <2>1 DEF Inv, OwnerIsOpener
  <2>8. page'[t] \in {"open", "closing"}
    BY <2>1, <2>5 DEF Inv, TableTypeOK, PageTold
  <2>9. TableMatchesPages'
    BY <2>1, <2>2, <2>8 DEF Inv, TableMatchesPages
  <2> QED BY <2>3, <2>4, <2>6, <2>7, <2>9 DEF Inv
<1> QED BY <1>1, <1>2, <1>3

(* The continuations: a page is registered under a fresh id, or forgotten.  *)
LEMMA ReturnStepKeeps == Inv /\ ReturnStep => Inv'
<1> SUFFICES ASSUME Inv, NEW c \in Call,
                    \/ PageCreated(c) \/ NewTabFails(c) \/ CloseResumes(c)
                    \/ PageCommandReturns(c) \/ Finish(c)
             PROVE  Inv'
  BY DEF ReturnStep
<1> USE CallStates
<1> /\ call \in [Call -> CallState] /\ call[c] \in CallState
    /\ nextTabId \in Nat /\ Tab = {t \in Nat : 1 <= t /\ t <= MaxTab}
  BY MaxTabIsPositive DEF Inv, TableTypeOK, Tab
<1>1. CASE PageCreated(c)
  <2> DEFINE id == nextTabId
  <2>1. id \in Tab /\ page[id] = "unborn" /\ tabOwnership[id] = Root
    BY <1>1 DEF PageCreated, Inv, FreshIds, TableTypeOK
  <2>2. TableTypeOK'
    <3>1. call[c].client \in Agent \cup {Root}
      BY DEF CallState
    <3>2. nextTabId' \in 2..(MaxTab + 1)
      BY <1>1, MaxTabIsPositive DEF PageCreated, Inv, TableTypeOK
    <3> QED BY <1>1, <2>1, <3>1, <3>2 DEF PageCreated, Inv, TableTypeOK
  <2>3. FreshIds' /\ TableMatchesPages'
    BY <1>1, <2>1 DEF PageCreated, Inv, TableTypeOK, FreshIds, TableMatchesPages
  <2>4. OwnerIsOpener'
    BY <1>1, <2>1 DEF PageCreated, Inv, TableTypeOK, OwnerIsOpener
  <2>5. ToldToClose'
    BY <1>1, <2>1 DEF PageCreated, Inv, TableTypeOK, ToldToClose
  <2> QED BY <2>2, <2>3, <2>4, <2>5 DEF Inv
<1>2. CASE CloseResumes(c)
  <2> DEFINE t == call[c].tab
  <2>1. /\ call' \in [Call -> CallState] /\ call'[c].at # "closing"
        /\ \A d \in Call \ {c} : call'[d] = call[d]
    <3>1. CASE call' = Returned(c)
      BY <3>1 DEF Inv
    <3>2. CASE call' = [call EXCEPT ![c] = Reopening]
      BY <3>2 DEF Inv
    <3> QED BY <1>2, <3>1, <3>2 DEF CloseResumes
  <2>2. t \in Tab /\ page[t] \in {"closing", "closed"}
    BY <1>2 DEF CloseResumes, Inv, ToldToClose
  <2>3. /\ pages' = pages \ {t} /\ tabOwnership' = [tabOwnership EXCEPT ![t] = Root]
        /\ UNCHANGED <<page, nextTabId, opener>>
    BY <1>2 DEF CloseResumes
  <2>4. ToldToClose'
    BY <2>1, <2>3 DEF Inv, ToldToClose
  <2>5. FreshIds' /\ OwnerIsOpener' /\ TableMatchesPages'
    BY <2>2, <2>3 DEF Inv, TableTypeOK, FreshIds, OwnerIsOpener, TableMatchesPages
  <2>6. TableTypeOK'
    BY <2>1, <2>2, <2>3 DEF Inv, TableTypeOK
  <2> QED BY <2>4, <2>5, <2>6 DEF Inv
<1>3. CASE NewTabFails(c) \/ PageCommandReturns(c) \/ Finish(c)
  <2>1. /\ UNCHANGED tableVars /\ call' \in [Call -> CallState]
        /\ \A d \in Call : call'[d] = call[d] \/ call'[d].at # "closing"
    BY <1>3 DEF NewTabFails, PageCommandReturns, Finish, tableVars, Inv
  <2> QED BY <2>1, TableUntouched
<1> QED BY <1>1, <1>2, <1>3

(* Pages closing, and a client's tabs released.                             *)
LEMMA OtherStepKeeps == Inv /\ (PageStep \/ Revoke \/ UNCHANGED allVars) => Inv'
<1> SUFFICES ASSUME Inv, PageStep \/ Revoke \/ UNCHANGED allVars PROVE Inv'
  OBVIOUS
<1> USE DEF Inv, TableTypeOK, FreshIds, OwnerIsOpener, TableMatchesPages, ToldToClose
<1>1. ASSUME NEW t \in Tab, CloseEvent(t)
      PROVE  Inv'
  BY <1>1 DEF CloseEvent
<1>2. ASSUME NEW t \in Tab, PageClosesItself(t)
      PROVE  Inv'
  BY <1>2 DEF PageClosesItself, PageTold
<1>3. ASSUME NEW who \in Agent, ReleaseClientTabs(who)
      PROVE  Inv'
  BY <1>3 DEF ReleaseClientTabs
<1>4. CASE UNCHANGED allVars
  BY <1>4 DEF allVars, tabVars
<1> QED BY <1>1, <1>2, <1>3, <1>4 DEF PageStep, Revoke

(* The invariant holds in every reachable state.                            *)
LEMMA InvHolds == CommandsSpec => []Inv
<1>1. Inv /\ [CommandsNext]_allVars => Inv'
  BY CommandStepKeeps, ReturnStepKeeps, OtherStepKeeps DEF CommandsNext
<1> QED BY <1>1, InitInv, PTL DEF CommandsSpec

(* Whoever is recorded as the owner of a tab is the client that opened it.  *)
THEOREM OwnerIsOpenerHolds == CommandsSpec => []OwnerIsOpener
BY InvHolds, PTL DEF Inv

(* Every open page is registered and no closed page is, in whatever order   *)
(* page.close() resolves and the close event is dispatched.                 *)
THEOREM TableMatchesPagesHolds == CommandsSpec => []TableMatchesPages
BY InvHolds, PTL DEF Inv

(* The tab table is safe under any number of commands, agents and tabs.     *)
THEOREM TabTableSafeHolds == CommandsSpec => []TabTableSafe
<1>1. Inv => TabTableSafe
  BY DEF Inv, TabTableSafe
<1> QED BY <1>1, InvHolds, PTL
-----------------------------------------------------------------------------
(* Without mishaps: one command at a time; the active tab is registered     *)
(* unless the closeTab of it, which may open a new one, is under way; and a *)
(* closeTab of another tab leaves it alone.                                 *)
Calm ==
  mishaps = {} =>
    /\ \A c, d \in Call : c # d => call[c].at = "idle" \/ call[d].at = "idle"
    /\ \/ activeTabId \in pages
       \/ \E c \in Call : call[c].at \in {"creating", "closing"} /\ call[c].wasActive
    /\ \A c \in Call : call[c].at = "closing" /\ ~call[c].wasActive => activeTabId # call[c].tab
    /\ \A t \in pages : page[t] = "closing" =>
         \E c \in Call : call[c].at = "closing" /\ call[c].tab = t

ActiveInv == Inv /\ CommandsTypeOK /\ Calm

(* A set of tab ids has a greatest one, so Max picks from the set: an       *)
(* interval m..n is least by inclusion for the greatest m.                  *)
LEMMA MaxIsGreatest ==
  ASSUME NEW n \in Nat, NEW S, S \subseteq 1..n, S # {}
  PROVE  Max(S) \in S /\ \A s \in S : Max(S) >= s
<1> DEFINE Above == {t..n : t \in S}
<1>1. Above \subseteq FiniteSubsetsOf(1..n) /\ Above # {}
  <2>1. IsFiniteSet(1..n)
    BY FS_Interval
  <2>2. FiniteSubsetsOf(1..n) = SUBSET (1..n)
    BY <2>1, FS_FiniteSubsetsOfFinite, Zenon
  <2>3. \A t \in S : t..n \in SUBSET (1..n)
    OBVIOUS
  <2>4. \A t \in S : t..n \in FiniteSubsetsOf(1..n)
    BY <2>2, <2>3, Zenon
  <2> QED BY <2>4, Zenon
<1>2. PICK A \in Above : \A B \in Above : ~(<<B, A>> \in StrictSubsetOrdering(1..n))
  <2> HIDE DEF Above
  <2> QED BY <1>1, FS_StrictSubsetOrderingWellFounded, WFMin
<1>3. PICK m \in S : A = m..n
  BY <1>2
<1>4. ASSUME NEW s \in S, s > m PROVE FALSE
  <2>1. s..n \in SUBSET (1..n) /\ m..n \in SUBSET (1..n)
    OBVIOUS
  <2>2. s..n \subseteq m..n /\ s..n # m..n
    <3>1. s \in Nat /\ m \in Nat /\ m <= n
      OBVIOUS
    <3>2. m \in m..n /\ m \notin s..n
      BY <1>4, <3>1
    <3>3. s..n \subseteq m..n
      BY <1>4, <3>1
    <3> QED BY <3>2, <3>3
  <2>3. <<s..n, m..n>> \in StrictSubsetOrdering(1..n)
    BY <2>1, <2>2 DEF StrictSubsetOrdering
  <2> QED BY <1>2, <1>3, <2>3
<1>5. \A s \in S : m >= s
  BY <1>4
<1> QED BY <1>5 DEF Max

(* Where a tab that closes leaves the manager: on a tab that is left, or on *)
(* none.                                                                    *)
LEMMA LastOfIsLeft ==
  ASSUME NEW S, S \subseteq Tab
  PROVE  /\ LastOf(S) \in 0..MaxTab
         /\ S # {} => LastOf(S) \in S
<1>1. CASE S = {}
  BY <1>1, MaxTabIsPositive DEF LastOf
<1>2. CASE S # {}
  <2>1. MaxTab \in Nat /\ S \subseteq 1..MaxTab
    BY MaxTabIsPositive DEF Tab
  <2>2. Max(S) \in S
    BY <1>2, <2>1, MaxIsGreatest
  <2>3. LastOf(S) = Max(S)
    BY <1>2 DEF LastOf
  <2>4. Max(S) \in 0..MaxTab
    <3>1. \A s \in S : s \in 0..MaxTab
      BY <2>1
    <3> QED BY <2>2, <3>1, Zenon
  <2> QED BY <2>2, <2>3, <2>4
<1> QED BY <1>1, <1>2

(* The server starts with no command in flight.                             *)
LEMMA InitActiveInv == CommandsInit => ActiveInv
<1> SUFFICES ASSUME CommandsInit PROVE ActiveInv
  OBVIOUS
<1>1. Inv
  BY InitInv
<1>2. CommandsTypeOK
  BY <1>1, MaxTabIsPositive DEF CommandsInit, TabsInit, CommandsTypeOK, TabsTypeOK, Inv
<1>3. Calm
  <2>1. \A c \in Call : call[c].at = "idle"
    BY DEF CommandsInit, TabsInit, Idle
  <2>2. activeTabId \in pages /\ \A t \in pages : page[t] = "open"
    BY MaxTabIsPositive DEF CommandsInit, TabsInit, Tab
  <2> QED BY <2>1, <2>2 DEF Calm
<1> QED BY <1>1, <1>2, <1>3 DEF ActiveInv

(* The call states that matter to Calm                                      *)
LEMMA CallStatesAt ==
  /\ Idle.at = "idle"
  /\ Reopening.at = "creating"
  /\ \A who : Working(who).at = "working" /\ Creating(who).at = "creating"
  /\ \A who, t, a : /\ Closing(who, t, a).at = "closing" /\ Closing(who, t, a).tab = t
                    /\ ~Closing(who, t, a).wasActive => t # a
  /\ \A c \in Call : call \in [Call -> CallState] => Returned(c)[c].at = "returned"
<1>1. \A who, t, a : Closing(who, t, a).wasActive = (t = a)
  BY DEF Closing
<1> QED BY <1>1 DEF Idle, Reopening, Working, Creating, Closing, Returned

(* A command that arrives alone finds no other under way; the tab it makes  *)
(* active is registered.                                                    *)
LEMMA ArrivalKeepsActive ==
  ASSUME ActiveInv, Inv', CommandStep
  PROVE  ActiveInv'
<1> PICK c \in Call, tabId \in TabRequested :
      \/ \E who \in Agent \cup {Root} :
           \/ Refused(c, who, tabId)
           \/ ScopedNewTab(c, who, tabId)
           \/ NoActivePage(c, who, tabId)
           \/ PageCommand(c, who, tabId)
           \/ \E t \in Tab : CloseTab(c, who, tabId, t) \/ SwitchTab(c, who, tabId, t)
      \/ RootNewTab(c, tabId)
  BY DEF CommandStep
<1> DEFINE a == SwitchedTo(tabId)
<1> /\ call \in [Call -> CallState] /\ pages \subseteq Tab /\ activeTabId \in 0..MaxTab
    /\ tabId \in Tab \cup {NoTab} /\ page \in [Tab -> {"unborn", "open", "closing", "closed"}]
  BY DEF ActiveInv, Inv, TableTypeOK, CommandsTypeOK, TabsTypeOK, TabRequested
<1>1. a \in 0..MaxTab /\ Saved(tabId) \in 0..MaxTab \cup {NoTab} /\ (a \in pages => a \in Tab)
  BY DEF SwitchedTo, Saved, Tab
<1>2. /\ call[c].at = "idle" /\ UNCHANGED <<pages, tabOwnership, nextTabId, opener>>
      /\ mishaps' = IF Alone(c) THEN mishaps ELSE mishaps \cup {"overlap"}
  BY DEF Refused, ScopedNewTab, NoActivePage, PageCommand, CloseTab, SwitchTab, RootNewTab,
     Begin, Admitted, Arrive
<1>3. ASSUME mishaps' = {}
      PROVE  /\ mishaps = {} /\ \A d \in Call : call[d].at = "idle"
             /\ activeTabId \in pages /\ a \in pages
             /\ \A t \in pages : page[t] = "open"
  <2>1. mishaps = {} /\ Alone(c)
    BY <1>2, <1>3
  <2>2. \A d \in Call : call[d].at = "idle"
    BY <1>2, <2>1 DEF Alone
  <2>3. activeTabId \in pages /\ \A t \in pages : page[t] # "closing"
    BY <2>1, <2>2 DEF ActiveInv, Calm
  <2> QED BY <2>1, <2>2, <2>3 DEF SwitchedTo, ActiveInv, Inv, TableMatchesPages
<1>4. CommandsTypeOK'
  <2>1. /\ activeTabId' \in 0..MaxTab
        /\ savedTabId' \in [Call -> 0..MaxTab \cup {NoTab}]
        /\ session' \in [Call -> Tab \cup {NoTab}]
    BY <1>1 DEF Refused, ScopedNewTab, NoActivePage, PageCommand, CloseTab, SwitchTab,
       RootNewTab, Begin, Admitted, Arrive, ActiveInv, CommandsTypeOK, Tab
  <2>2. mishaps' \subseteq {"overlap", "selfclose"}
    BY <1>2 DEF ActiveInv, CommandsTypeOK
  <2> QED BY <2>1, <2>2 DEF CommandsTypeOK, TabsTypeOK, Inv
<1>5. Calm'
  <2> SUFFICES ASSUME mishaps' = {} PROVE Calm'
    BY DEF Calm
  <2>1. CASE UNCHANGED <<page, call>> /\ activeTabId' \in pages
    BY <1>2, <1>3, <2>1 DEF Calm
  <2>2. ASSUME NEW s, s.at \in {"creating", "working"},
               UNCHANGED page, activeTabId' = a, call' = [call EXCEPT ![c] = s]
        PROVE  Calm'
    BY <1>2, <1>3, <2>2 DEF Calm
  <2>3. ASSUME NEW who \in Agent \cup {Root}, NEW t \in Tab, CloseTab(c, who, tabId, t)
        PROVE  Calm'
    <3>1. /\ activeTabId' = a /\ page' = PageTold(t) /\ t \in pages
          /\ call' = [call EXCEPT ![c] = Closing(who, t, a)]
      BY <2>3 DEF CloseTab, Begin
    <3>2. \A u \in pages : page'[u] = "closing" => u = t
      BY <1>3, <3>1 DEF PageTold
    <3>3. call'[c].at = "closing" /\ call'[c].tab = t /\ (~call'[c].wasActive => t # a)
      <4>1. call'[c] = Closing(who, t, a)
        BY <3>1
      <4>2. ~call'[c].wasActive => t # a
        <5> SUFFICES ASSUME ~Closing(who, t, a).wasActive PROVE t # a
          BY <4>1
        <5> QED BY CallStatesAt, Zenon
      <4> QED BY <4>1, <4>2, CallStatesAt
    <3>4. \A d \in Call : d # c => call'[d].at = "idle"
      BY <1>3, <3>1
    <3> QED BY <1>2, <1>3, <3>1, <3>2, <3>3, <3>4 DEF Calm
  <2>4. ASSUME NEW who \in Agent \cup {Root}, Refused(c, who, tabId) \/ NoActivePage(c, who, tabId)
        PROVE  Calm'
    BY <1>3, <2>1, <2>4 DEF Refused, NoActivePage
  <2>5. ASSUME NEW who \in Agent \cup {Root}, NEW t \in Tab, SwitchTab(c, who, tabId, t)
        PROVE  Calm'
    BY <1>3, <2>1, <2>5 DEF SwitchTab
  <2>6. ASSUME NEW who \in Agent \cup {Root},
               ScopedNewTab(c, who, tabId) \/ PageCommand(c, who, tabId) \/ RootNewTab(c, tabId)
        PROVE  Calm'
    BY <2>2, <2>6, CallStatesAt DEF ScopedNewTab, PageCommand, RootNewTab, Begin
  <2> QED BY <2>3, <2>4, <2>5, <2>6
<1> QED BY <1>4, <1>5 DEF ActiveInv

(* A continuation is that of the one command under way.                     *)
LEMMA ContinuationKeepsActive ==
  ASSUME ActiveInv, Inv', ReturnStep
  PROVE  ActiveInv'
<1> PICK c \in Call : \/ (PageCreated(c) \/ NewTabFails(c) \/ CloseResumes(c)) /\ UNCHANGED cmdVars
                      \/ PageCommandReturns(c)
                      \/ Finish(c)
  BY DEF ReturnStep
<1> /\ call \in [Call -> CallState] /\ call' \in [Call -> CallState] /\ pages \subseteq Tab
    /\ activeTabId \in 0..MaxTab /\ nextTabId \in 2..(MaxTab + 1)
    /\ page \in [Tab -> {"unborn", "open", "closing", "closed"}]
    /\ MaxTab \in Nat /\ \A t \in Tab : t \in 1..MaxTab
  BY MaxTabIsPositive DEF ActiveInv, Inv, TableTypeOK, CommandsTypeOK, TabsTypeOK, Tab
<1>1. CommandsTypeOK'
  <2>1. activeTabId' \in 0..MaxTab
    <3>1. CASE PageCreated(c)
      BY <3>1 DEF PageCreated
    <3>2. CASE CloseResumes(c)
      BY <3>2, LastOfIsLeft DEF CloseResumes
    <3>3. CASE Finish(c)
      BY <3>3 DEF Finish, SwitchedTo
    <3>4. CASE NewTabFails(c) \/ PageCommandReturns(c)
      BY <3>4 DEF NewTabFails, PageCommandReturns
    <3> QED BY <3>1, <3>2, <3>3, <3>4
  <2>2. /\ savedTabId' \in [Call -> 0..MaxTab \cup {NoTab}]
        /\ session' \in [Call -> Tab \cup {NoTab}]
        /\ mishaps' = mishaps
    BY DEF cmdVars, PageCommandReturns, Finish, ActiveInv, CommandsTypeOK
  <2> QED BY <2>1, <2>2 DEF CommandsTypeOK, TabsTypeOK, ActiveInv, Inv
<1>2. Calm'
  <2> SUFFICES ASSUME mishaps' = {} PROVE Calm'
    BY DEF Calm
  <2>1. mishaps = {}
    BY DEF cmdVars, PageCommandReturns, Finish
  <2>2. call[c].at # "idle" /\ \A d \in Call \ {c} : call[d].at = "idle" /\ call'[d] = call[d]
    <3>1. \A d \in Call \ {c} : call'[d] = call[d]
      BY DEF PageCreated, NewTabFails, CloseResumes, PageCommandReturns, Finish, Returned
    <3>2. call[c].at # "idle"
      BY DEF PageCreated, NewTabFails, CloseResumes, PageCommandReturns, Finish
    <3> QED BY <2>1, <3>1, <3>2 DEF ActiveInv, Calm
  <2>3. CASE PageCreated(c)
    <3>1. call'[c].at = "returned" /\ activeTabId' \in pages'
      BY <2>3, CallStatesAt DEF PageCreated
    <3>2. \A t \in pages' : page'[t] # "closing"
      BY <2>1, <2>2, <2>3 DEF PageCreated, ActiveInv, Calm, Tab
    <3> QED BY <2>2, <3>1, <3>2 DEF Calm
  <2>4. CASE CloseResumes(c)
    <3> DEFINE t == call[c].tab
    <3>1. \A u \in pages' : u # t /\ page'[u] # "closing"
      BY <2>1, <2>2, <2>4 DEF CloseResumes, ActiveInv, Calm
    <3>2. CASE call[c].wasActive /\ pages \ {t} = {}
      <4>1. call'[c] = Reopening
        BY <2>4, <3>2 DEF CloseResumes
      <4>2. call'[c].at = "creating" /\ call'[c].wasActive = TRUE
        BY <4>1 DEF Reopening, Idle
      <4> QED BY <2>2, <3>1, <4>2 DEF Calm
    <3>3. CASE ~(call[c].wasActive /\ pages \ {t} = {})
      <4>1. call' = Returned(c)
        BY <2>4, <3>3 DEF CloseResumes
      <4>2. activeTabId' \in pages'
        <5>1. CASE call[c].wasActive
          BY <2>4, <3>3, <5>1, LastOfIsLeft DEF CloseResumes
        <5>2. CASE ~call[c].wasActive
          BY <2>1, <2>2, <2>4, <5>2 DEF CloseResumes, ActiveInv, Calm
        <5> QED BY <5>1, <5>2
      <4> QED BY <2>2, <3>1, <4>1, <4>2, CallStatesAt DEF Calm
    <3> QED BY <3>2, <3>3
  <2>5. CASE NewTabFails(c) \/ PageCommandReturns(c) \/ Finish(c)
    <3>1. /\ call'[c].at \in {"returned", "idle"} /\ UNCHANGED <<page, pages>>
          /\ activeTabId \in pages => activeTabId' \in pages'
      BY <2>5, CallStatesAt DEF NewTabFails, PageCommandReturns, Finish, SwitchedTo
    <3>2. activeTabId \in pages
      BY <2>1, <2>2, <2>5 DEF NewTabFails, PageCommandReturns, Finish, ActiveInv, Calm
    <3>3. \A t \in pages : page[t] # "closing"
      BY <2>1, <2>2, <2>5 DEF NewTabFails, PageCommandReturns, Finish, ActiveInv, Calm
    <3> QED BY <2>2, <3>1, <3>2, <3>3 DEF Calm
  <2> QED BY <2>3, <2>4, <2>5
<1> QED BY <1>1, <1>2 DEF ActiveInv

(* The close event of a tab moves the manager off it; a page that closes by *)
(* itself is a mishap.                                                      *)
LEMMA EventKeepsActive ==
  ASSUME ActiveInv, Inv', PageStep \/ Revoke \/ UNCHANGED allVars
  PROVE  ActiveInv'
<1> /\ call \in [Call -> CallState] /\ pages \subseteq Tab /\ activeTabId \in 0..MaxTab
  BY DEF ActiveInv, Inv, TableTypeOK, CommandsTypeOK, TabsTypeOK
<1>1. ASSUME NEW t \in Tab, CloseEvent(t), UNCHANGED cmdVars
      PROVE  ActiveInv'
  <2>1. CommandsTypeOK'
    BY <1>1, LastOfIsLeft DEF CloseEvent, cmdVars, ActiveInv, Inv, CommandsTypeOK, TabsTypeOK
  <2>2. Calm'
    <3> SUFFICES ASSUME mishaps = {} PROVE Calm'
      BY <1>1 DEF Calm, cmdVars
    <3> USE DEF ActiveInv, Calm
    <3>1. CASE t \in pages /\ activeTabId = t
      <4>1. PICK c \in Call : call[c].at = "closing" /\ call[c].tab = t
        BY <1>1, <3>1 DEF CloseEvent
      <4>2. call[c].wasActive /\ \A d \in Call \ {c} : call[d].at = "idle"
        BY <3>1, <4>1
      <4> QED BY <1>1, <4>1, <4>2 DEF CloseEvent, Inv, TableTypeOK
    <3>2. CASE ~(t \in pages /\ activeTabId = t)
      BY <1>1, <3>2 DEF CloseEvent, Inv, TableTypeOK
    <3> QED BY <3>1, <3>2
  <2> QED BY <2>1, <2>2 DEF ActiveInv
<1>2. ASSUME NEW t \in Tab, PageClosesItself(t), mishaps' = mishaps \cup {"selfclose"},
             UNCHANGED <<savedTabId, session>>
      PROVE  ActiveInv'
  BY <1>2 DEF PageClosesItself, ActiveInv, Inv, CommandsTypeOK, TabsTypeOK, Calm
<1>3. ASSUME NEW who \in Agent, ReleaseClientTabs(who), UNCHANGED cmdVars
      PROVE  ActiveInv'
  BY <1>3 DEF ReleaseClientTabs, cmdVars, ActiveInv, Inv, CommandsTypeOK, TabsTypeOK, Calm
<1>4. CASE UNCHANGED allVars
  BY <1>4 DEF allVars, tabVars, cmdVars, ActiveInv, Inv, CommandsTypeOK, TabsTypeOK, Calm
<1> QED BY <1>1, <1>2, <1>3, <1>4 DEF PageStep, Revoke

(* Commands that come one at a time leave a live active tab, whatever they  *)
(* close and in whatever order page.close() and the close event arrive.     *)
THEOREM CommandsSafeHolds == CommandsSpec => []CommandsSafe
<1>1. ActiveInv /\ [CommandsNext]_allVars => ActiveInv'
  BY CommandStepKeeps, ReturnStepKeeps, OtherStepKeeps, ArrivalKeepsActive,
     ContinuationKeepsActive, EventKeepsActive DEF CommandsNext, ActiveInv
<1>2. ActiveInv => CommandsSafe
  <2> SUFFICES ASSUME ActiveInv, mishaps = {}, Quiescent PROVE activeTabId \in pages
    BY DEF ActiveInv, CommandsSafe, ActiveTabLives
  <2> QED BY DEF ActiveInv, Calm, Quiescent
<1> QED BY <1>1, <1>2, InitActiveInv, PTL DEF CommandsSpec
-----------------------------------------------------------------------------
(***************************************************************************)
(* The classifier process: ids come from one counter, so an answer carries *)
(* the id of the scan whose text it judges, however late it is.            *)
(***************************************************************************)
ScanStates == {"new", "pending", "lost", "failed", "answered"}
Lines == inbox \cup outbox

IdsAreOwn ==
  /\ nextId \in Nat \ {0} /\ children \in Nat
  /\ scan \in [Scan -> [at : ScanStates, id : Nat, of : Scan]]
  /\ \A s \in Scan : Pending(s) => scan[s].id > 0 /\ scan[s].id < nextId
  /\ \A m \in Lines : /\ m.id \in Nat /\ m.id < nextId /\ m.text \in Scan
                      /\ \A s \in Scan : Pending(s) /\ scan[s].id = m.id => m.text = s

SidecarInv == SidecarTypeOK /\ VerdictIsOwn /\ IdsAreOwn

(* Nothing was asked yet.                                                   *)
LEMMA InitSidecar == SidecarInit => SidecarInv
BY DEF SidecarInit, SidecarInv, SidecarTypeOK, VerdictIsOwn, IdsAreOwn, Lines, ScanStates, Pending, NoChild

(* A new scan has an id that no line and no other scan has.                 *)
LEMMA AssignsIdKeeps ==
  ASSUME SidecarInv, NEW s \in Scan, NEW c, scan[s].at = "new", AssignsId(s, c), UNCHANGED outbox,
         children' \in Nat
  PROVE  IdsAreOwn' /\ VerdictIsOwn' /\ \A r \in Scan : Pending(r)' => scan'[r].id > 0
<1> DEFINE m0 == [child |-> c, id |-> nextId, text |-> s]
<1>1. /\ scan' = [scan EXCEPT ![s].at = "pending", ![s].id = nextId]
      /\ nextId' = nextId + 1 /\ inbox' = inbox \cup {m0} /\ outbox' = outbox
  BY DEF AssignsId
<1>t. /\ nextId \in Nat \ {0} /\ scan \in [Scan -> [at : ScanStates, id : Nat, of : Scan]]
  BY DEF SidecarInv, IdsAreOwn
<1> USE DEF ScanStates
<1>b. scan' \in [Scan -> [at : ScanStates, id : Nat, of : Scan]]
  BY <1>1, <1>t
<1>a. /\ scan'[s].at = "pending" /\ scan'[s].id = nextId /\ scan'[s].of = scan[s].of
      /\ \A r \in Scan \ {s} : scan'[r] = scan[r]
  BY <1>1, <1>t, <1>b
<1> USE DEF SidecarInv, IdsAreOwn, Lines, Pending
<1>2. /\ nextId' \in Nat \ {0}
      /\ \A r \in Scan : Pending(r)' => scan'[r].id > 0 /\ scan'[r].id < nextId'
  <2>1. ASSUME NEW r \in Scan, Pending(r)' PROVE scan'[r].id > 0 /\ scan'[r].id < nextId'
    <3>1. CASE r = s
      BY <1>1, <1>t, <1>a, <3>1
    <3>2. CASE r # s
      BY <1>1, <1>t, <1>a, <2>1, <3>2
    <3> QED BY <3>1, <3>2
  <2> QED BY <2>1, <1>1, <1>t
<1>3. ASSUME NEW m \in Lines'
      PROVE /\ m.id \in Nat /\ m.id < nextId' /\ m.text \in Scan
            /\ \A r \in Scan : Pending(r)' /\ scan'[r].id = m.id => m.text = r
  <2>1. CASE m \in Lines
    BY <1>1, <2>1
  <2>2. CASE m = m0
    <3>1. m.id = nextId /\ m.text = s
      BY <2>2
    <3>2. ASSUME NEW r \in Scan, Pending(r)', scan'[r].id = nextId PROVE r = s
      BY <1>t, <1>a, <3>2
    <3> QED BY <1>1, <3>1, <3>2
  <2> QED BY <1>1, <1>3, <2>1, <2>2
<1>4. VerdictIsOwn'
  BY <1>a DEF VerdictIsOwn
<1> QED BY <1>1, <1>a, <1>b, <1>2, <1>3, <1>4

(* Scans that stop waiting, and lines that go, change no verdict.           *)
LEMMA FewerWaitKeeps ==
  ASSUME SidecarInv, nextId' = nextId, children' = children, Lines' \subseteq Lines,
         scan' \in [Scan -> [at : ScanStates, id : Nat, of : Scan]],
         \A s \in Scan : scan'[s] = scan[s] \/ scan'[s].at = "failed"
  PROVE  IdsAreOwn' /\ VerdictIsOwn' /\ \A s \in Scan : Pending(s)' => scan'[s].id > 0
<1> USE DEF SidecarInv, IdsAreOwn, Pending
<1>1. \A s \in Scan : Pending(s)' => Pending(s) /\ scan'[s] = scan[s]
  OBVIOUS
<1>2. IdsAreOwn'
  BY <1>1
<1>3. VerdictIsOwn'
  BY DEF VerdictIsOwn
<1> QED BY <1>1, <1>2, <1>3

(* shutdownChild rejects whoever waits.                                     *)
LEMMA ShutdownRejects ==
  ASSUME SidecarInv, ShutdownChild
  PROVE  /\ scan' \in [Scan -> [at : ScanStates, id : Nat, of : Scan]]
         /\ \A s \in Scan : scan'[s] = scan[s] \/ scan'[s].at = "failed"
<1> USE DEF SidecarInv, IdsAreOwn
<1>1. scan' = scan \/ scan' = Rejected
  BY DEF ShutdownChild
<1> QED BY <1>1 DEF Rejected, ScanStates

(* A line that is read settles the scan that has its id, which is the scan  *)
(* whose text it judges.                                                    *)
LEMMA ReadsLineKeeps == ASSUME SidecarInv, ReadsLine PROVE SidecarInv'
<1> USE DEF SidecarInv, IdsAreOwn
<1>1. PICK m \in outbox :
        /\ outbox' = outbox \ {m}
        /\ scan' = scan \/ scan' = Settled(m.id, m.text, m.ok)
  BY DEF ReadsLine
<1>2. UNCHANGED <<nextId, children, current, alive, exits, inbox>>
  BY DEF ReadsLine, child
<1>t. scan \in [Scan -> [at : ScanStates, id : Nat, of : Scan]]
  OBVIOUS
<1>3. m \in Lines
  BY DEF Lines
<1>4. \A s \in Scan : /\ scan'[s] \in [at : ScanStates, id : Nat, of : Scan]
                      /\ \/ scan'[s] = scan[s]
                         \/ /\ Pending(s) /\ m.text = s
                            /\ scan'[s].at \in {"answered", "failed"} /\ scan'[s].of = m.text
  <2>1. ASSUME scan' = Settled(m.id, m.text, m.ok), NEW s \in Scan, Pending(s), scan[s].id = m.id
        PROVE  /\ scan'[s] \in [at : ScanStates, id : Nat, of : Scan] /\ m.text = s
               /\ scan'[s].at \in {"answered", "failed"} /\ scan'[s].of = m.text
    <3> DEFINE was == scan[s]  at == IF m.ok THEN "answered" ELSE "failed"
    <3>1. scan'[s] = [was EXCEPT !.at = at, !.of = m.text]
      BY <2>1 DEF Settled
    <3>2. was \in [at : ScanStates, id : Nat, of : Scan] /\ at \in {"answered", "failed"} /\ m.text = s
      BY <1>t, <1>3, <2>1
    <3> HIDE DEF was, at
    <3>3. scan'[s] = [at |-> at, id |-> was.id, of |-> m.text]
      BY <3>1, <3>2
    <3> QED BY <3>2, <3>3 DEF ScanStates
  <2>2. ASSUME scan' = Settled(m.id, m.text, m.ok), NEW s \in Scan, ~(Pending(s) /\ scan[s].id = m.id)
        PROVE  scan'[s] = scan[s]
    BY <2>2 DEF Settled
  <2> QED BY <1>1, <1>t, <2>1, <2>2
<1>5. scan' \in [Scan -> [at : ScanStates, id : Nat, of : Scan]]
  <2>1. scan' = [s \in Scan |-> scan'[s]]
    BY <1>1, <1>t DEF Settled
  <2> QED BY <2>1, <1>4
<1>6. \A s \in Scan : Pending(s)' => Pending(s) /\ scan'[s] = scan[s]
  BY <1>4 DEF Pending
<1>7. IdsAreOwn'
  BY <1>1, <1>2, <1>5, <1>6 DEF Lines, Pending
<1>8. VerdictIsOwn'
  BY <1>4 DEF VerdictIsOwn
<1>9. SidecarTypeOK'
  BY <1>2, <1>6 DEF SidecarTypeOK
<1> QED BY <1>7, <1>8, <1>9

(* Every step keeps the invariant: no step gives a scan the id of another.  *)
LEMMA SidecarNextKeeps == ASSUME SidecarInv, [SidecarNext]_sidecarVars PROVE SidecarInv'
<1> USE DEF SidecarInv
<1> DEFINE Children == current \in {NoChild} \cup (alive \cup exits) /\ alive \subseteq 1..children
<1>t. /\ Children /\ children \in Nat
      /\ SidecarTypeOK' <=> Children' /\ \A s \in Scan : Pending(s)' => scan'[s].id > 0
  BY DEF SidecarTypeOK, IdsAreOwn
<1>1. ASSUME NEW s \in Scan, ScanWithSidecar(s) PROVE SidecarInv'
  <2>1. CASE /\ scan[s].at = "new" /\ AssignsId(s, current) /\ UNCHANGED <<children, current, alive, exits, outbox>>
    BY <2>1, <1>t, AssignsIdKeeps
  <2>2. CASE /\ scan[s].at = "new" /\ AssignsId(s, children + 1)
             /\ children' = children + 1 /\ current' = children + 1 /\ alive' = alive \cup {children + 1}
             /\ UNCHANGED <<exits, outbox>>
    <3>1. children' \in Nat /\ Children'
      BY <2>2, <1>t
    <3> QED BY <2>2, <3>1, <1>t, AssignsIdKeeps
  <2>3. CASE /\ scan' = [scan EXCEPT ![s].at = "failed"]
             /\ UNCHANGED <<nextId, children, current, alive, exits, inbox, outbox>>
    BY <2>3, <1>t, FewerWaitKeeps DEF IdsAreOwn, ScanStates, Lines
  <2> QED BY <1>1, <2>1, <2>2, <2>3 DEF ScanWithSidecar, child
<1>2. ASSUME NEW s \in Scan, Timeout(s) PROVE SidecarInv'
  <2>1. scan' = [scan EXCEPT ![s].at = "failed"] /\ UNCHANGED <<nextId, children, current, alive, exits, inbox, outbox>>
    BY <1>2 DEF Timeout, child, pipes
  <2> QED BY <2>1, <1>t, FewerWaitKeeps DEF IdsAreOwn, ScanStates, Lines
<1>3. CASE Answers
  <2>1. PICK m \in inbox : \E ok \in BOOLEAN :
          inbox' = inbox \ {m} /\ outbox' = outbox \cup {[id |-> m.id, text |-> m.text, ok |-> ok]}
    BY <1>3 DEF Answers
  <2>2. UNCHANGED <<scan, nextId, children, current, alive, exits>>
    BY <1>3 DEF Answers, child
  <2>3. \A n \in Lines' : \E k \in Lines : n.id = k.id /\ n.text = k.text
    BY <2>1 DEF Lines
  <2>4. IdsAreOwn'
    BY <2>2, <2>3 DEF IdsAreOwn, Pending
  <2> QED BY <2>2, <2>4 DEF SidecarTypeOK, VerdictIsOwn, Pending
<1>4. CASE ChildDies
  <2>1. PICK c \in alive : /\ alive' = alive \ {c} /\ exits' = exits \cup {c}
                           /\ inbox' = {m \in inbox : m.child # c}
    BY <1>4 DEF ChildDies
  <2>2. UNCHANGED <<scan, nextId, children, current, outbox>>
    BY <1>4 DEF ChildDies
  <2> QED BY <2>1, <2>2 DEF IdsAreOwn, Lines, Pending, SidecarTypeOK, VerdictIsOwn
<1>5. CASE ExitEvent
  <2>1. /\ current' = NoChild /\ alive' = alive \ {current}
        /\ ShutdownChild /\ UNCHANGED <<nextId, children, inbox, outbox>>
    BY <1>5 DEF ExitEvent, ShutdownChild, pipes
  <2> QED BY <2>1, <1>t, ShutdownRejects, FewerWaitKeeps DEF Lines
<1>6. CASE ErrorEvent
  <2>1. /\ current' = NoChild /\ alive' = alive \ {current}
        /\ ShutdownChild /\ UNCHANGED <<nextId, children, inbox, outbox>>
    BY <1>6 DEF ErrorEvent, ShutdownChild, pipes
  <2> QED BY <2>1, <1>t, ShutdownRejects, FewerWaitKeeps DEF Lines
<1>7. CASE WindowPasses \/ UNCHANGED sidecarVars
  BY <1>7 DEF WindowPasses, sidecarVars, child, pipes, SidecarTypeOK, VerdictIsOwn, IdsAreOwn, Lines, Pending
<1> QED BY <1>1, <1>2, <1>3, <1>4, <1>5, <1>6, <1>7, ReadsLineKeeps DEF SidecarNext

(* A page is judged by its own scan: whatever children die, are replaced or *)
(* answer late, the verdict a scan gets is the verdict of its text          *)
(* (processBuffer of security-sidecar-client.ts).                           *)
THEOREM ScansSafeHolds == SidecarSpec => []ScansSafe
<1>1. SidecarInv => ScansSafe
  BY DEF SidecarInv, ScansSafe
<1> QED BY <1>1, InitSidecar, SidecarNextKeeps, PTL DEF SidecarSpec
-----------------------------------------------------------------------------
(***************************************************************************)
(* The end of the daemon: the modes change only while it is up, and a      *)
(* promotion makes it headed for good, so that neither timer applies.      *)
(***************************************************************************)

(* A daemon that has just started is up, and nobody handed it off.          *)
LEMMA InitLife == LifeInit => LifeTypeOK
BY DEF LifeInit, LifeTypeOK

(* A shutdown that begins has a cause, and changes no mode.                 *)
LEMMA ShutsDownKeeps ==
  ASSUME LifeTypeOK, NEW why \in {"idle", "parent", "signal", "user"}, ShutsDown(why)
  PROVE  LifeTypeOK' /\ cause' = why
BY DEF ShutsDown, LifeTypeOK, modes

(* Every step keeps the stage, its cause and the modes in agreement.        *)
LEMMA LifeNextKeeps == ASSUME LifeTypeOK, [LifeNext]_lifeVars PROVE LifeTypeOK'
<1>1. CASE Timers \/ Sigterm \/ \E byDisconnect \in BOOLEAN : UserStops(byDisconnect)
  BY <1>1, ShutsDownKeeps DEF Timers, IdleCheckTick, ParentWatchdogTick, Sigterm, UserStops
<1>2. CASE Teardown
  BY <1>2 DEF Teardown, FinalSnapshotDone, SnapshotDeadline, BrowserCloses, CloseDeadline, LifeTypeOK, modes
<1>3. CASE BrowserDisconnects
  BY <1>3 DEF BrowserDisconnects, LifeTypeOK, modes
<1>4. CASE UncaughtException \/ BrowserWedges
  BY <1>4 DEF UncaughtException, BrowserWedges, LifeTypeOK, modes
<1>5. CASE HandoffPromotes \/ TunnelChanges \/ PickerChanges \/ ParentExits \/ IdleChanges
  BY <1>5 DEF HandoffPromotes, TunnelChanges, PickerChanges, ParentExits, IdleChanges, While, LifeTypeOK
<1>6. CASE UNCHANGED lifeVars
  BY <1>6 DEF lifeVars, LifeTypeOK
<1> QED BY <1>1, <1>2, <1>3, <1>4, <1>5, <1>6 DEF LifeNext

(* What ends a daemon that was handed off and has no tunnel is no timer.    *)
LEMMA TimersSpareHandoff ==
  ASSUME LifeTypeOK, LifeNext, stage = "up", stage' # "up", promoted, ~tunnel
  PROVE  cause' \in {"signal", "user", "browser", "exception"}
<1>1. CASE Timers
  BY <1>1 DEF Timers, IdleCheckTick, ParentWatchdogTick, LifeTypeOK
<1>2. CASE Sigterm \/ \E byDisconnect \in BOOLEAN : UserStops(byDisconnect)
  BY <1>2 DEF Sigterm, UserStops, ShutsDown
<1>3. CASE BrowserDisconnects \/ UncaughtException
  BY <1>3 DEF BrowserDisconnects, UncaughtException
<1>4. CASE Teardown \/ BrowserWedges
  BY <1>4 DEF Teardown, FinalSnapshotDone, SnapshotDeadline, BrowserCloses, CloseDeadline, BrowserWedges
<1>5. CASE HandoffPromotes \/ TunnelChanges \/ PickerChanges \/ ParentExits \/ IdleChanges
  BY <1>5 DEF HandoffPromotes, TunnelChanges, PickerChanges, ParentExits, IdleChanges, While
<1> QED BY <1>1, <1>2, <1>3, <1>4, <1>5 DEF LifeNext

(* A browser that was handed to the user is not shut down behind his back   *)
(* by the idle timer or the watchdog of the parent, whose conditions        *)
(* (idleCheckTick, parentWatchdogTick of server.ts) change while the daemon *)
(* runs.                                                                    *)
THEOREM DaemonLivesOnHolds == LifeSpec => DaemonLivesOn
<1>1. LifeTypeOK /\ [LifeNext]_lifeVars =>
        [stage = "up" /\ stage' # "up" /\ promoted /\ ~tunnel =>
           cause' \in {"signal", "user", "browser", "exception"}]_lifeVars
  BY TimersSpareHandoff
<1> QED BY <1>1, InitLife, LifeNextKeeps, PTL DEF LifeSpec, DaemonLivesOn, HandoffIsKept
-----------------------------------------------------------------------------
(***************************************************************************)
(* The terminal agents: the watchdog counts every spawn of the window in   *)
(* respawnHistory, whatever became of the agents.                          *)
(***************************************************************************)
AgentStates == {"none", "starting", "tokened", "bound", "running", "dead"}
AgentRecords == [at : AgentStates, owner : Nat, told : BOOLEAN]

WatchdogInv ==
  /\ AgentTypeOK /\ agent \in [AgentNo -> AgentRecords] /\ daemonRun \in Nat
  /\ respawns \subseteq Nat /\ IsFiniteSet(respawns) /\ lately \subseteq respawns

(* Nothing was spawned yet.                                                 *)
LEMMA InitWatchdog == AgentInit => WatchdogInv
<1> SUFFICES ASSUME AgentInit PROVE WatchdogInv
  OBVIOUS
<1>1. IsFiniteSet(respawns) /\ Cardinality(respawns) = 0
  BY FS_EmptySet DEF AgentInit
<1> QED BY <1>1, GuardFits DEF AgentInit, WatchdogInv, AgentTypeOK, Unspawned, NoAgent, NoOwner, AgentNo, AgentStates, AgentRecords

(* A tick does not make the respawns that count more.                       *)
LEMMA RecentIsFewer ==
  ASSUME NEW ages, IsFiniteSet(ages)
  PROVE  /\ IsFiniteSet(Recent(ages))
         /\ Cardinality(Recent(ages)) <= Cardinality(ages)
<1> DEFINE Kept == {age \in ages : age + 1 <= GuardWindow}
           Next1 == [age \in Kept |-> age + 1]
<1>1. IsFiniteSet(Kept) /\ Cardinality(Kept) <= Cardinality(ages)
  BY FS_Subset
<1>2. Next1 \in Surjection(Kept, Recent(ages))
  BY DEF Surjection, Recent, Aged
<1>3. IsFiniteSet(Recent(ages)) /\ Cardinality(Recent(ages)) <= Cardinality(Kept)
  BY <1>1, <1>2, FS_Surjection
<1>4. Cardinality(Recent(ages)) \in Nat /\ Cardinality(Kept) \in Nat /\ Cardinality(ages) \in Nat
  BY <1>1, <1>3, FS_CardinalityType
<1> QED BY <1>1, <1>3, <1>4

(* What a tick leaves of the spawns it leaves of the respawns.              *)
LEMMA NotedAreRecent ==
  ASSUME WatchdogInv, NEW spawned \in BOOLEAN, Noted(spawned),
         respawns' = Recent(respawns) \/ (respawns' = Recent(respawns) \cup {0}),
         spawned => 0 \in respawns'
  PROVE  lately' \subseteq respawns'
BY GuardFits DEF WatchdogInv, Noted, Recent, Aged

(* The files as AgentTypeOK has them.                                       *)
FilesNameAgents ==
  /\ {record, port, internal} \subseteq AgentNo \cup {NoAgent}
  /\ \A f \in {record, port} : f # NoAgent => ~agent[f].at \in {"none", "starting"}

(* killAgentByRecord only signals: where the agents are stays as it is.     *)
LEMMA ToldChangesNoStage ==
  ASSUME agent \in [AgentNo -> AgentRecords], NEW a
  PROVE  /\ Told(a) \in [AgentNo -> AgentRecords]
         /\ \A b \in AgentNo : Told(a)[b].at = agent[b].at
BY DEF Told, AgentRecords

(* A spawn tells the recorded agent to stop and forgets it.                 *)
LEMMA SpawnsForKeeps ==
  ASSUME WatchdogInv, NEW owner \in Nat, SpawnsFor(owner), UNCHANGED <<port, internal>>
  PROVE  agent' \in [AgentNo -> AgentRecords] /\ FilesNameAgents'
<1> USE DEF WatchdogInv, AgentTypeOK, FilesNameAgents
<1>1. PICK a \in AgentNo : /\ agent[a] = Unspawned /\ record' = NoAgent
                           /\ agent' = [Told(record) EXCEPT ![a] = [at |-> "starting", owner |-> owner, told |-> FALSE]]
  BY DEF SpawnsFor
<1>2. /\ agent' \in [AgentNo -> AgentRecords]
      /\ \A b \in AgentNo \ {a} : agent'[b].at = agent[b].at
  BY <1>1, ToldChangesNoStage DEF AgentRecords, AgentStates
<1>3. port' # NoAgent => port' \in AgentNo /\ port' # a
  BY <1>1 DEF Unspawned
<1> QED BY <1>1, <1>2, <1>3

(* A step that changes neither the respawns nor what is noted.              *)
LEMMA CountsStay ==
  ASSUME WatchdogInv, UNCHANGED <<respawns, lately>>, daemonRun' \in Nat,
         agent' \in [AgentNo -> AgentRecords], FilesNameAgents'
  PROVE  WatchdogInv'
BY DEF WatchdogInv, AgentTypeOK, FilesNameAgents, AgentRecords, AgentStates

(* The tick of the watchdog keeps the count below the limit.                *)
LEMMA WatchdogTicksKeeps == ASSUME WatchdogInv, WatchdogTicks PROVE WatchdogInv'
<1> USE DEF WatchdogInv
<1>a. Recent(respawns) \subseteq Nat
  BY DEF Recent, Aged
<1>1. /\ IsFiniteSet(Recent(respawns))
      /\ Cardinality(Recent(respawns)) <= Cardinality(respawns)
      /\ Cardinality(Recent(respawns)) \in Nat /\ Cardinality(respawns) \in Nat
      /\ Cardinality(respawns) <= RespawnGuard
  BY RecentIsFewer, FS_CardinalityType DEF AgentTypeOK
<1>2. CASE WatchdogRests \/ WatchdogTrips
  <2>1. /\ respawns' = Recent(respawns) /\ Noted(FALSE) /\ UNCHANGED <<agent, record, port, internal, daemonRun>>
    BY <1>2 DEF WatchdogRests, WatchdogTrips, agentFiles, daemonState
  <2>2. lately' \subseteq respawns'
    BY <2>1, NotedAreRecent
  <2> QED BY <2>1, <2>2, <1>a, <1>1, GuardFits DEF AgentTypeOK
<1>3. CASE WatchdogRespawns
  <2>1. /\ respawns' = Recent(respawns) \cup {0} /\ Noted(TRUE) /\ UNCHANGED <<port, internal, daemonRun>>
        /\ SpawnsFor(daemonRun) /\ Cardinality(Recent(respawns)) < RespawnGuard
    BY <1>3 DEF WatchdogRespawns, daemonState
  <2>2. lately' \subseteq respawns'
    BY <2>1, NotedAreRecent
  <2>3. IsFiniteSet(respawns') /\ Cardinality(respawns') <= Cardinality(Recent(respawns)) + 1
    BY <2>1, <1>1, FS_AddElement
  <2>5. Cardinality(respawns') <= RespawnGuard /\ respawns' \subseteq Nat
    BY <2>1, <2>3, <1>a, <1>1, FS_CardinalityType, GuardFits
  <2>4. agent' \in [AgentNo -> AgentRecords] /\ FilesNameAgents'
    BY <2>1, SpawnsForKeeps
  <2> QED BY <2>1, <2>2, <2>3, <2>4, <2>5 DEF AgentTypeOK, FilesNameAgents, AgentRecords, AgentStates
<1> QED BY <1>2, <1>3 DEF WatchdogTicks

(* The boot, the end and the crash of one agent.                            *)
LEMMA AgentStepKeeps ==
  ASSUME WatchdogInv, NEW a \in AgentNo, AgentStep(a) \/ AgentCrashes(a)
  PROVE  WatchdogInv'
<1> USE DEF WatchdogInv, AgentTypeOK, FilesNameAgents
<1>1. UNCHANGED <<respawns, lately>> /\ daemonRun' \in Nat
  BY DEF AgentStep, WritesToken, WritesPort, WritesRecord, BindFails, Advances, StopsWhenTold, DiesBooting,
         OwnerWatchdog, CleansUp, AgentCrashes, daemonState
<1>2. Dead \in AgentRecords /\ Dead.at = "dead"
  BY DEF Dead, Unspawned, AgentRecords, AgentStates, NoOwner
<1>3. ASSUME NEW from \in {"starting", "tokened", "bound"}, NEW to \in {"tokened", "bound", "running"},
             Advances(a, from, to)
      PROVE  /\ agent' \in [AgentNo -> AgentRecords] /\ agent'[a].at = to
             /\ \A b \in AgentNo \ {a} : agent'[b].at = agent[b].at
  <2>1. agent' = [agent EXCEPT ![a] = [@ EXCEPT !.at = to]]
    BY <1>3 DEF Advances
  <2> QED BY <2>1 DEF AgentRecords, AgentStates
<1>4. CASE WritesToken(a)
  <2>1. Advances(a, "starting", "tokened") /\ internal' = a /\ UNCHANGED <<record, port>>
    BY <1>4 DEF WritesToken
  <2> QED BY <2>1, <1>1, <1>3, CountsStay
<1>5. CASE WritesPort(a)
  <2>1. Advances(a, "tokened", "bound") /\ port' = a /\ UNCHANGED <<record, internal>>
    BY <1>5 DEF WritesPort
  <2> QED BY <2>1, <1>1, <1>3, CountsStay
<1>6. CASE WritesRecord(a)
  <2>1. Advances(a, "bound", "running") /\ record' = a /\ UNCHANGED <<port, internal>>
    BY <1>6 DEF WritesRecord
  <2> QED BY <2>1, <1>1, <1>3, CountsStay
<1>7. CASE BindFails(a) \/ DiesBooting(a) \/ AgentCrashes(a)
  <2>1. agent' = [agent EXCEPT ![a] = Dead] /\ UNCHANGED <<record, port, internal>>
    BY <1>7 DEF BindFails, Advances, DiesBooting, AgentCrashes, agentFiles
  <2>2. agent' \in [AgentNo -> AgentRecords] /\ FilesNameAgents'
    BY <2>1, <1>2
  <2> QED BY <2>2, <1>1, CountsStay
<1>8. CASE StopsWhenTold(a) \/ OwnerWatchdog(a)
  <2>1. agent' = [agent EXCEPT ![a] = Dead] /\ record' = NoAgent /\ port' = NoAgent /\ internal' = NoAgent
    BY <1>8 DEF StopsWhenTold, OwnerWatchdog, CleansUp, RemovesFiles
  <2>2. agent' \in [AgentNo -> AgentRecords] /\ FilesNameAgents'
    BY <2>1, <1>2
  <2> QED BY <2>2, <1>1, CountsStay
<1> QED BY <1>4, <1>5, <1>6, <1>7, <1>8 DEF AgentStep

(* A daemon that ends forgets its count.                                    *)
LEMMA DaemonEndsKeeps == ASSUME WatchdogInv, DaemonShutsDown \/ DaemonDies PROVE WatchdogInv'
<1> USE DEF WatchdogInv, AgentTypeOK, FilesNameAgents
<1>1. /\ respawns' = {} /\ lately' = {} /\ UNCHANGED daemonRun
      /\ \/ agent' = Told(record) /\ record' = NoAgent /\ port' = NoAgent /\ internal' = NoAgent
         \/ UNCHANGED <<agent, record, port, internal>>
  BY DEF DaemonShutsDown, DaemonDies, RemovesFiles, agentFiles
<1>2. agent' \in [AgentNo -> AgentRecords] /\ FilesNameAgents'
  BY <1>1, ToldChangesNoStage
<1>3. IsFiniteSet({}) /\ Cardinality({}) = 0
  BY FS_EmptySet
<1> QED BY <1>1, <1>2, <1>3, GuardFits DEF AgentRecords, AgentStates

(* Every step keeps the count, the files and the agents in agreement.       *)
LEMMA AgentNextKeeps == ASSUME WatchdogInv, [AgentNext]_agentVars PROVE WatchdogInv'
<1>1. CASE CliSpawns
  <2>1. SpawnsFor(NoOwner) /\ UNCHANGED <<port, internal, daemonRun, respawns, lately>>
    BY <1>1 DEF CliSpawns
  <2>2. daemonRun' \in Nat /\ NoOwner \in Nat
    BY <2>1 DEF WatchdogInv, NoOwner
  <2> QED BY <2>1, <2>2, SpawnsForKeeps, CountsStay
<1>2. CASE DaemonStarts
  <2>1. UNCHANGED <<agent, record, port, internal, respawns, lately>> /\ daemonRun' = daemonRun + 1
    BY <1>2 DEF DaemonStarts, agentFiles
  <2> QED BY <2>1 DEF WatchdogInv, AgentTypeOK
<1>3. CASE UNCHANGED agentVars
  BY <1>3 DEF agentVars, WatchdogInv, AgentTypeOK
<1> QED BY <1>1, <1>2, <1>3, WatchdogTicksKeeps, DaemonEndsKeeps, AgentStepKeeps DEF AgentNext

(* An agent that dies as soon as it is spawned is given up: there are never *)
(* more respawns than RESPAWN_GUARD_MAX in a window, and the port and the   *)
(* record never name an agent that has not written them (the watchdog of    *)
(* server.ts, main and cleanup of terminal-agent.ts).                       *)
THEOREM WatchdogSafeHolds == AgentSpec => []WatchdogSafe
<1>1. ASSUME WatchdogInv PROVE WatchdogSafe
  <2>1. Cardinality(lately) <= Cardinality(respawns)
    BY <1>1, FS_Subset DEF WatchdogInv
  <2>2. Cardinality(lately) \in Nat /\ Cardinality(respawns) \in Nat
    BY <1>1, FS_Subset, FS_CardinalityType DEF WatchdogInv
  <2> QED BY <1>1, <2>1, <2>2, GuardFits DEF WatchdogInv, WatchdogSafe, AgentTypeOK, CrashLoopIsGuarded
<1> QED BY <1>1, InitWatchdog, AgentNextKeeps, PTL DEF AgentSpec
-----------------------------------------------------------------------------
(***************************************************************************)
(* The activity feed: each event is queued once for every subscriber, and  *)
(* what is queued for a stream follows what was sent to it.                *)
(***************************************************************************)
Streams == [open : BOOLEAN, reader : BOOLEAN, after : Nat, gap : BOOLEAN, sent : Seq(Nat)]
Notices == [to : Stream, id : Nat]

FeedShape ==
  /\ nextEvent \in Nat \ {0} /\ IsFiniteSet(subscribers)
  /\ stream \in [Stream -> Streams] /\ microtasks \in Seq(Notices)

FeedInv == FeedShape /\ FeedTypeOK /\ StreamIsExact

Follows(s) == stream[s].open /\ stream[s].reader

ExactFrom(s, first) ==
  /\ InOrder(s)
  /\ SentTo(s) \cup QueuedTo(s) = first..(nextEvent - 1)
  /\ stream[s].gap \/ stream[s].after = 0 \/ first = stream[s].after + 1

(* What the shape says of each element.                                     *)
LEMMA FeedFacts ==
  ASSUME FeedInv
  PROVE  LET n == Len(microtasks)  c == Cardinality(subscribers) IN
         /\ n \in Nat /\ c \in Nat /\ DOMAIN microtasks = 1..n /\ subscribers \subseteq Stream
         /\ nextEvent \in Nat /\ nextEvent >= 1
         /\ \A i \in 1..n : /\ microtasks[i] \in Notices /\ microtasks[i].to \in Stream
                           /\ microtasks[i].id \in Nat /\ microtasks[i].id < nextEvent
         /\ \A s \in Stream : /\ stream[s] \in Streams /\ stream[s].sent \in Seq(Nat)
                              /\ stream[s].open <=> s \in subscribers
<1>1. Len(microtasks) \in Nat /\ DOMAIN microtasks = 1..Len(microtasks) /\ microtasks \in Seq(Notices)
  BY DEF FeedInv, FeedShape
<1>2. Cardinality(subscribers) \in Nat
  BY FS_CardinalityType DEF FeedInv, FeedShape
<1>3. \A i \in 1..Len(microtasks) : microtasks[i] \in Notices
  BY <1>1
<1>4. \A i \in 1..Len(microtasks) : microtasks[i].to \in Stream /\ microtasks[i].id \in Nat
  BY <1>3 DEF Notices
<1>5. \A i \in 1..Len(microtasks) : microtasks[i].id < nextEvent
  BY <1>1 DEF FeedInv, FeedTypeOK
<1>6. \A s \in Stream : stream[s] \in Streams
  BY DEF FeedInv, FeedShape
<1>7. \A s \in Stream : stream[s].sent \in Seq(Nat)
  BY <1>6 DEF Streams
<1>8. subscribers \subseteq Stream /\ (\A s \in Stream : stream[s].open <=> s \in subscribers)
  BY DEF FeedInv, FeedTypeOK
<1>9. nextEvent \in Nat /\ nextEvent >= 1
  BY DEF FeedInv, FeedShape
<1> QED BY <1>1, <1>2, <1>3, <1>4, <1>5, <1>6, <1>7, <1>8, <1>9

(* No stream is open at first.                                              *)
LEMMA InitFeed == FeedInit => FeedInv
<1> SUFFICES ASSUME FeedInit PROVE FeedInv
  OBVIOUS
<1>1. IsFiniteSet(subscribers)
  BY FS_EmptySet DEF FeedInit
<1>2. Closed \in Streams /\ ~Closed.open
  BY DEF Closed, Streams
<1> QED BY <1>1, <1>2 DEF FeedInit, FeedInv, FeedShape, FeedTypeOK, StreamIsExact

(* emitActivity appends one notification for each subscriber.               *)
LEMMA EmitQueuesOnce ==
  ASSUME FeedInv, EmitActivity
  PROVE  LET n == Len(microtasks)  c == Cardinality(subscribers)  t == microtasks' IN
         /\ t \in Seq(Notices) /\ DOMAIN t = 1..(n + c)
         /\ \A i \in 1..n : t[i] = microtasks[i]
         /\ \A i \in (n + 1)..(n + c) : t[i].id = nextEvent
         /\ \A s \in subscribers : \E k \in (n + 1)..(n + c) :
              \A i \in (n + 1)..(n + c) : t[i].to = s <=> i = k
<1> DEFINE n == Len(microtasks)  c == Cardinality(subscribers)
<1>1. PICK order \in SetToSeqs(subscribers) :
        microtasks' = microtasks \o [i \in DOMAIN order |-> [to |-> order[i], id |-> nextEvent]]
  BY DEF EmitActivity
<1>2. n \in Nat /\ c \in Nat /\ subscribers \subseteq Stream /\ nextEvent \in Nat
  BY FeedFacts
<1>3. order \in [1..c -> subscribers] /\ \A i, j \in 1..c : i # j => order[i] # order[j]
  BY DEF SetToSeqs
<1>4. /\ \A i \in 1..c : order[i] \in subscribers
      /\ \A s \in subscribers : \E j \in 1..c : order[j] = s
  <2>1. order \in Injection(1..c, subscribers)
    BY <1>3, <1>2 DEF Injection, IsInjective
  <2>2. Cardinality(1..c) = c /\ IsFiniteSet(1..c)
    BY <1>2, FS_Interval
  <2>3. IsFiniteSet(subscribers)
    BY DEF FeedInv, FeedShape
  <2>4. order \in Surjection(1..c, subscribers)
    BY <2>1, <2>2, <2>3, FS_Injection
  <2> QED BY <2>4, <1>3 DEF Surjection
<1> DEFINE new == [i \in 1..c |-> [to |-> order[i], id |-> nextEvent]]
<1>5. ASSUME NEW i \in 1..c PROVE [to |-> order[i], id |-> nextEvent] \in Notices
  BY <1>2, <1>4 DEF Notices
<1>6. new \in Seq(Notices) /\ Len(new) = c
  BY <1>2, <1>5
<1>7. \A i \in 1..c : new[i].to = order[i] /\ new[i].id = nextEvent
  OBVIOUS
<1>8. microtasks' = microtasks \o new
  BY <1>1, <1>3
<1>9. microtasks \in Seq(Notices)
  BY DEF FeedInv, FeedShape
<1> HIDE DEF new
<1>10. /\ microtasks' \in Seq(Notices) /\ Len(microtasks') = n + c
       /\ \A i \in 1..n : microtasks'[i] = microtasks[i]
       /\ \A i \in (n + 1)..(n + c) : microtasks'[i] = new[i - n]
  <2>1. microtasks' \in Seq(Notices) /\ Len(microtasks') = n + c
    <3>1. microtasks \o new \in Seq(Notices)
      BY <1>6, <1>9
    <3>2. Len(microtasks \o new) = Len(microtasks) + Len(new)
      BY <1>6, <1>9
    <3> QED BY <3>1, <3>2, <1>6, <1>8
  <2>2. \A i \in 1..(n + c) : microtasks'[i] = IF i <= n THEN microtasks[i] ELSE new[i - n]
    BY <1>6, <1>8, <1>9
  <2> HIDE DEF n, c
  <2>3. /\ \A i \in 1..n : i \in 1..(n + c) /\ i <= n
        /\ \A i \in (n + 1)..(n + c) : i \in 1..(n + c) /\ ~(i <= n)
    BY <1>2
  <2> QED BY <2>1, <2>2, <2>3
<1> HIDE DEF n, c
<1>11. \A i \in (n + 1)..(n + c) : i - n \in 1..c
  BY <1>2
<1>12. \A i \in (n + 1)..(n + c) : microtasks'[i].to = order[i - n] /\ microtasks'[i].id = nextEvent
  BY <1>7, <1>10, <1>11
<1>13. ASSUME NEW s \in subscribers
       PROVE  \E k \in (n + 1)..(n + c) : \A i \in (n + 1)..(n + c) : microtasks'[i].to = s <=> i = k
  <2>1. PICK j \in 1..c : order[j] = s
    BY <1>4
  <2>2. n + j \in (n + 1)..(n + c)
    BY <1>2
  <2>3. \A i \in (n + 1)..(n + c) : order[i - n] = s <=> i - n = j
    BY <1>3, <1>11, <2>1
  <2>4. \A i \in (n + 1)..(n + c) : i - n = j <=> i = n + j
    BY <1>2
  <2>5. \A i \in (n + 1)..(n + c) : microtasks'[i].to = s <=> i = n + j
    BY <1>12, <2>3, <2>4
  <2> QED BY <2>2, <2>5
<1>14. DOMAIN microtasks' = 1..(n + c)
  BY <1>10
<1> QED BY <1>10, <1>12, <1>13, <1>14 DEF n, c

(* So a follower gets the event after all it was sent and has waiting.      *)
LEMMA EmitKeeps == ASSUME FeedInv, EmitActivity PROVE FeedInv'
<1> DEFINE n == Len(microtasks)  c == Cardinality(subscribers)
<1>1. /\ microtasks' \in Seq(Notices) /\ DOMAIN microtasks' = 1..(n + c)
      /\ \A i \in 1..n : microtasks'[i] = microtasks[i]
      /\ \A i \in (n + 1)..(n + c) : microtasks'[i].id = nextEvent
      /\ \A s \in subscribers : \E k \in (n + 1)..(n + c) :
           \A i \in (n + 1)..(n + c) : microtasks'[i].to = s <=> i = k
  BY EmitQueuesOnce
<1>2. nextEvent' = nextEvent + 1 /\ UNCHANGED <<stream, subscribers>>
  BY DEF EmitActivity
<1>3. /\ n \in Nat /\ c \in Nat /\ DOMAIN microtasks = 1..n
      /\ nextEvent \in Nat /\ nextEvent >= 1
      /\ \A i \in 1..n : microtasks[i].id \in Nat /\ microtasks[i].id < nextEvent
      /\ \A s \in Stream : stream[s].open <=> s \in subscribers
  BY FeedFacts
<1> HIDE DEF n, c
<1>4. \A i \in 1..(n + c) : i \in 1..n \/ i \in (n + 1)..(n + c)
  BY <1>3
<1>5. FeedTypeOK'
  <2>1. ASSUME NEW i \in DOMAIN microtasks' PROVE microtasks'[i].id < nextEvent'
    BY <1>1, <1>2, <1>3, <1>4
  <2> QED BY <2>1, <1>2 DEF FeedTypeOK, FeedInv
<1>6. FeedShape'
  BY <1>1, <1>2, <1>3 DEF FeedShape, FeedInv
<1>7. ASSUME NEW s \in Stream, Follows(s), NEW first \in 1..nextEvent, ExactFrom(s, first)
      PROVE  ExactFrom(s, first)'
  <2>1. PICK k \in (n + 1)..(n + c) : \A i \in (n + 1)..(n + c) : microtasks'[i].to = s <=> i = k
    BY <1>1, <1>3, <1>7 DEF Follows
  <2>2. k \in 1..(n + c) /\ microtasks'[k].id = nextEvent /\ microtasks'[k].to = s
    BY <1>1, <1>3, <2>1
  <2>3. \A i \in Queued(s) : /\ i \in 1..n /\ microtasks'[i] = microtasks[i] /\ i < k
                            /\ microtasks[i].id < nextEvent /\ microtasks[i].id \in Nat
    BY <1>1, <1>3, <2>1 DEF Queued
  <2>4. Queued(s)' = Queued(s) \cup {k}
    <3>1. \A i : i \in Queued(s)' <=> i \in 1..(n + c) /\ microtasks'[i].to = s
      BY <1>1 DEF Queued
    <3>2. \A i : i \in Queued(s) <=> i \in 1..n /\ microtasks[i].to = s
      BY <1>3 DEF Queued
    <3>3. \A i \in 1..n : i \in 1..(n + c) /\ microtasks'[i] = microtasks[i]
      BY <1>1, <1>3
    <3> QED BY <3>1, <3>2, <3>3, <2>1, <2>2, <1>4
  <2>5. SentTo(s)' = SentTo(s) /\ stream'[s] = stream[s]
    BY <1>2 DEF SentTo
  <2>6. QueuedTo(s)' = QueuedTo(s) \cup {nextEvent}
    BY <2>2, <2>3, <2>4 DEF QueuedTo
  <2>7. SentTo(s) \subseteq first..(nextEvent - 1)
    BY <1>7 DEF ExactFrom
  <2>8. InOrder(s)'
    <3>1. ASSUME NEW i \in Queued(s)', NEW j \in Queued(s)', i < j
          PROVE  microtasks'[i].id < microtasks'[j].id
      <4>1. i \in Nat /\ j \in Nat /\ k \in Nat
        BY <2>3, <2>4, <2>2, <1>3
      <4>2. i # k
        BY <3>1, <4>1, <2>3, <2>4
      <4>3. CASE j = k
        BY <4>2, <4>3, <2>2, <2>3, <2>4
      <4>4. CASE j # k
        BY <4>2, <4>4, <3>1, <2>3, <2>4, <1>7 DEF ExactFrom, InOrder
      <4> QED BY <4>3, <4>4
    <3>2. \A e \in SentTo(s)', f \in QueuedTo(s)' : e < f
      <4>1. \A e \in SentTo(s), f \in QueuedTo(s) : e < f
        BY <1>7 DEF ExactFrom, InOrder
      <4>2. \A e \in SentTo(s) : e < nextEvent
        BY <2>7, <1>3
      <4> QED BY <4>1, <4>2, <2>5, <2>6
    <3>3. \A i, j \in DOMAIN stream'[s].sent : i < j => stream'[s].sent[i] < stream'[s].sent[j]
      BY <2>5, <1>7 DEF ExactFrom, InOrder
    <3> QED BY <3>1, <3>2, <3>3 DEF InOrder
  <2>9. SentTo(s)' \cup QueuedTo(s)' = first..(nextEvent' - 1)
    <3>1. first..(nextEvent' - 1) = first..(nextEvent - 1) \cup {nextEvent}
      BY <1>2, <1>3
    <3> QED BY <3>1, <2>5, <2>6, <1>7 DEF ExactFrom
  <2> QED BY <2>8, <2>9, <2>5, <1>7 DEF ExactFrom
<1>8. ASSUME NEW s \in Stream, Follows(s)' PROVE \E first \in (1..nextEvent)' : ExactFrom(s, first)'
  <2>1. Follows(s)
    BY <1>8, <1>2 DEF Follows
  <2>2. PICK first \in 1..nextEvent : ExactFrom(s, first)
    BY <2>1 DEF FeedInv, StreamIsExact, ExactFrom, Follows
  <2>3. first \in (1..nextEvent)'
    BY <1>2, <1>3
  <2> QED BY <2>1, <2>2, <2>3, <1>7
<1>9. StreamIsExact'
  BY <1>8 DEF StreamIsExact, ExactFrom, Follows
<1> QED BY <1>5, <1>6, <1>9 DEF FeedInv

(* A microtask runs: the queue moves up, and its first notification is sent *)
(* if the stream is open and its reader is there.                           *)
LEMMA QueueMovesUp ==
  ASSUME FeedInv, Notify
  PROVE  LET n == Len(microtasks)  t == microtasks' IN
         /\ n >= 1 /\ t \in Seq(Notices) /\ DOMAIN t = 1..(n - 1)
         /\ \A i \in 1..(n - 1) : t[i] = microtasks[i + 1]
<1> DEFINE n == Len(microtasks)
<1>1. microtasks # <<>> /\ microtasks' = Tail(microtasks) /\ microtasks \in Seq(Notices)
  BY DEF Notify, FeedInv, FeedShape
<1>2. /\ n >= 1 /\ microtasks' \in Seq(Notices) /\ Len(microtasks') = n - 1
      /\ \A i \in 1..(n - 1) : microtasks'[i] = microtasks[i + 1]
  BY <1>1
<1>3. DOMAIN microtasks' = 1..(n - 1)
  BY <1>2
<1> QED BY <1>2, <1>3

(* A microtask delivers the oldest notice of the queue to its stream.       *)
LEMMA NotifyKeeps == ASSUME FeedInv, Notify PROVE FeedInv'
<1> DEFINE n == Len(microtasks)  m == microtasks[1]  was == stream[m.to]
<1>1. /\ n \in Nat /\ DOMAIN microtasks = 1..n /\ subscribers \subseteq Stream
      /\ nextEvent \in Nat /\ nextEvent >= 1
      /\ \A i \in 1..n : /\ microtasks[i] \in Notices /\ microtasks[i].to \in Stream
                        /\ microtasks[i].id \in Nat /\ microtasks[i].id < nextEvent
      /\ \A s \in Stream : /\ stream[s] \in Streams /\ stream[s].sent \in Seq(Nat)
                           /\ stream[s].open <=> s \in subscribers
  BY FeedFacts
<1>2. /\ n >= 1 /\ microtasks' \in Seq(Notices) /\ DOMAIN microtasks' = 1..(n - 1)
      /\ \A i \in 1..(n - 1) : microtasks'[i] = microtasks[i + 1]
  BY QueueMovesUp
<1>3. m = Head(microtasks) /\ nextEvent' = nextEvent
  BY DEF Notify
<1>4. /\ stream \in [Stream -> Streams] /\ IsFiniteSet(subscribers) /\ StreamIsExact
  BY DEF FeedInv, FeedShape
<1> HIDE DEF n, m
<1>5. \/ ~was.open /\ stream' = stream /\ subscribers' = subscribers
      \/ /\ was.open /\ was.reader /\ subscribers' = subscribers
         /\ stream' = [stream EXCEPT ![m.to].sent = Append(@, m.id)]
      \/ was.open /\ ~was.reader /\ Cleanup(m.to)
  BY <1>3 DEF Notify
<1>6. 1 \in 1..n /\ m.to \in Stream /\ m.id \in Nat /\ m.id < nextEvent
  BY <1>1, <1>2 DEF m
<1>7. \A i \in 1..(n - 1) : i + 1 \in 1..n
  BY <1>1
<1>8. \A s \in Stream : \A i : i \in Queued(s)' <=> i \in 1..(n - 1) /\ i + 1 \in Queued(s)
  <2>1. \A s \in Stream : \A i : i \in Queued(s)' <=> i \in 1..(n - 1) /\ microtasks'[i].to = s
    BY <1>2 DEF Queued
  <2>2. \A s \in Stream : \A i : i \in Queued(s) <=> i \in 1..n /\ microtasks[i].to = s
    BY <1>1 DEF Queued
  <2> QED BY <2>1, <2>2, <1>2, <1>7
<1>9. \A s \in Stream : /\ Queued(s) \subseteq 1..n
                        /\ 1 \in Queued(s) <=> s = m.to
                        /\ \A j \in Queued(s) : j # 1 => j - 1 \in Queued(s)' /\ (j - 1) + 1 = j
  <2>1. \A s \in Stream : Queued(s) \subseteq 1..n /\ (1 \in Queued(s) <=> s = m.to)
    BY <1>1, <1>6 DEF Queued, m
  <2>2. \A j \in 1..n : j # 1 => j - 1 \in 1..(n - 1) /\ (j - 1) + 1 = j
    BY <1>1
  <2> QED BY <2>1, <2>2, <1>8
<1>10. \A s \in Stream : Queued(s)' \subseteq 1..(n - 1)
  BY <1>8
<1>11. /\ \A i \in 1..(n - 1) : i + 1 \in 1..n /\ microtasks'[i].id = microtasks[i + 1].id
  BY <1>2, <1>7
<1>12. ASSUME NEW s \in Stream, InOrder(s)
       PROVE  /\ \A i, j \in Queued(s)' : i < j => microtasks'[i].id < microtasks'[j].id
              /\ QueuedTo(s)' = IF s = m.to THEN QueuedTo(s) \ {m.id} ELSE QueuedTo(s)
              /\ s = m.to => m.id \in QueuedTo(s) /\ \A f \in QueuedTo(s)' : m.id < f
  <2>1. \A i, j \in Queued(s) : i < j => microtasks[i].id < microtasks[j].id
    BY <1>12 DEF InOrder
  <2>2. ASSUME NEW i \in Queued(s)', NEW j \in Queued(s)', i < j
        PROVE  microtasks'[i].id < microtasks'[j].id
    <3>1. i \in 1..(n - 1) /\ j \in 1..(n - 1) /\ i + 1 \in Queued(s) /\ j + 1 \in Queued(s)
      BY <2>2, <1>8
    <3>2. i + 1 < j + 1
      BY <3>1, <2>2
    <3> QED BY <3>1, <3>2, <2>1, <1>11
  <2>3. \A f : f \in QueuedTo(s)' <=> \E j \in Queued(s) : j # 1 /\ f = microtasks[j].id
    <3>1. ASSUME NEW f, f \in QueuedTo(s)' PROVE \E j \in Queued(s) : j # 1 /\ f = microtasks[j].id
      <4>1. PICK i \in Queued(s)' : f = microtasks'[i].id
        BY <3>1 DEF QueuedTo
      <4>2. i \in 1..(n - 1) /\ i + 1 \in Queued(s)
        BY <4>1, <1>8
      <4>3. i + 1 # 1
        BY <4>2
      <4> QED BY <4>1, <4>2, <4>3, <1>11
    <3>2. ASSUME NEW j \in Queued(s), j # 1 PROVE microtasks[j].id \in QueuedTo(s)'
      <4>1. j - 1 \in Queued(s)' /\ (j - 1) + 1 = j
        BY <3>2, <1>9
      <4>2. microtasks'[j - 1].id = microtasks[j].id
        BY <4>1, <1>10, <1>11
      <4> QED BY <4>1, <4>2 DEF QueuedTo
    <3> QED BY <3>1, <3>2
  <2>4. CASE s = m.to
    <3>1. 1 \in Queued(s) /\ microtasks[1].id = m.id
      BY <2>4, <1>9 DEF m
    <3>2. \A j \in Queued(s) : j # 1 => 1 < j
      BY <1>9, <1>1
    <3>3. \A j \in Queued(s) : j # 1 => m.id < microtasks[j].id /\ microtasks[j].id # m.id
      <4>1. \A j \in Queued(s) : j # 1 => m.id < microtasks[j].id
        BY <3>1, <3>2, <2>1
      <4>2. \A j \in Queued(s) : microtasks[j].id \in Nat
        BY <1>1, <1>9
      <4> QED BY <4>1, <4>2, <1>6
    <3>4. m.id \in QueuedTo(s)
      BY <3>1 DEF QueuedTo
    <3>5. QueuedTo(s)' = QueuedTo(s) \ {m.id}
      BY <2>3, <3>1, <3>3 DEF QueuedTo
    <3> QED BY <2>2, <2>3, <2>4, <3>3, <3>4, <3>5
  <2>5. CASE s # m.to
    <3>1. 1 \notin Queued(s)
      BY <2>5, <1>9
    <3>2. \A f : f \in QueuedTo(s)' <=> f \in QueuedTo(s)
      BY <2>3, <3>1 DEF QueuedTo
    <3>3. QueuedTo(s)' = QueuedTo(s)
      BY <3>2
    <3> QED BY <2>2, <2>5, <3>3
  <2> QED BY <2>4, <2>5
<1>13. FeedTypeOK' /\ FeedShape' /\ StreamIsExact'
  <2>1. \A i \in DOMAIN microtasks' : microtasks'[i].id < nextEvent'
    BY <1>1, <1>2, <1>3, <1>11
  <2>2. CASE ~was.open /\ stream' = stream /\ subscribers' = subscribers
    <3>1. FeedTypeOK' /\ FeedShape'
      BY <2>1, <2>2, <1>1, <1>2, <1>3, <1>4 DEF FeedTypeOK, FeedShape
    <3>2. ASSUME NEW s \in Stream, Follows(s)', NEW first \in 1..nextEvent, ExactFrom(s, first)
          PROVE  ExactFrom(s, first)'
      <4>1. s # m.to /\ InOrder(s) /\ stream'[s] = stream[s]
        BY <3>2, <2>2 DEF Follows, ExactFrom
      <4>2. QueuedTo(s)' = QueuedTo(s) /\ SentTo(s)' = SentTo(s)
        BY <4>1, <1>12 DEF SentTo
      <4>3. InOrder(s)'
        BY <4>1, <4>2, <1>12 DEF InOrder
      <4> QED BY <4>1, <4>2, <4>3, <1>3, <3>2 DEF ExactFrom
    <3>3. StreamIsExact'
      BY <3>2, <2>2, <1>3, <1>4 DEF StreamIsExact, Follows, ExactFrom
    <3> QED BY <3>1, <3>3
  <2>3. CASE /\ was.open /\ was.reader /\ subscribers' = subscribers
             /\ stream' = [stream EXCEPT ![m.to].sent = Append(@, m.id)]
    <3>1. stream' \in [Stream -> Streams]
      <4>1. Append(stream[m.to].sent, m.id) \in Seq(Nat)
        BY <1>1, <1>6
      <4> DEFINE longer == Append(stream[m.to].sent, m.id)
      <4>2. stream' = [stream EXCEPT ![m.to].sent = longer]
        BY <2>3
      <4> HIDE DEF longer
      <4> QED BY <4>1, <4>2, <1>4, <1>6 DEF Streams, longer
    <3>2. /\ \A s \in Stream : s # m.to => stream'[s] = stream[s]
          /\ stream'[m.to].sent = Append(was.sent, m.id)
          /\ \A s \in Stream : /\ stream'[s].open = stream[s].open /\ stream'[s].reader = stream[s].reader
                               /\ stream'[s].after = stream[s].after /\ stream'[s].gap = stream[s].gap
      BY <2>3, <1>4, <1>6, <3>1 DEF Streams
    <3>3. FeedTypeOK' /\ FeedShape'
      BY <2>1, <2>3, <3>1, <3>2, <1>1, <1>2, <1>3, <1>4 DEF FeedTypeOK, FeedShape
    <3>4. ASSUME NEW s \in Stream, Follows(s)', NEW first \in 1..nextEvent, ExactFrom(s, first)
          PROVE  ExactFrom(s, first)'
      <4>1. InOrder(s)
        BY <3>4 DEF ExactFrom
      <4>2. CASE s # m.to
        <5>1. QueuedTo(s)' = QueuedTo(s) /\ SentTo(s)' = SentTo(s) /\ stream'[s] = stream[s]
          BY <4>1, <4>2, <3>2, <1>12 DEF SentTo
        <5>2. InOrder(s)'
          BY <5>1, <4>1, <1>12 DEF InOrder
        <5> QED BY <5>1, <5>2, <3>2, <1>3, <3>4 DEF ExactFrom
      <4>3. CASE s = m.to
        <5> DEFINE old == stream[s].sent  k == Len(old)
        <5>1. old \in Seq(Nat) /\ k \in Nat /\ stream'[s].sent = Append(old, m.id)
          BY <4>3, <3>2, <1>1
        <5>2. DOMAIN old = 1..k /\ DOMAIN Append(old, m.id) = 1..(k + 1)
          BY <5>1
        <5>3. (\A i \in 1..k : Append(old, m.id)[i] = old[i]) /\ Append(old, m.id)[k + 1] = m.id
          BY <5>1
        <5> HIDE DEF k
        <5>4. SentTo(s)' = SentTo(s) \cup {m.id}
          <6>1. 1..(k + 1) = 1..k \cup {k + 1}
            BY <5>1
          <6>2. \A i \in 1..k : i \in 1..(k + 1)
            BY <5>1
          <6> QED BY <5>1, <5>2, <5>3, <6>1, <6>2 DEF SentTo
        <5>5. \A i \in 1..k : old[i] < m.id
          <6>1. \A i \in 1..k : old[i] \in SentTo(s)
            BY <5>2 DEF SentTo
          <6> QED BY <6>1, <4>1, <4>3, <1>12 DEF InOrder
        <5>6. \A i, j \in 1..(k + 1) : i < j => Append(old, m.id)[i] < Append(old, m.id)[j]
          <6>1. \A i, j \in 1..k : i < j => old[i] < old[j]
            BY <4>1, <5>2 DEF InOrder
          <6>2. \A i, j \in 1..(k + 1) : i < j => i \in 1..k /\ (j \in 1..k \/ j = k + 1)
            BY <5>1
          <6> QED BY <6>1, <6>2, <5>3, <5>5
        <5>7. \A e \in SentTo(s)', f \in QueuedTo(s)' : e < f
          BY <5>4, <4>1, <4>3, <1>12 DEF InOrder
        <5>8. InOrder(s)'
          BY <5>1, <5>2, <5>6, <5>7, <4>1, <1>12 DEF InOrder
        <5>9. SentTo(s)' \cup QueuedTo(s)' = SentTo(s) \cup QueuedTo(s)
          BY <5>4, <4>1, <4>3, <1>12
        <5> QED BY <5>8, <5>9, <3>2, <1>3, <3>4 DEF ExactFrom
      <4> QED BY <4>2, <4>3
    <3>5. StreamIsExact'
      BY <3>2, <3>4, <1>3, <1>4 DEF StreamIsExact, Follows, ExactFrom
    <3> QED BY <3>3, <3>5
  <2>4. CASE was.open /\ ~was.reader /\ Cleanup(m.to)
    <3>1. stream' \in [Stream -> Streams]
      BY <2>4, <1>4, <1>6 DEF Cleanup, Streams
    <3>2. /\ \A s \in Stream : s # m.to => stream'[s] = stream[s]
          /\ ~stream'[m.to].open /\ subscribers' = subscribers \ {m.to}
      BY <2>4, <1>4, <1>6, <3>1 DEF Cleanup, Streams
    <3>3. IsFiniteSet(subscribers')
      BY <3>2, <1>4, FS_RemoveElement
    <3>4. FeedTypeOK' /\ FeedShape'
      BY <2>1, <3>1, <3>2, <3>3, <1>1, <1>2, <1>3, <1>6 DEF FeedTypeOK, FeedShape, FeedInv
    <3>5. ASSUME NEW s \in Stream, Follows(s)', NEW first \in 1..nextEvent, ExactFrom(s, first)
          PROVE  ExactFrom(s, first)'
      <4>1. s # m.to /\ InOrder(s) /\ stream'[s] = stream[s]
        BY <3>5, <3>2 DEF Follows, ExactFrom
      <4>2. QueuedTo(s)' = QueuedTo(s) /\ SentTo(s)' = SentTo(s)
        BY <4>1, <1>12 DEF SentTo
      <4>3. InOrder(s)'
        BY <4>1, <4>2, <1>12 DEF InOrder
      <4> QED BY <4>1, <4>2, <4>3, <1>3, <3>5 DEF ExactFrom
    <3>6. \A s \in Stream : Follows(s)' => Follows(s)
      BY <3>2 DEF Follows
    <3>7. StreamIsExact'
      BY <3>5, <3>6, <1>3, <1>4 DEF StreamIsExact, Follows, ExactFrom
    <3> QED BY <3>4, <3>7
  <2> QED BY <1>5, <2>2, <2>3, <2>4
<1> QED BY <1>13 DEF FeedInv

(* The replay: all the buffered events after the cursor, in order, and a    *)
(* gap is told when the one after the cursor has left the buffer.           *)
LEMMA ReplayIsTheBuffer ==
  ASSUME nextEvent \in Nat, nextEvent >= 1, NEW after \in 0..(nextEvent - 1)
  PROVE  LET first == LaterOf(after + 1, Oldest)  r == Replay(after) IN
         /\ first \in 1..nextEvent /\ r \in Seq(Nat) /\ DOMAIN r = 1..(nextEvent - first)
         /\ \A i \in 1..(nextEvent - first) : r[i] = first + i - 1
         /\ ~Gap(after) /\ after # 0 => first = after + 1
<1> DEFINE first == LaterOf(after + 1, Oldest)
<1>1. Oldest \in 1..nextEvent
  BY FeedAssumption DEF Oldest
<1>2. first \in 1..nextEvent /\ (~Gap(after) /\ after # 0 => first = after + 1)
  BY <1>1 DEF LaterOf, Gap
<1> HIDE DEF first
<1>3. nextEvent - first \in Nat /\ (IF first < nextEvent THEN nextEvent - first ELSE 0) = nextEvent - first
  BY <1>2
<1>4. Replay(after) = [i \in 1..(nextEvent - first) |-> first + i - 1]
  BY <1>3 DEF Replay, Buffered, first
<1>5. \A i \in 1..(nextEvent - first) : first + i - 1 \in Nat
  BY <1>2
<1>6. Replay(after) \in Seq(Nat)
  BY <1>3, <1>4, <1>5
<1> QED BY <1>2, <1>4, <1>6 DEF first

(* A stream that opens is sent the replay and joins the subscribers.        *)
LEMMA OpensKeeps == ASSUME FeedInv, NEW s \in Stream, Opens(s) PROVE FeedInv'
<1>1. PICK after \in 0..(nextEvent - 1) :
        stream' = [stream EXCEPT ![s] = [open |-> TRUE, reader |-> TRUE, after |-> after,
                                         gap |-> Gap(after), sent |-> Replay(after)]]
  BY DEF Opens
<1>2. /\ Queued(s) = {} /\ subscribers' = subscribers \cup {s}
      /\ UNCHANGED <<nextEvent, microtasks>>
  BY DEF Opens
<1>3. /\ nextEvent \in Nat /\ nextEvent >= 1 /\ subscribers \subseteq Stream
      /\ \A x \in Stream : stream[x].open <=> x \in subscribers
  BY FeedFacts
<1>4. stream \in [Stream -> Streams] /\ IsFiniteSet(subscribers) /\ FeedTypeOK /\ StreamIsExact /\ FeedShape
  BY DEF FeedInv, FeedShape
<1> DEFINE r == Replay(after)
<1>5. PICK first \in 1..nextEvent :
        /\ r \in Seq(Nat) /\ DOMAIN r = 1..(nextEvent - first)
        /\ \A i \in 1..(nextEvent - first) : r[i] = first + i - 1
        /\ ~Gap(after) /\ after # 0 => first = after + 1
  BY <1>3, ReplayIsTheBuffer
<1>6. stream' \in [Stream -> Streams]
  <2>1. [open |-> TRUE, reader |-> TRUE, after |-> after, gap |-> Gap(after), sent |-> Replay(after)] \in Streams
    BY <1>3, <1>5 DEF Streams, Gap
  <2> QED BY <2>1, <1>1, <1>4
<1> HIDE DEF r
<1>7. /\ \A x \in Stream : x # s => stream'[x] = stream[x]
      /\ stream'[s].open /\ stream'[s].after = after /\ stream'[s].gap = Gap(after) /\ stream'[s].sent = r
  BY <1>1, <1>4 DEF r
<1>8. IsFiniteSet(subscribers')
  BY <1>2, <1>4, FS_AddElement
<1>9. FeedTypeOK' /\ FeedShape'
  BY <1>2, <1>3, <1>4, <1>6, <1>7, <1>8 DEF FeedTypeOK, FeedShape
<1>10. \A x \in Stream : Queued(x)' = Queued(x) /\ QueuedTo(x)' = QueuedTo(x)
  BY <1>2 DEF Queued, QueuedTo
<1>11. ASSUME NEW x \in Stream, Follows(x)'
       PROVE  \E f \in (1..nextEvent)' : ExactFrom(x, f)'
  <2>1. CASE x # s
    <3>1. Follows(x) /\ stream'[x] = stream[x]
      BY <2>1, <1>11, <1>7 DEF Follows
    <3>2. PICK f \in 1..nextEvent : ExactFrom(x, f)
      BY <3>1, <1>4 DEF StreamIsExact, ExactFrom, Follows
    <3>3. ExactFrom(x, f)' /\ f \in (1..nextEvent)'
      BY <3>1, <3>2, <1>2, <1>10 DEF ExactFrom, InOrder, SentTo
    <3> QED BY <3>3
  <2>2. CASE x = s
    <3>1. Queued(s)' = {} /\ QueuedTo(s)' = {}
      BY <1>2, <1>10 DEF QueuedTo
    <3>2. SentTo(s)' = first..(nextEvent - 1)
      <4>1. \A e : e \in SentTo(s)' <=> \E i \in 1..(nextEvent - first) : e = first + i - 1
        BY <1>5, <1>7 DEF SentTo
      <4>2. \A e \in first..(nextEvent - 1) : e - first + 1 \in 1..(nextEvent - first) /\ e = first + (e - first + 1) - 1
        BY <1>3, <1>5
      <4>3. \A i \in 1..(nextEvent - first) : first + i - 1 \in first..(nextEvent - 1)
        BY <1>3, <1>5
      <4>4. \A e : e \in SentTo(s)' <=> e \in first..(nextEvent - 1)
        BY <4>1, <4>2, <4>3
      <4> QED BY <4>4
    <3>3. \A i, j \in DOMAIN r : i < j => r[i] < r[j]
      BY <1>3, <1>5
    <3>4. InOrder(s)'
      BY <3>1, <3>3, <1>7 DEF InOrder
    <3>5. ExactFrom(s, first)'
      BY <3>1, <3>2, <3>4, <1>2, <1>5, <1>7 DEF ExactFrom
    <3>6. first \in (1..nextEvent)'
      BY <1>2, <1>5
    <3> QED BY <2>2, <3>5, <3>6
  <2> QED BY <2>1, <2>2
<1>12. StreamIsExact'
  BY <1>11 DEF StreamIsExact, ExactFrom, Follows
<1> QED BY <1>9, <1>12 DEF FeedInv

(* A stream that closes, or whose reader goes, follows no longer.           *)
LEMMA StreamEndsKeeps ==
  ASSUME FeedInv, NEW s \in Stream, Heartbeat(s) \/ ReaderAborts(s) \/ ReaderVanishes(s)
  PROVE  FeedInv'
<1>1. /\ subscribers \subseteq Stream /\ nextEvent \in Nat /\ stream[s].open
      /\ \A x \in Stream : stream[x].open <=> x \in subscribers
  BY FeedFacts DEF Heartbeat, ReaderAborts, ReaderVanishes
<1>2. stream \in [Stream -> Streams] /\ IsFiniteSet(subscribers) /\ FeedTypeOK /\ StreamIsExact /\ FeedShape
  BY DEF FeedInv, FeedShape
<1>3. UNCHANGED <<nextEvent, microtasks>>
  BY DEF Heartbeat, ReaderAborts, ReaderVanishes
<1>4. /\ stream' \in [Stream -> Streams] /\ \A x \in Stream : x # s => stream'[x] = stream[x]
      /\ ~(stream'[s].open /\ stream'[s].reader)
      /\ \/ ~stream'[s].open /\ subscribers' = subscribers \ {s}
         \/ stream'[s].open /\ subscribers' = subscribers
  <2>1. CASE Heartbeat(s)
    BY <2>1, <1>2 DEF Heartbeat, Cleanup, Streams
  <2>2. CASE ReaderAborts(s)
    BY <2>2, <1>2 DEF ReaderAborts, Streams
  <2>3. CASE ReaderVanishes(s)
    BY <2>3, <1>1, <1>2 DEF ReaderVanishes, Streams
  <2> QED BY <2>1, <2>2, <2>3
<1>5. IsFiniteSet(subscribers')
  BY <1>2, <1>4, FS_RemoveElement
<1>6. FeedTypeOK' /\ FeedShape'
  BY <1>1, <1>2, <1>3, <1>4, <1>5 DEF FeedTypeOK, FeedShape
<1>7. \A x \in Stream : Queued(x)' = Queued(x) /\ QueuedTo(x)' = QueuedTo(x)
  BY <1>3 DEF Queued, QueuedTo
<1>8. ASSUME NEW x \in Stream, Follows(x)'
      PROVE  \E f \in (1..nextEvent)' : ExactFrom(x, f)'
  <2>1. Follows(x) /\ stream'[x] = stream[x]
    BY <1>8, <1>4 DEF Follows
  <2>2. PICK f \in 1..nextEvent : ExactFrom(x, f)
    BY <2>1, <1>2 DEF StreamIsExact, ExactFrom, Follows
  <2> QED BY <2>1, <2>2, <1>3, <1>7 DEF ExactFrom, InOrder, SentTo
<1>9. StreamIsExact'
  BY <1>8 DEF StreamIsExact, ExactFrom, Follows
<1> QED BY <1>6, <1>9 DEF FeedInv

(* The feed keeps its promise to every follower: FeedSafe.                  *)
THEOREM FeedSafeHolds == FeedSpec => []FeedSafe
<1>1. FeedInit => FeedInv
  BY InitFeed
<1>2. FeedInv /\ [FeedNext]_feedVars => FeedInv'
  <2> SUFFICES ASSUME FeedInv, [FeedNext]_feedVars PROVE FeedInv'
    OBVIOUS
  <2>1. CASE UNCHANGED feedVars
    <3>1. UNCHANGED <<nextEvent, stream, subscribers, microtasks>>
      BY <2>1 DEF feedVars
    <3>2. FeedShape' /\ FeedTypeOK'
      BY <3>1 DEF FeedInv, FeedShape, FeedTypeOK
    <3>3. \A s \in Stream : InOrder(s)' = InOrder(s) /\ SentTo(s)' = SentTo(s) /\ QueuedTo(s)' = QueuedTo(s)
      BY <3>1 DEF InOrder, SentTo, QueuedTo, Queued
    <3>4. StreamIsExact'
      BY <3>1, <3>3 DEF FeedInv, StreamIsExact
    <3> QED BY <3>2, <3>4 DEF FeedInv
  <2> QED BY <2>1, EmitKeeps, NotifyKeeps, OpensKeeps, StreamEndsKeeps DEF FeedNext
<1>3. FeedInv => FeedSafe
  BY DEF FeedInv, FeedSafe
<1> QED BY <1>1, <1>2, <1>3, PTL DEF FeedSpec
=============================================================================
