----------------------------- MODULE BrowserTabs -----------------------------
(***************************************************************************)
(* The tab table of browser-manager.ts (headless mode): pages and          *)
(* tabSessions, the active tab, tab ownership, and the calls that await in *)
(* the middle of changing them (newTab, closeTab).                         *)
(*                                                                         *)
(* page.close() and the page's 'close' event race: "whether the event      *)
(* dispatches before or after close() resolves varies" (closeTab), so both *)
(* orders are behaviours here.  A page may also close by itself (the user, *)
(* window.close(), a crash).                                               *)
(***************************************************************************)
EXTENDS Integers, FiniteSets, FiniteSetsExt

CONSTANTS Call,     \* calls (HTTP commands) that can be in flight
          Agent,   \* scoped clients
          Root,     \* the root caller, who owns nothing
          MaxTab,   \* bound: tab ids handed out
          NoTab

ASSUME RootIsNoClient == Root \notin Agent
ASSUME MaxTabIsPositive == MaxTab \in Nat \ {0}
ASSUME NoTabIsNoTab == NoTab \notin Nat

Tab == 1..MaxTab

VARIABLES page,         \* page[t]: unborn, open, closing (event due) or closed
          pages,        \* keys of the maps pages and tabSessions
          tabOwnership, \* tabOwnership[t]: a client, or Root (no entry)
          activeTabId,  \* 0 when the close handler found no other tab
          nextTabId,
          call,         \* call[c]: where the awaiting call c is
          opener        \* history: who opened each tab

tabVars == <<page, pages, tabOwnership, activeTabId, nextTabId, call, opener>>

CallState == [at : {"idle", "creating", "closing", "working", "returned"},
              client : Agent \cup {Root}, tab : Tab \cup {NoTab}, wasActive : BOOLEAN]
Idle == [at |-> "idle", client |-> Root, tab |-> NoTab, wasActive |-> FALSE]
Working(who) == [Idle EXCEPT !.at = "working", !.client = who]

(* launch() has opened the first tab                                        *)
TabsInit ==
  /\ page         = [t \in Tab |-> IF t = 1 THEN "open" ELSE "unborn"]
  /\ pages        = {1}
  /\ tabOwnership = [t \in Tab |-> Root]
  /\ activeTabId  = 1
  /\ nextTabId    = 2
  /\ call         = [c \in Call |-> Idle]
  /\ opener       = [t \in Tab |-> Root]

(* Variants named ...Without... are plausible mistakes in the definition    *)
(* that follows them; no specification uses them.                           *)

(* The last key of the insertion-ordered map; ids grow, so it is the        *)
(* largest                                                                  *)
LastOfWithoutEmpty(S) == IF S = {} THEN NoTab ELSE Max(S)

LastOf(S) == IF S = {} THEN 0 ELSE Max(S)

Returned(c) == [call EXCEPT ![c] = [Idle EXCEPT !.at = "returned"]]

(* newTab up to `await context.newPage()`                                   *)
Creating(who) == [Idle EXCEPT !.at = "creating", !.client = who]

(* The newTab() inside closeTab                                             *)
Reopening == [Idle EXCEPT !.at = "creating", !.wasActive = TRUE]

(* newPage resolved: register the page under a fresh id, make it active,    *)
(* record its owner.  A failing goto afterwards leaves the tab in place.    *)
PageCreatedWithoutFreshId(c) ==
  LET id == Cardinality(pages) + 1 IN
  /\ call[c].at = "creating"
  /\ nextTabId <= MaxTab
  /\ page'         = [page EXCEPT ![id] = "open"]
  /\ pages'        = pages \cup {id}
  /\ activeTabId'  = id
  /\ nextTabId'    = nextTabId + 1
  /\ tabOwnership' = IF call[c].client = Root THEN tabOwnership
                     ELSE [tabOwnership EXCEPT ![id] = call[c].client]
  /\ opener'       = [opener EXCEPT ![id] = call[c].client]
  /\ call'         = Returned(c)

PageCreated(c) ==
  LET id == nextTabId IN
  /\ call[c].at = "creating"
  /\ nextTabId <= MaxTab
  /\ page'         = [page EXCEPT ![id] = "open"]
  /\ pages'        = pages \cup {id}
  /\ activeTabId'  = id
  /\ nextTabId'    = nextTabId + 1
  /\ tabOwnership' = IF call[c].client = Root THEN tabOwnership
                     ELSE [tabOwnership EXCEPT ![id] = call[c].client]
  /\ opener'       = [opener EXCEPT ![id] = call[c].client]
  /\ call'         = Returned(c)

(* The URL is refused: not for the blank tab that closeTab opens            *)
NewTabFails(c) ==
  /\ call[c].at = "creating" /\ ~call[c].wasActive
  /\ call' = Returned(c)
  /\ UNCHANGED <<page, pages, tabOwnership, activeTabId, nextTabId, opener>>

(* closeTab(t) up to `await page.close()`, active tab being `active`        *)
Closing(who, t, active) ==
  [at |-> "closing", client |-> who, tab |-> t, wasActive |-> t = active]

PageTold(t) == IF page[t] = "open" THEN [page EXCEPT ![t] = "closing"] ELSE page

(* page.close() resolved: forget the tab; if it was the active one, reopen  *)
(* a blank tab or move to another one                                       *)
CloseResumesWithoutReopen(c) ==
  LET t == call[c].tab
      remaining == pages \ {t}
  IN
  /\ call[c].at = "closing"
  /\ pages'        = remaining
  /\ tabOwnership' = [tabOwnership EXCEPT ![t] = Root]
  /\ activeTabId'  = IF call[c].wasActive /\ activeTabId \notin remaining
                     THEN LastOf(remaining) ELSE activeTabId
  /\ call'         = Returned(c)
  /\ UNCHANGED <<page, nextTabId, opener>>

CloseResumes(c) ==
  LET t == call[c].tab
      remaining == pages \ {t}
  IN
  /\ call[c].at = "closing"
  /\ pages'        = remaining
  /\ tabOwnership' = [tabOwnership EXCEPT ![t] = Root]
  /\ \/ /\ call[c].wasActive /\ remaining = {}
        /\ call' = [call EXCEPT ![c] = Reopening]
        /\ UNCHANGED activeTabId
     \/ /\ call[c].wasActive /\ remaining # {}
        /\ call'        = Returned(c)
        /\ activeTabId' = IF activeTabId \in remaining THEN activeTabId ELSE LastOf(remaining)
     \/ /\ ~call[c].wasActive
        /\ call' = Returned(c)
        /\ UNCHANGED activeTabId
  /\ UNCHANGED <<page, nextTabId, opener>>

(* The page's 'close' handler (wirePageEvents): it does not touch ownership *)
CloseEventWithoutTable(t) ==
  /\ page[t] = "closing"
  /\ page'  = [page EXCEPT ![t] = "closed"]
  /\ activeTabId' = IF t \in pages /\ activeTabId = t THEN LastOf(pages \ {t})
                    ELSE activeTabId
  /\ UNCHANGED <<pages, tabOwnership, nextTabId, call, opener>>

CloseEvent(t) ==
  /\ page[t] = "closing"
  /\ page'  = [page EXCEPT ![t] = "closed"]
  /\ pages' = pages \ {t}
  /\ activeTabId' = IF t \in pages /\ activeTabId = t THEN LastOf(pages \ {t})
                    ELSE activeTabId
  /\ UNCHANGED <<tabOwnership, nextTabId, call, opener>>

(* The user, window.close() or a crash                                      *)
PageClosesItself(t) ==
  /\ page[t] = "open"
  /\ page' = PageTold(t)
  /\ UNCHANGED <<pages, tabOwnership, activeTabId, nextTabId, call, opener>>

(* DELETE /token and a reducing re-pair                                     *)
ReleaseClientTabs(who) ==
  /\ tabOwnership' = [t \in Tab |-> IF tabOwnership[t] = who THEN Root ELSE tabOwnership[t]]
  /\ UNCHANGED <<page, pages, activeTabId, nextTabId, call, opener>>
-----------------------------------------------------------------------------
TableTypeOK ==
  /\ page         \in [Tab -> {"unborn", "open", "closing", "closed"}]
  /\ pages        \subseteq Tab
  /\ tabOwnership \in [Tab -> Agent \cup {Root}]
  /\ nextTabId    \in 2..(MaxTab + 1)
  /\ call         \in [Call -> CallState]
  /\ opener       \in [Tab -> Agent \cup {Root}]

TabsTypeOK == TableTypeOK /\ activeTabId \in 0..MaxTab

(* Ownership follows the page, not the number: entries outlive their tabs   *)
(* (the close handler leaves them behind), yet whoever is recorded as the   *)
(* owner of a tab is the client that opened it.                             *)
OwnerIsOpener ==
  \A t \in Tab : tabOwnership[t] # Root => tabOwnership[t] = opener[t]

(* The table and Chromium agree: every open page is registered, and no      *)
(* closed page still is, in whatever order close() and its event arrive.    *)
TableMatchesPages ==
  \A t \in Tab : /\ page[t] = "open" => t \in pages
                 /\ t \in pages => page[t] \in {"open", "closing"}

(* The tab table of the manager agrees with Chromium and with who opened    *)
(* what, however commands and page events interleave.                       *)
TabTableSafe ==
  TableTypeOK /\ OwnerIsOpener /\ TableMatchesPages
=============================================================================
