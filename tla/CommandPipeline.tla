--------------------------- MODULE CommandPipeline ---------------------------
(***************************************************************************)
(* handleCommandInternalImpl (server.ts) over the tab table: pin the       *)
(* requested tab by making it the active one, check the caller's access,   *)
(* capture the active tab's session, run the command, and restore the      *)
(* active tab when it is done.  Everything up to the command's first await *)
(* is one step.  Commands of several HTTP requests are in flight together. *)
(*                                                                         *)
(* Scoped clients are own-only (the default of createToken); a watch-mode  *)
(* refusal or an unknown command behaves like Refused.                     *)
(***************************************************************************)
EXTENDS BrowserTabs

VARIABLES savedTabId,  \* savedTabId[c]: the tab to go back to, or NoTab
          session,     \* session[c]: the tab whose page c works on, or NoTab
          mishaps      \* history: has a command overlapped another, has a page
                       \* closed by itself

cmdVars == <<savedTabId, session, mishaps>>
allVars == <<tabVars, cmdVars>>

CommandsInit ==
  /\ TabsInit
  /\ savedTabId = [c \in Call |-> NoTab]
  /\ session    = [c \in Call |-> NoTab]
  /\ mishaps    = {}

Alone(c) == \A d \in Call \ {c} : call[d].at = "idle"

(* switchTab, for a tab that may be gone: it throws and nothing changes     *)
SwitchedTo(t) == IF t \in pages THEN t ELSE activeTabId

(* tabId in the request body: pin it.  A pin that fails is only logged.     *)
Saved(tabId) == IF tabId = NoTab THEN NoTab ELSE activeTabId

(* checkTabAccess for an own-only token; root may do anything               *)
MayUse(who, tabId) ==
  LET target == IF tabId = NoTab THEN activeTabId ELSE tabId IN
  who = Root \/ (target \in Tab /\ tabOwnership[target] = who)

(* Every command starts here                                                *)
Arrive(c) ==
  /\ call[c].at = "idle"
  /\ mishaps' = IF Alone(c) THEN mishaps ELSE mishaps \cup {"overlap"}
  /\ UNCHANGED <<pages, tabOwnership, nextTabId, opener>>

(* The checks let it through, and getActiveSession finds a page             *)
Admitted(c, who, tabId) ==
  /\ Arrive(c)
  /\ MayUse(who, tabId)
  /\ SwitchedTo(tabId) \in pages

(* 403: the pin is not undone                                               *)
Refused(c, who, tabId) ==
  /\ Arrive(c)
  /\ ~MayUse(who, tabId)
  /\ activeTabId' = SwitchedTo(tabId)
  /\ UNCHANGED <<page, call, savedTabId, session>>

(* A scoped newtab returns before the code that restores the pinned tab     *)
ScopedNewTab(c, who, tabId) ==
  /\ Arrive(c)
  /\ who # Root
  /\ activeTabId' = SwitchedTo(tabId)
  /\ call' = [call EXCEPT ![c] = Creating(who)]
  /\ UNCHANGED <<page, savedTabId, session>>

(* getActiveSession throws: the catch block restores at once                *)
NoActivePage(c, who, tabId) ==
  /\ Arrive(c)
  /\ MayUse(who, tabId)
  /\ SwitchedTo(tabId) \notin pages
  /\ UNCHANGED <<page, activeTabId, call, savedTabId, session>>

(* The command pins its tab and runs to its first await                     *)
Begin(c, who, tabId, state) ==
  /\ Admitted(c, who, tabId)
  /\ activeTabId' = SwitchedTo(tabId)
  /\ savedTabId'  = [savedTabId EXCEPT ![c] = Saved(tabId)]
  /\ call'        = [call EXCEPT ![c] = state]

(* A read or write command on the page of its session                       *)
PageCommand(c, who, tabId) ==
  /\ Begin(c, who, tabId, Working(who))
  /\ session' = [session EXCEPT ![c] = SwitchedTo(tabId)]
  /\ UNCHANGED page

(* newtab by root                                                           *)
RootNewTab(c, tabId) ==
  /\ Begin(c, Root, tabId, Creating(Root))
  /\ UNCHANGED <<page, session>>

(* closetab [id], by default the active tab; an unknown id throws and ends  *)
(* like a page command                                                      *)
CloseTab(c, who, tabId, t) ==
  /\ t \in pages
  /\ Begin(c, who, tabId, Closing(who, t, SwitchedTo(tabId)))
  /\ page' = PageTold(t)
  /\ UNCHANGED session

(* `tab t` switches at once; if the command was pinned, the restore that    *)
(* follows undoes it                                                        *)
SwitchTab(c, who, tabId, t) ==
  /\ Admitted(c, who, tabId)
  /\ t \in pages
  /\ activeTabId' = IF tabId # NoTab /\ activeTabId \in pages THEN activeTabId ELSE t
  /\ UNCHANGED <<page, call, savedTabId, session>>

(* A page command's awaits are over                                         *)
PageCommandReturns(c) ==
  /\ call[c].at = "working"
  /\ call'    = Returned(c)
  /\ session' = [session EXCEPT ![c] = NoTab]
  /\ UNCHANGED <<page, pages, tabOwnership, activeTabId, nextTabId, opener,
                 savedTabId, mishaps>>

(* The end of the try block, or the catch block: go back to the saved tab   *)
Finish(c) ==
  /\ call[c].at = "returned"
  /\ activeTabId' = IF savedTabId[c] = NoTab THEN activeTabId ELSE SwitchedTo(savedTabId[c])
  /\ call'        = [call EXCEPT ![c] = Idle]
  /\ savedTabId'  = [savedTabId EXCEPT ![c] = NoTab]
  /\ UNCHANGED <<page, pages, tabOwnership, nextTabId, opener, session, mishaps>>

TabRequested == {NoTab} \cup {t \in Tab : t < nextTabId}

CommandStep ==
  \E c \in Call, tabId \in TabRequested :
    \/ \E who \in Agent \cup {Root} :
         \/ Refused(c, who, tabId)
         \/ ScopedNewTab(c, who, tabId)
         \/ NoActivePage(c, who, tabId)
         \/ PageCommand(c, who, tabId)
         \/ \E t \in Tab : CloseTab(c, who, tabId, t) \/ SwitchTab(c, who, tabId, t)
    \/ RootNewTab(c, tabId)

ReturnStep ==
  \E c \in Call : \/ (PageCreated(c) \/ NewTabFails(c) \/ CloseResumes(c)) /\ UNCHANGED cmdVars
                  \/ PageCommandReturns(c)
                  \/ Finish(c)

PageStep ==
  \E t \in Tab : \/ CloseEvent(t) /\ UNCHANGED cmdVars
                 \/ /\ PageClosesItself(t)
                    /\ mishaps' = mishaps \cup {"selfclose"}
                    /\ UNCHANGED <<savedTabId, session>>

Revoke == \E who \in Agent : ReleaseClientTabs(who) /\ UNCHANGED cmdVars

CommandsNext == CommandStep \/ ReturnStep \/ PageStep \/ Revoke

CommandsSpec == CommandsInit /\ [][CommandsNext]_allVars
-----------------------------------------------------------------------------
CommandsTypeOK ==
  /\ TabsTypeOK
  /\ savedTabId \in [Call -> 0..MaxTab \cup {NoTab}]
  /\ session    \in [Call -> Tab \cup {NoTab}]
  /\ mishaps    \subseteq {"overlap", "selfclose"}

Quiescent == /\ \A c \in Call : call[c].at = "idle"
             /\ \A t \in Tab : page[t] # "closing"

(* Commands that come one at a time, with pages that close only when told   *)
(* to, always leave a live active tab: "losing the race means the last-tab  *)
(* auto-create below never runs, leaving the manager with zero tabs"        *)
(* (closeTab), where every root command fails, newtab included.             *)
ActiveTabLives == mishaps = {} /\ Quiescent => activeTabId \in pages

(* Commands leave the manager with a tab that the next command can work in. *)
CommandsSafe ==
  CommandsTypeOK /\ ActiveTabLives
=============================================================================
