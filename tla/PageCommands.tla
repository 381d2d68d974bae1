---------------------------- MODULE PageCommands ----------------------------
(***************************************************************************)
(* What commands do to the tabs they work in: tab-session.ts, snapshot.ts, *)
(* write-commands.ts, read-commands.ts and the page commands of            *)
(* meta-commands.ts.  A handler is a straight line of awaited page         *)
(* operations, so each command is the set of the lines it may follow, a    *)
(* line being a sequence of steps; one interpreter runs the steps.  Two    *)
(* requests may be in flight, pages navigate by themselves, and another    *)
(* request may change the active tab between any two steps.                *)
(*                                                                         *)
(* A document is named by its tab, its navigation count and the load-html  *)
(* that filled it; every document may hold one iframe.  page.setContent is *)
(* taken not to be a navigation.                                           *)
(***************************************************************************)
EXTENDS Integers, Sequences, SequencesExt

CONSTANTS Tab,       \* open tabs
          Cmd,       \* requests in flight at once
          Moving,    \* bound: tabs whose pages navigate or lose an iframe by themselves
          MaxDocs,   \* bound: documents per tab
          MaxLoads   \* bound: runs of load-html

ASSUME PageAssumption == MaxDocs \in Nat \ {0} /\ MaxLoads \in Nat /\ Moving \subseteq Tab

VARIABLES activeTabId, \* the tab that commands without a tab id work in
          sess,     \* generation of the sessions; a recreated context makes new ones
          doc,      \* doc[t]: the document of tab t
          shown,    \* shown[t]: the load-html whose content the tab shows, or 0
          inner,    \* inner[t]: does the document have its iframe
          refs,     \* refMap, as the place it was captured in
          frame,    \* activeFrame
          loaded,   \* loadedHtml
          loads,    \* load-html commands so far
          cmd       \* the requests

pageVars == <<activeTabId, sess, doc, shown, inner, refs, frame, loaded, loads, cmd>>
browserVars == <<doc, shown, inner>>
sessionVars == <<refs, frame, loaded>>

(* Variants named ...Without..., ...Keeping... are plausible mistakes in the *)
(* definition that follows them; no specification uses them.                *)

NoFrame == [tab |-> 0, doc |-> 0, load |-> 0]
NoRefs == [doc |-> 0, frame |-> NoFrame, over |-> FALSE]
NotLoaded == [load |-> 0, over |-> FALSE]
FrameOf(t) == [tab |-> t, doc |-> doc[t], load |-> shown[t]]
IsAttached(f) == f # NoFrame /\ inner[f.tab] /\ FrameOf(f.tab) = f
-----------------------------------------------------------------------------
(* The commands.  The first step of a line runs in the call itself; handlers *)
(* of meta-commands.ts start without a look at the frame.  A wait for the    *)
(* network to settle, which never fails, is left out.                        *)

GotoCmd == { <<"forget", "validate", "go">> }
BackCmd == { <<"forget", "go">> }
LoadHtmlCmd == { <<"file", "setContent", "record">> }
InMainFrameOnly == GotoCmd \cup BackCmd \cup LoadHtmlCmd

OnSelector == { <<"target", "use">>, <<"ref", "count", "use">> }
ClickCmd == OnSelector \cup { <<"ref", "count", "use", "ref", "count", "use">> }
FillCmd == OnSelector
SelectCmd == OnSelector
HoverCmd == OnSelector
KeysCmd == { <<"page", "usePage">> }
ScrollCmd == OnSelector
               \cup { <<"ref", "count", "use", "pause", "activeRef", "count", "use">>,
                      <<"target", "use", "pause", "use">> }
WaitCmd == OnSelector \cup { <<"page", "usePage">> }
UploadCmd == OnSelector
ViewportCmd == { <<"recreate">> }
UserAgentCmd == { <<"recreate">> }
CookieCmd == { <<"page", "usePage">> }
CookieImportCmd == { <<"page", "usePage">> }
CleanupCmd == { <<"page", "usePage", "usePage">> }
DownloadCmd == { <<"ref", "count", "use", "activePage", "usePage">>, <<"page", "usePage">> }
ScrapeCmd == { <<"pause", "activeTarget", "use", "activePage", "usePage">> }
ArchiveCmd == { <<"page", "usePage">> }

TextCmd == { <<"target", "use">> }
HtmlCmd == OnSelector
ListingCmd == { <<"target", "use">> }
JsCmd == { <<"target", "use">> }
CssCmd == OnSelector
AttrsCmd == OnSelector
IsCmd == OnSelector
StorageCmd == { <<"target", "use">> }
PerfCmd == { <<"page", "usePage">> }
MediaCmd == { <<"pause", "activeTarget", "use">> }
DataCmd == { <<"target", "use">> }
SnapshotCmd == { <<"target", "capture", "store">>, <<"target", "capture", "use", "store">> }
ScreenshotCmd == { <<"metaRef", "count", "use">>, <<"meta", "usePage">> }
PdfCmd == { <<"meta", "usePage">> }
DiffCmd == { <<"meta", "validate", "go", "usePage", "validate", "go", "usePage">> }
FrameCmd == { <<"leaveFrame">>, <<"meta", "findFrame", "enterFrame">>,
              <<"metaRef", "count", "findFrame", "enterFrame">> }
StateLoadCmd == { <<"loadState">> }
UxAuditCmd == { <<"meta", "usePage">> }

Lines == UNION {GotoCmd, BackCmd, LoadHtmlCmd, ClickCmd, FillCmd, SelectCmd, HoverCmd, KeysCmd,
                ScrollCmd, WaitCmd, UploadCmd, ViewportCmd, UserAgentCmd, CookieCmd,
                CookieImportCmd, CleanupCmd, DownloadCmd, ScrapeCmd,
                ArchiveCmd, TextCmd, HtmlCmd, ListingCmd, JsCmd, CssCmd, AttrsCmd, IsCmd,
                StorageCmd, PerfCmd, MediaCmd, DataCmd, SnapshotCmd,
                ScreenshotCmd, PdfCmd, DiffCmd, FrameCmd, StateLoadCmd, UxAuditCmd}
-----------------------------------------------------------------------------
NoCmd == [todo |-> <<>>, tab |-> 0, sess |-> 0, target |-> NoFrame, page |-> 0, at |-> NoRefs,
          load |-> 0, over |-> FALSE]

(* launch() has opened the tabs and each has loaded its first document      *)
PageInit ==
  /\ activeTabId \in Tab /\ sess = 1
  /\ doc = [t \in Tab |-> 1] /\ shown = [t \in Tab |-> 0] /\ inner = [t \in Tab |-> TRUE]
  /\ refs = [t \in Tab |-> NoRefs] /\ frame = [t \in Tab |-> NoFrame]
  /\ loaded = [t \in Tab |-> NotLoaded]
  /\ loads = 0
  /\ cmd = [c \in Cmd |-> NoCmd]

(* History: what a command has read of tab t is out of date                  *)
Overtakes(t) ==
  [c \in Cmd |-> IF cmd[c].todo # <<>> /\ t \in {cmd[c].tab, cmd[c].target.tab}
                 THEN [cmd[c] EXCEPT !.over = TRUE] ELSE cmd[c]]

(* getActiveFrameOrPage: a detached frame is given up, and the refs with it *)
Recovers(t) ==
  LET lost == frame[t] # NoFrame /\ ~IsAttached(frame[t])
  IN /\ frame' = IF lost THEN [frame EXCEPT ![t] = NoFrame] ELSE frame
     /\ refs'  = IF lost THEN [refs EXCEPT ![t] = NoRefs] ELSE refs

(* onMainFrameNavigated, at the commit of a navigation of tab t             *)
NavigatedKeepingHtml(t) ==
  /\ refs'   = [refs EXCEPT ![t] = NoRefs]
  /\ frame'  = [frame EXCEPT ![t] = NoFrame]
  /\ UNCHANGED loaded

Navigated(t) ==
  /\ refs'   = [refs EXCEPT ![t] = NoRefs]
  /\ frame'  = [frame EXCEPT ![t] = NoFrame]
  /\ loaded' = [loaded EXCEPT ![t] = NotLoaded]

Commits(t) ==
  /\ doc[t] < MaxDocs
  /\ doc'   = [doc EXCEPT ![t] = @ + 1]
  /\ shown' = [shown EXCEPT ![t] = 0]
  /\ inner' = [inner EXCEPT ![t] = TRUE]
  /\ Navigated(t)

StepOf(c) == Head(cmd[c].todo)
IsAt(c, step) == cmd[c].todo # <<>> /\ StepOf(c) = step
IsLive(c) == cmd[c].sess = sess
After(r) == IF Len(r.todo) = 1 THEN NoCmd ELSE [r EXCEPT !.todo = Tail(@)]
Done(c) == cmd' = [cmd EXCEPT ![c] = NoCmd]
Advances(c, r) == cmd' = [cmd EXCEPT ![c] = After(r)]
AdvancesOver(c, r, t) == cmd' = [Overtakes(t) EXCEPT ![c] = After(r)]
TargetTab(c) == IF cmd[c].target = NoFrame THEN cmd[c].page ELSE cmd[c].target.tab
-----------------------------------------------------------------------------
(* A request arrives: its session is the active one                         *)

BeginsCommand(c, line) ==
  LET t == activeTabId
      byRef == Head(line) \in {"ref", "metaRef"}
      new == [todo |-> Tail(line), tab |-> t, sess |-> sess, page |-> t,
              target |-> IF byRef THEN refs'[t].frame ELSE frame'[t],
              at |-> NoRefs, load |-> 0, over |-> FALSE]
  IN /\ cmd[c].todo = <<>> /\ Len(line) > 1
     /\ IF Head(line) \in {"meta", "metaRef"} THEN UNCHANGED <<refs, frame>> ELSE Recovers(t)
     /\ line \in InMainFrameOnly => frame'[t] = NoFrame
     /\ byRef => refs'[t] # NoRefs
     /\ loaded' = IF Head(line) = "forget" THEN [loaded EXCEPT ![t] = NotLoaded] ELSE loaded
     /\ cmd' = [cmd EXCEPT ![c] = new]
     /\ UNCHANGED <<activeTabId, sess, doc, shown, inner, loads>>

(* frame main *)
LeavesFrame ==
  /\ frame' = [frame EXCEPT ![activeTabId] = NoFrame]
  /\ refs'  = [refs EXCEPT ![activeTabId] = NoRefs]
  /\ cmd' = Overtakes(activeTabId)
  /\ UNCHANGED <<activeTabId, sess, browserVars, loaded, loads>>

(* recreateContext, and state load: new pages, new sessions.  Only a        *)
(* recreated context replays what load-html has put into a tab.             *)
Replaces(replay) ==
  /\ \A t \in Tab : doc[t] < MaxDocs
  /\ sess' = sess + 1
  /\ doc'   = [t \in Tab |-> doc[t] + 1]
  /\ shown' = [t \in Tab |-> IF replay THEN loaded[t].load ELSE 0]
  /\ loaded' = [t \in Tab |-> IF replay THEN loaded[t] ELSE NotLoaded]
  /\ inner' = [t \in Tab |-> TRUE]
  /\ refs'  = [t \in Tab |-> NoRefs]
  /\ frame' = [t \in Tab |-> NoFrame]
  /\ cmd' = [c \in Cmd |-> [cmd[c] EXCEPT !.over = cmd[c].todo # <<>>]]
  /\ UNCHANGED <<activeTabId, loads>>
-----------------------------------------------------------------------------
(* The steps                                                                *)

(* entry.locator.count(): the ref is stale, or its frame is gone            *)
Counts(c) ==
  /\ IsAt(c, "count") /\ IsLive(c)
  /\ cmd[c].target = NoFrame \/ IsAttached(cmd[c].target)
  /\ Advances(c, cmd[c])
  /\ UNCHANGED <<activeTabId, sess, browserVars, sessionVars, loads>>

LooksUp(c, t) ==
  /\ refs[t] # NoRefs
  /\ Advances(c, [cmd[c] EXCEPT !.page = t, !.target = refs[t].frame])
  /\ UNCHANGED <<activeTabId, sess, browserVars, sessionVars, loads>>

LooksUpAgain(c) == IsAt(c, "ref") /\ IsLive(c) /\ LooksUp(c, cmd[c].tab)
LooksUpInActive(c) == IsAt(c, "activeRef") /\ LooksUp(c, activeTabId)

(* An operation on the target or the page; it touches that tab              *)
Uses(c) ==
  /\ IsAt(c, "use") /\ IsLive(c)
  /\ cmd[c].target = NoFrame \/ IsAttached(cmd[c].target)
  /\ Advances(c, cmd[c])
  /\ UNCHANGED <<activeTabId, sess, browserVars, sessionVars, loads>>

UsesPage(c) ==
  /\ IsAt(c, "usePage") /\ IsLive(c)
  /\ Advances(c, cmd[c])
  /\ UNCHANGED <<activeTabId, sess, browserVars, sessionVars, loads>>

(* Steps that only pass time: timers, dynamic imports, file reads, DNS      *)
Passes(c) ==
  /\ \E step \in {"pause", "validate"} : IsAt(c, step)
  /\ Advances(c, cmd[c])
  /\ UNCHANGED <<activeTabId, sess, browserVars, sessionVars, loads>>

TakesTarget(c) ==
  /\ IsAt(c, "target") /\ IsLive(c)
  /\ Recovers(cmd[c].tab)
  /\ Advances(c, [cmd[c] EXCEPT !.target = frame'[cmd[c].tab]])
  /\ UNCHANGED <<activeTabId, sess, browserVars, loaded, loads>>

TakesActiveTarget(c) ==
  /\ IsAt(c, "activeTarget")
  /\ Recovers(activeTabId)
  /\ Advances(c, [cmd[c] EXCEPT !.target = frame'[activeTabId], !.page = activeTabId])
  /\ UNCHANGED <<activeTabId, sess, browserVars, loaded, loads>>

TakesActivePage(c) ==
  /\ IsAt(c, "activePage")
  /\ Advances(c, [cmd[c] EXCEPT !.page = activeTabId])
  /\ UNCHANGED <<activeTabId, sess, browserVars, sessionVars, loads>>

Goes(c) ==
  /\ IsAt(c, "go") /\ IsLive(c)
  /\ Commits(cmd[c].tab)
  /\ AdvancesOver(c, cmd[c], cmd[c].tab)
  /\ UNCHANGED <<activeTabId, sess, loads>>

(* load-html: the page takes the content, then the session notes it, unless *)
(* setContent times out all the same.  What an earlier load-html has noted   *)
(* stays until then (its `over` is history).                                 *)
SetsContentWithoutCount(c) ==
  LET t == cmd[c].tab
  IN /\ IsAt(c, "setContent") /\ IsLive(c) /\ loads < MaxLoads
     /\ UNCHANGED loads
     /\ shown' = [shown EXCEPT ![t] = loads + 1]
     /\ inner' = [inner EXCEPT ![t] = TRUE]
     /\ loaded' = IF loaded[t] = NotLoaded THEN loaded ELSE [loaded EXCEPT ![t].over = TRUE]
     /\ AdvancesOver(c, [cmd[c] EXCEPT !.load = loads + 1, !.over = FALSE], t)
     /\ UNCHANGED <<activeTabId, sess, doc, refs, frame>>

SetsContent(c) ==
  LET t == cmd[c].tab
  IN /\ IsAt(c, "setContent") /\ IsLive(c) /\ loads < MaxLoads
     /\ loads' = loads + 1
     /\ shown' = [shown EXCEPT ![t] = loads + 1]
     /\ inner' = [inner EXCEPT ![t] = TRUE]
     /\ loaded' = IF loaded[t] = NotLoaded THEN loaded ELSE [loaded EXCEPT ![t].over = TRUE]
     /\ AdvancesOver(c, [cmd[c] EXCEPT !.load = loads + 1, !.over = FALSE], t)
     /\ UNCHANGED <<activeTabId, sess, doc, refs, frame>>

Records(c) ==
  /\ IsAt(c, "record")
  /\ loaded' = IF IsLive(c) THEN [loaded EXCEPT ![cmd[c].tab] = [load |-> cmd[c].load, over |-> cmd[c].over]]
                            ELSE loaded
  /\ Done(c)
  /\ UNCHANGED <<activeTabId, sess, browserVars, refs, frame, loads>>

(* snapshot: the accessibility tree is read, the ref map stored after it    *)
Captures(c) ==
  /\ IsAt(c, "capture") /\ IsLive(c)
  /\ cmd[c].target = NoFrame \/ IsAttached(cmd[c].target)
  /\ Advances(c, [cmd[c] EXCEPT !.at = [doc |-> doc[TargetTab(c)], frame |-> cmd[c].target, over |-> FALSE]])
  /\ UNCHANGED <<activeTabId, sess, browserVars, sessionVars, loads>>

Stores(c) ==
  /\ IsAt(c, "store")
  /\ refs' = IF IsLive(c) THEN [refs EXCEPT ![cmd[c].tab] = [cmd[c].at EXCEPT !.over = cmd[c].over]] ELSE refs
  /\ Advances(c, [cmd[c] EXCEPT !.at = NoRefs])
  /\ UNCHANGED <<activeTabId, sess, browserVars, frame, loaded, loads>>

(* frame: the iframe is looked for in the page taken at the start and set   *)
(* in the session that is active at the end                                 *)
FindsFrame(c) ==
  /\ IsAt(c, "findFrame") /\ IsLive(c) /\ inner[cmd[c].page]
  /\ Advances(c, [cmd[c] EXCEPT !.target = FrameOf(cmd[c].page)])
  /\ UNCHANGED <<activeTabId, sess, browserVars, sessionVars, loads>>

EntersFrameKeepingRefs(c) ==
  /\ IsAt(c, "enterFrame")
  /\ frame' = [frame EXCEPT ![activeTabId] = cmd[c].target]
  /\ AdvancesOver(c, cmd[c], activeTabId)
  /\ UNCHANGED <<activeTabId, sess, browserVars, refs, loaded, loads>>

EntersFrame(c) ==
  /\ IsAt(c, "enterFrame")
  /\ frame' = [frame EXCEPT ![activeTabId] = cmd[c].target]
  /\ refs'  = [refs EXCEPT ![activeTabId] = NoRefs]
  /\ AdvancesOver(c, cmd[c], activeTabId)
  /\ UNCHANGED <<activeTabId, sess, browserVars, loaded, loads>>

(* Any awaited operation may fail, and all do when the page is closed        *)
Fails(c) ==
  /\ cmd[c].todo # <<>>
  /\ StepOf(c) \in {"target", "activeTarget", "activePage", "store", "enterFrame"}
       => ~IsLive(c)
  /\ Done(c)
  /\ UNCHANGED <<activeTabId, sess, browserVars, sessionVars, loads>>
-----------------------------------------------------------------------------
(* The pages and the other requests                                         *)

NavigatesItself(t) ==
  /\ Commits(t)
  /\ cmd' = Overtakes(t)
  /\ UNCHANGED <<activeTabId, sess, loads>>

LosesIframe(t) ==
  /\ inner[t]
  /\ inner' = [inner EXCEPT ![t] = FALSE]
  /\ cmd' = Overtakes(t)
  /\ UNCHANGED <<activeTabId, sess, doc, shown, sessionVars, loads>>

SwitchesTab(t) ==
  /\ t # activeTabId
  /\ activeTabId' = t
  /\ UNCHANGED <<sess, browserVars, sessionVars, loads, cmd>>

CommandStep(c) ==
  \/ Counts(c) \/ LooksUpAgain(c) \/ LooksUpInActive(c) \/ Uses(c) \/ UsesPage(c) \/ Passes(c)
  \/ TakesTarget(c) \/ TakesActiveTarget(c) \/ TakesActivePage(c) \/ Goes(c) \/ SetsContent(c)
  \/ Records(c) \/ Captures(c) \/ Stores(c) \/ FindsFrame(c) \/ EntersFrame(c) \/ Fails(c)

PageNext ==
  \/ \E c \in Cmd : CommandStep(c) \/ \E line \in Lines : BeginsCommand(c, line)
  \/ LeavesFrame \/ \E replay \in BOOLEAN : Replaces(replay)
  \/ \E t \in Moving : NavigatesItself(t) \/ LosesIframe(t)
  \/ \E t \in Tab : SwitchesTab(t)

PageSpec == PageInit /\ [][PageNext]_pageVars
-----------------------------------------------------------------------------
PageTypeOK ==
  /\ activeTabId \in Tab /\ sess \in 1..MaxDocs /\ loads \in 0..MaxLoads
  /\ \A t \in Tab :
       /\ doc[t] \in 1..MaxDocs /\ shown[t] \in 0..loads /\ inner[t] \in BOOLEAN
       /\ refs[t].doc \in 0..MaxDocs /\ frame[t].tab \in Tab \cup {0}
       /\ loaded[t].load \in 0..loads
  /\ \A c \in Cmd : IsLive(c) \/ cmd[c].sess \in 0..(sess - 1)

(* The refs a tab offers were captured in the frame that commands now work   *)
(* in, or in the document that is now loaded; only a snapshot that a         *)
(* navigation or a frame switch has overtaken stores others.                 *)
RefsMatchContext ==
  \A t \in Tab : refs[t] # NoRefs /\ ~refs[t].over =>
     refs[t].frame = frame[t] /\ (frame[t] = NoFrame => refs[t].doc = doc[t])

(* The HTML that a recreated context would replay is what the tab shows,     *)
(* unless something has overtaken the load-html that noted it: a navigation  *)
(* before it was done, or a later load-html that is not done or has failed.  *)
ReplayIsCurrent ==
  \A t \in Tab : loaded[t] # NotLoaded /\ ~loaded[t].over => shown[t] = loaded[t].load

(* What the manager remembers of a page, its refs and its loaded HTML, is   *)
(* of the page as it is now.                                                *)
PageStateSafe ==
  PageTypeOK /\ RefsMatchContext /\ ReplayIsCurrent
=============================================================================
