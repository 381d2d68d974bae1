------------------------------ MODULE PageProofs ------------------------------
(***************************************************************************)
(* What the page commands leave behind, for any sets of tabs, frames,      *)
(* requests and widths: the refs and the HTML a tab keeps, the width and   *)
(* the marks of its page; and what replacing the browser context leaves.   *)
(*                                                                         *)
(* A tab's refs and HTML are written by a request after several awaits, so *)
(* RefsMatchContext and ReplayIsCurrent say nothing of the moments before. *)
(* InStep adds what a request at work agrees with its tab on: a snapshot   *)
(* that nothing has overtaken works on the tab's frame and has captured a  *)
(* document the tab still shows (Captured), and a load-html about to       *)
(* record its HTML is what the tab shows (Taken).  Whatever changes the    *)
(* tab in between overtakes the request, or makes it one of an earlier     *)
(* session; both say nothing of what it will write.                        *)
(*                                                                         *)
(* For widths and marks the invariant says which steps a request may still *)
(* have to take (Working): a line goes on until its last step, the one     *)
(* that puts the page back.  OneResizes says whose width the page has, and *)
(* HasRemover who will take each mark off.                                 *)
(*                                                                         *)
(* A replacement saves the owners of tabs long before it restores them     *)
(* under new ids, so CtxInv says that the saved owners opened their tabs   *)
(* (SavedOwners), that an id not yet handed out has neither page nor owner *)
(* (FreshIds), and in which stages the context is open, closed and of the  *)
(* recorded scale (StageAgrees).                                           *)
(***************************************************************************)
EXTENDS PageCommands, PageShots, BrowserContext, SequenceTheorems, FiniteSetTheorems,
        WellFoundedInduction, TLAPS

(* Steps that are not of a snapshot and not of a load-html                 *)
PlainStep == {"forget", "validate", "go", "file", "target", "use", "ref", "count", "page",
              "usePage", "pause", "activeRef", "recreate", "activePage", "activeTarget", "meta",
              "metaRef", "leaveFrame", "findFrame", "enterFrame", "loadState"}
PageStep == PlainStep \cup {"capture", "store", "setContent", "record"}

(* Types                                                                   *)
Frame == [tab : Tab, doc : 1..MaxDocs, load : 0..MaxLoads] \cup {NoFrame}
Refs == [doc : 0..MaxDocs, frame : Frame, over : BOOLEAN]
Html == [load : 0..MaxLoads, over : BOOLEAN]
PageRequest == [todo : Seq(PageStep), tab : Tab \cup {0}, sess : Nat, target : Frame,
                page : Tab \cup {0}, at : Refs, load : 0..MaxLoads, over : BOOLEAN]

PageTypes ==
  /\ activeTabId \in Tab /\ sess \in Nat \ {0} /\ loads \in 0..MaxLoads
  /\ doc \in [Tab -> 1..MaxDocs] /\ \A t \in Tab : sess <= doc[t]
  /\ shown \in [Tab -> 0..loads] /\ inner \in [Tab -> BOOLEAN]
  /\ refs \in [Tab -> Refs] /\ frame \in [Tab -> Frame]
  /\ loaded \in [Tab -> Html] /\ \A t \in Tab : loaded[t].load <= loads

(* What may be left of a request: of a snapshot, of a load-html, or plain   *)
(* steps only.                                                              *)
SnapshotRest ==
  { <<"capture", "store">>, <<"capture", "use", "store">>, <<"use", "store">>, <<"store">> }
LoadRest == { <<"setContent", "record">>, <<"record">> }
Shaped(steps) == steps \in SnapshotRest \/ steps \in LoadRest \/ steps \in Seq(PlainStep)

(* A snapshot that nothing has overtaken still works on its tab's frame,    *)
(* and what it has captured is of that frame; in the main frame it is of    *)
(* the document the tab shows.                                              *)
Captured(r) ==
  r.todo \in SnapshotRest /\ r.sess = sess /\ ~r.over =>
    /\ r.target = frame[r.tab] /\ r.page = r.tab
    /\ r.target = NoFrame \/ IsAttached(r.target)
    /\ r.at # NoRefs => /\ r.at.frame = r.target
                        /\ r.target = NoFrame => r.at.doc = doc[r.tab]
(* A load-html about to record its HTML that nothing has overtaken: the tab *)
(* shows it.                                                                *)
Taken(r) == r.todo = <<"record">> /\ r.sess = sess /\ ~r.over => shown[r.tab] = r.load

InStep(r) ==
  /\ r.sess <= sess /\ r.load <= loads
  /\ r.todo # <<>> => r.tab \in Tab /\ r.page \in Tab /\ Shaped(r.todo)
  /\ Captured(r) /\ Taken(r)

CmdInv == cmd \in [Cmd -> PageRequest] /\ \A c \in Cmd : InStep(cmd[c])

PageInv == PageTypes /\ CmdInv /\ RefsMatchContext /\ ReplayIsCurrent
(* A request with only plain steps left is neither a snapshot nor a load-   *)
(* html at work,                                                            *)
LEMMA PlainIsPlain ==
  ASSUME NEW steps \in Seq(PlainStep)
  PROVE  steps \notin SnapshotRest /\ steps \notin LoadRest
<1>1. \A i \in 1..Len(steps) : steps[i] \in PlainStep
  OBVIOUS
<1>2. \A s \in {"capture", "store", "setContent", "record"} : s \notin PlainStep
  BY DEF PlainStep
<1>3. steps # <<"capture", "store">>
  <2>1. ASSUME steps = <<"capture", "store">> PROVE FALSE
    <3>1. 1 \in 1..Len(steps) /\ steps[1] = "capture"
      BY <2>1
    <3>2. QED
      BY <3>1, <1>1, <1>2
  <2>2. QED
    BY <2>1
<1>4. steps # <<"capture", "use", "store">>
  <2>1. ASSUME steps = <<"capture", "use", "store">> PROVE FALSE
    <3>1. 1 \in 1..Len(steps) /\ steps[1] = "capture"
      BY <2>1
    <3>2. QED
      BY <3>1, <1>1, <1>2
  <2>2. QED
    BY <2>1
<1>5. steps # <<"use", "store">>
  <2>1. ASSUME steps = <<"use", "store">> PROVE FALSE
    <3>1. 2 \in 1..Len(steps) /\ steps[2] = "store"
      BY <2>1
    <3>2. QED
      BY <3>1, <1>1, <1>2
  <2>2. QED
    BY <2>1
<1>6. steps # <<"store">>
  <2>1. ASSUME steps = <<"store">> PROVE FALSE
    <3>1. 1 \in 1..Len(steps) /\ steps[1] = "store"
      BY <2>1
    <3>2. QED
      BY <3>1, <1>1, <1>2
  <2>2. QED
    BY <2>1
<1>7. steps # <<"setContent", "record">>
  <2>1. ASSUME steps = <<"setContent", "record">> PROVE FALSE
    <3>1. 1 \in 1..Len(steps) /\ steps[1] = "setContent"
      BY <2>1
    <3>2. QED
      BY <3>1, <1>1, <1>2
  <2>2. QED
    BY <2>1
<1>8. steps # <<"record">>
  <2>1. ASSUME steps = <<"record">> PROVE FALSE
    <3>1. 1 \in 1..Len(steps) /\ steps[1] = "record"
      BY <2>1
    <3>2. QED
      BY <3>1, <1>1, <1>2
  <2>2. QED
    BY <2>1
<1>9. QED
  BY <1>3, <1>4, <1>5, <1>6, <1>7, <1>8 DEF SnapshotRest, LoadRest

(* Lines of one, two and three steps.                                       *)
LEMMA ShortLines ==
  ASSUME NEW S
  PROVE  /\ \A a \in S : <<a>> \in Seq(S)
         /\ \A a, b \in S : <<a, b>> \in Seq(S)
         /\ \A a, b, d \in S : <<a, b, d>> \in Seq(S)
         /\ \A a, b, d, e \in S : <<a, b, d, e>> \in Seq(S)
         /\ \A a, b, d, e, f \in S : <<a, b, d, e, f>> \in Seq(S)
         /\ \A a, b, d, e, f, g \in S : <<a, b, d, e, f, g>> \in Seq(S)
         /\ \A a, b, d, e, f, g, h \in S : <<a, b, d, e, f, g, h>> \in Seq(S)
  OBVIOUS

SpecialLines == { <<"target", "capture", "store">>, <<"target", "capture", "use", "store">>,
                  <<"file", "setContent", "record">> }

(* and so is every command but those two.                                   *)
LEMMA LinesArePlain ==
  ASSUME NEW line \in Lines
  PROVE  line \in SpecialLines \/ line \in Seq(PlainStep)
<1>1. line \in LoadHtmlCmd \cup SnapshotCmd => line \in SpecialLines
  BY DEF LoadHtmlCmd, SnapshotCmd, SpecialLines
<1>3. /\ <<"recreate">> \in Seq(PlainStep)
      /\ <<"leaveFrame">> \in Seq(PlainStep)
      /\ <<"loadState">> \in Seq(PlainStep)
      /\ <<"forget", "go">> \in Seq(PlainStep)
      /\ <<"target", "use">> \in Seq(PlainStep)
      /\ <<"page", "usePage">> \in Seq(PlainStep)
      /\ <<"meta", "usePage">> \in Seq(PlainStep)
      /\ <<"forget", "validate", "go">> \in Seq(PlainStep)
      /\ <<"ref", "count", "use">> \in Seq(PlainStep)
      /\ <<"page", "usePage", "usePage">> \in Seq(PlainStep)
      /\ <<"pause", "activeTarget", "use">> \in Seq(PlainStep)
      /\ <<"metaRef", "count", "use">> \in Seq(PlainStep)
      /\ <<"meta", "findFrame", "enterFrame">> \in Seq(PlainStep)
      /\ <<"target", "use", "pause", "use">> \in Seq(PlainStep)
      /\ <<"metaRef", "count", "findFrame", "enterFrame">> \in Seq(PlainStep)
      /\ <<"ref", "count", "use", "activePage", "usePage">> \in Seq(PlainStep)
      /\ <<"pause", "activeTarget", "use", "activePage", "usePage">> \in Seq(PlainStep)
      /\ <<"ref", "count", "use", "ref", "count", "use">> \in Seq(PlainStep)
      /\ <<"ref", "count", "use", "pause", "activeRef", "count", "use">> \in Seq(PlainStep)
      /\ <<"meta", "validate", "go", "usePage", "validate", "go", "usePage">> \in Seq(PlainStep)
  <2>1. <<"recreate">> \in Seq(PlainStep)
    BY ShortLines DEF PlainStep
  <2>2. <<"leaveFrame">> \in Seq(PlainStep)
    BY ShortLines DEF PlainStep
  <2>3. <<"loadState">> \in Seq(PlainStep)
    BY ShortLines DEF PlainStep
  <2>4. <<"forget", "go">> \in Seq(PlainStep)
    BY ShortLines DEF PlainStep
  <2>5. <<"target", "use">> \in Seq(PlainStep)
    BY ShortLines DEF PlainStep
  <2>6. <<"page", "usePage">> \in Seq(PlainStep)
    BY ShortLines DEF PlainStep
  <2>7. <<"meta", "usePage">> \in Seq(PlainStep)
    BY ShortLines DEF PlainStep
  <2>8. <<"forget", "validate", "go">> \in Seq(PlainStep)
    BY ShortLines DEF PlainStep
  <2>9. <<"ref", "count", "use">> \in Seq(PlainStep)
    BY ShortLines DEF PlainStep
  <2>10. <<"page", "usePage", "usePage">> \in Seq(PlainStep)
    BY ShortLines DEF PlainStep
  <2>11. <<"pause", "activeTarget", "use">> \in Seq(PlainStep)
    BY ShortLines DEF PlainStep
  <2>12. <<"metaRef", "count", "use">> \in Seq(PlainStep)
    BY ShortLines DEF PlainStep
  <2>13. <<"meta", "findFrame", "enterFrame">> \in Seq(PlainStep)
    BY ShortLines DEF PlainStep
  <2>14. <<"target", "use", "pause", "use">> \in Seq(PlainStep)
    BY ShortLines DEF PlainStep
  <2>15. <<"metaRef", "count", "findFrame", "enterFrame">> \in Seq(PlainStep)
    BY ShortLines DEF PlainStep
  <2>16. <<"ref", "count", "use", "activePage", "usePage">> \in Seq(PlainStep)
    BY ShortLines DEF PlainStep
  <2>17. <<"pause", "activeTarget", "use", "activePage", "usePage">> \in Seq(PlainStep)
    BY ShortLines DEF PlainStep
  <2>18. <<"ref", "count", "use", "ref", "count", "use">> \in Seq(PlainStep)
    BY ShortLines DEF PlainStep
  <2>19. <<"ref", "count", "use", "pause", "activeRef", "count", "use">> \in Seq(PlainStep)
    BY ShortLines DEF PlainStep
  <2>20. <<"meta", "validate", "go", "usePage", "validate", "go", "usePage">> \in Seq(PlainStep)
    BY ShortLines DEF PlainStep
  <2>21. QED
    BY <2>1, <2>2, <2>3, <2>4, <2>5, <2>6, <2>7, <2>8, <2>9, <2>10, <2>11, <2>12, <2>13, <2>14,
       <2>15, <2>16, <2>17, <2>18, <2>19, <2>20
<1>4. line \in GotoCmd \cup BackCmd \cup ClickCmd \cup FillCmd \cup SelectCmd \cup HoverCmd \cup
              KeysCmd \cup ScrollCmd \cup WaitCmd
        => line \in Seq(PlainStep)
  BY <1>3 DEF OnSelector, GotoCmd, BackCmd, ClickCmd, FillCmd, SelectCmd, HoverCmd, KeysCmd,
     ScrollCmd, WaitCmd
<1>5. line \in UploadCmd \cup ViewportCmd \cup UserAgentCmd \cup CookieCmd \cup CookieImportCmd \cup
              CleanupCmd \cup DownloadCmd \cup ScrapeCmd \cup ArchiveCmd
        => line \in Seq(PlainStep)
  BY <1>3 DEF OnSelector, UploadCmd, ViewportCmd, UserAgentCmd, CookieCmd, CookieImportCmd,
     CleanupCmd, DownloadCmd, ScrapeCmd, ArchiveCmd
<1>6. line \in TextCmd \cup HtmlCmd \cup ListingCmd \cup JsCmd \cup CssCmd \cup AttrsCmd \cup IsCmd
              \cup StorageCmd \cup PerfCmd
        => line \in Seq(PlainStep)
  BY <1>3 DEF OnSelector, TextCmd, HtmlCmd, ListingCmd, JsCmd, CssCmd, AttrsCmd, IsCmd, StorageCmd,
     PerfCmd
<1>7. line \in MediaCmd \cup DataCmd \cup ScreenshotCmd \cup PdfCmd \cup DiffCmd \cup FrameCmd \cup
              StateLoadCmd \cup UxAuditCmd
        => line \in Seq(PlainStep)
  BY <1>3 DEF OnSelector, MediaCmd, DataCmd, ScreenshotCmd, PdfCmd, DiffCmd, FrameCmd, StateLoadCmd,
     UxAuditCmd
<1>8. QED
  BY <1>1, <1>4, <1>5, <1>6, <1>7 DEF Lines

(* What is left of a snapshot, before and after its next step.              *)
LEMMA StepsOfSnapshot ==
  ASSUME NEW steps \in SnapshotRest
  PROVE  /\ steps \in Seq(PageStep) /\ steps # <<>>
         /\ Head(steps) \in {"capture", "use", "store"}
         /\ Head(steps) \in {"capture", "use"} => Tail(steps) \in SnapshotRest /\ Len(steps) # 1
         /\ Head(steps) = "store" => Len(steps) = 1
<1>1. CASE steps = <<"capture", "store">>
  <2>1. Head(steps) = "capture" /\ Len(steps) = 2 /\ Tail(steps) = <<"store">>
    BY <1>1
  <2>2. steps \in Seq(PageStep) /\ steps # <<>>
    BY <1>1, ShortLines DEF PageStep, PlainStep
  <2>3. QED
    BY <2>1, <2>2 DEF SnapshotRest
<1>2. CASE steps = <<"capture", "use", "store">>
  <2>1. Head(steps) = "capture" /\ Len(steps) = 3 /\ Tail(steps) = <<"use", "store">>
    BY <1>2
  <2>2. steps \in Seq(PageStep) /\ steps # <<>>
    BY <1>2, ShortLines DEF PageStep, PlainStep
  <2>3. QED
    BY <2>1, <2>2 DEF SnapshotRest
<1>3. CASE steps = <<"use", "store">>
  <2>1. Head(steps) = "use" /\ Len(steps) = 2 /\ Tail(steps) = <<"store">>
    BY <1>3
  <2>2. steps \in Seq(PageStep) /\ steps # <<>>
    BY <1>3, ShortLines DEF PageStep, PlainStep
  <2>3. QED
    BY <2>1, <2>2 DEF SnapshotRest
<1>4. CASE steps = <<"store">>
  <2>1. Head(steps) = "store" /\ Len(steps) = 1
    BY <1>4
  <2>2. steps \in Seq(PageStep) /\ steps # <<>>
    BY <1>4, ShortLines DEF PageStep, PlainStep
  <2>3. QED
    BY <2>1, <2>2 DEF SnapshotRest
<1>5. QED
  BY <1>1, <1>2, <1>3, <1>4 DEF SnapshotRest

(* What is left of a load-html.                                             *)
LEMMA StepsOfLoad ==
  ASSUME NEW steps \in LoadRest
  PROVE  /\ steps \in Seq(PageStep) /\ steps # <<>> /\ steps \notin SnapshotRest
         /\ Head(steps) \in {"setContent", "record"}
         /\ Head(steps) = "setContent" => Tail(steps) = <<"record">> /\ Len(steps) # 1
         /\ Head(steps) = "record" => steps = <<"record">> /\ Len(steps) = 1
<1>1. CASE steps = <<"setContent", "record">>
  <2>1. Head(steps) = "setContent" /\ Len(steps) = 2 /\ Tail(steps) = <<"record">>
    BY <1>1
  <2>2. steps \in Seq(PageStep) /\ steps # <<>>
    BY <1>1, ShortLines DEF PageStep, PlainStep
  <2>3. steps \notin SnapshotRest
    BY <1>1 DEF SnapshotRest
  <2>4. QED
    BY <1>1, <2>1, <2>2, <2>3
<1>2. CASE steps = <<"record">>
  <2>1. Head(steps) = "record" /\ Len(steps) = 1
    BY <1>2
  <2>2. steps \in Seq(PageStep) /\ steps # <<>>
    BY <1>2, ShortLines DEF PageStep, PlainStep
  <2>3. steps \notin SnapshotRest
    BY <1>2 DEF SnapshotRest
  <2>4. QED
    BY <1>2, <2>1, <2>2, <2>3
<1>3. QED
  BY <1>1, <1>2 DEF LoadRest

(* What is left of the others.                                              *)
LEMMA StepsOfPlain ==
  ASSUME NEW steps \in Seq(PlainStep), steps # <<>>
  PROVE  /\ steps \in Seq(PageStep) /\ Head(steps) \in PlainStep /\ Tail(steps) \in Seq(PlainStep)
         /\ Len(steps) # 1 => Tail(steps) # <<>>
         /\ steps \notin SnapshotRest /\ steps \notin LoadRest
         /\ Tail(steps) \notin SnapshotRest /\ Tail(steps) \notin LoadRest
<1>1. Head(steps) \in PlainStep /\ Tail(steps) \in Seq(PlainStep) /\ Len(Tail(steps)) = Len(steps) - 1
  BY HeadTailProperties
<1>2. Len(steps) # 1 => Tail(steps) # <<>>
  <2>1. Tail(steps) = <<>> => Len(Tail(steps)) = 0
    BY EmptySeq
  <2>2. QED
    BY <1>1, <2>1, LenProperties
<1>3. steps \in Seq(PageStep)
  BY SeqMonotonic DEF PageStep
<1>4. steps \notin SnapshotRest /\ steps \notin LoadRest
  BY PlainIsPlain
<1>5. Tail(steps) \notin SnapshotRest /\ Tail(steps) \notin LoadRest
  BY <1>1, PlainIsPlain
<1>6. QED
  BY <1>1, <1>2, <1>3, <1>4, <1>5

(* Every command begins as one of the three.                                *)
LEMMA LinesAreShaped ==
  ASSUME NEW line \in Lines, Len(line) > 1
  PROVE  /\ Tail(line) \in Seq(PageStep) /\ Tail(line) # <<>> /\ Shaped(Tail(line))
         /\ Tail(line) \in SnapshotRest => Head(line) = "target"
         /\ Tail(line) # <<"record">>
<1>1. CASE line \in Seq(PlainStep)
  <2>1. line # <<>> /\ Tail(line) \in Seq(PlainStep) /\ Len(Tail(line)) = Len(line) - 1
    BY <1>1, HeadTailProperties
  <2>2. Tail(line) # <<>> /\ Tail(line) \in Seq(PageStep)
    BY <2>1, SeqMonotonic DEF PageStep
  <2>3. Tail(line) \notin SnapshotRest /\ Tail(line) \notin LoadRest
    BY <2>1, PlainIsPlain
  <2>4. QED
    BY <2>1, <2>2, <2>3 DEF Shaped, LoadRest
<1>2. CASE line = <<"target", "capture", "store">>
  <2>1. Head(line) = "target" /\ Tail(line) = <<"capture", "store">>
    BY <1>2
  <2>2. Tail(line) \in SnapshotRest /\ Tail(line) # <<"record">>
    BY <2>1 DEF SnapshotRest
  <2>3. QED
    BY <2>1, <2>2, StepsOfSnapshot DEF Shaped
<1>3. CASE line = <<"target", "capture", "use", "store">>
  <2>1. Head(line) = "target" /\ Tail(line) = <<"capture", "use", "store">>
    BY <1>3
  <2>2. Tail(line) \in SnapshotRest /\ Tail(line) # <<"record">>
    BY <2>1 DEF SnapshotRest
  <2>3. QED
    BY <2>1, <2>2, StepsOfSnapshot DEF Shaped
<1>4. CASE line = <<"file", "setContent", "record">>
  <2>1. Tail(line) = <<"setContent", "record">>
    BY <1>4
  <2>2. Tail(line) \in LoadRest /\ Tail(line) # <<"record">>
    BY <2>1 DEF LoadRest
  <2>3. QED
    BY <2>1, <2>2, StepsOfLoad DEF Shaped
<1>5. QED
  BY <1>1, <1>2, <1>3, <1>4, LinesArePlain DEF SpecialLines

(* A request that works on tab t, in its frame or with a frame of it as     *)
(* target, has been overtaken by a change of it.                            *)
Marked(q, t) == IF q.todo # <<>> /\ t \in {q.tab, q.target.tab} THEN [q EXCEPT !.over = TRUE] ELSE q

(* A request with plain steps left has nothing to agree with the tab on.    *)
LEMMA PlainInStep ==
  ASSUME NEW q \in PageRequest, q.todo \in Seq(PlainStep),
         q.todo # <<>> => q.tab \in Tab /\ q.page \in Tab,
         q.sess <= sess', q.load <= loads'
  PROVE  InStep(q)'
<1>1. q.todo \notin SnapshotRest /\ q.todo \notin LoadRest
  BY PlainIsPlain
<1>2. Captured(q)'
  BY <1>1 DEF Captured
<1>3. Taken(q)'
  BY <1>1 DEF Taken, LoadRest
<1>4. QED
  BY <1>2, <1>3 DEF InStep, Shaped

(* It has plain steps left, or none, after the next one.                    *)
LEMMA PlainAfter ==
  ASSUME NEW q \in PageRequest, q.todo # <<>>, q.todo \in Seq(PlainStep), q.tab \in Tab, q.page \in Tab
  PROVE  /\ After(q) \in PageRequest /\ After(q).todo \in Seq(PlainStep)
         /\ After(q).todo # <<>> => After(q).tab \in Tab /\ After(q).page \in Tab
         /\ After(q).sess <= q.sess /\ After(q).load <= q.load
<1>0. NoCmd \in PageRequest
  <2>1. <<>> \in Seq(PageStep)
    BY EmptySeq
  <2>2. NoFrame \in Frame
    BY DEF Frame
  <2>3. 0 \in 0..MaxDocs /\ 0 \in 0..MaxLoads /\ 0 \in Nat
    BY PageAssumption
  <2>4. NoRefs \in Refs
    BY <2>2, <2>3 DEF NoRefs, Refs
  <2>5. QED
    BY <2>1, <2>2, <2>3, <2>4 DEF NoCmd, PageRequest
<1>1. CASE Len(q.todo) = 1
  <2>1. After(q) = NoCmd
    BY <1>1 DEF After
  <2>2. NoCmd.todo = <<>> /\ NoCmd.sess = 0 /\ NoCmd.load = 0
    BY DEF NoCmd
  <2>3. <<>> \in Seq(PlainStep)
    BY EmptySeq
  <2>4. 0 <= q.sess /\ 0 <= q.load
    BY PageAssumption DEF PageRequest
  <2>5. QED
    BY <1>0, <2>1, <2>2, <2>3, <2>4
<1>2. CASE Len(q.todo) # 1
  <2>1. After(q) = [q EXCEPT !.todo = Tail(@)]
    BY <1>2 DEF After
  <2>2. Tail(q.todo) \in Seq(PlainStep) /\ Tail(q.todo) \in Seq(PageStep)
    BY StepsOfPlain, SeqMonotonic DEF PageStep
  <2>3. After(q) \in PageRequest /\ After(q).todo = Tail(q.todo) /\ After(q).tab = q.tab
        /\ After(q).page = q.page /\ After(q).sess = q.sess /\ After(q).load = q.load
    BY <2>1, <2>2 DEF PageRequest
  <2>4. QED
    BY <2>2, <2>3 DEF PageRequest
<1>3. QED
  BY <1>1, <1>2

(* A request whose next step is plain has only plain steps left.            *)
LEMMA PlainByHead ==
  ASSUME NEW q \in PageRequest, q.todo # <<>>, Shaped(q.todo),
         Head(q.todo) \notin {"capture", "use", "store", "setContent", "record"}
  PROVE  q.todo \in Seq(PlainStep)
BY StepsOfSnapshot, StepsOfLoad DEF Shaped

(* A request agrees with its tab as long as nothing it looks at changes.    *)
LEMMA Unmoved ==
  ASSUME NEW q \in PageRequest, InStep(q),
         sess' = sess, loads <= loads', loads \in Nat, loads' \in Nat,
         UNCHANGED <<doc, shown, inner, frame>>
  PROVE  InStep(q)'
<1>1. Captured(q)'
  BY DEF InStep, Captured, IsAttached, FrameOf
<1>2. Taken(q)'
  BY DEF InStep, Taken
<1>3. q.sess <= sess' /\ q.load <= loads'
  BY DEF InStep, PageRequest
<1>4. QED
  BY <1>1, <1>2, <1>3 DEF InStep

(* A request at tab t is marked as overtaken and has nothing to agree on;   *)
(* the others see no change.                                                *)
LEMMA OvertakenInStep ==
  ASSUME NEW q \in PageRequest, InStep(q), NEW t \in Tab,
         sess' = sess, loads <= loads', loads \in Nat, loads' \in Nat,
         \A u \in Tab \ {t} : /\ doc'[u] = doc[u] /\ shown'[u] = shown[u] /\ inner'[u] = inner[u]
                              /\ frame'[u] = frame[u]
  PROVE  InStep(Marked(q, t))' /\ Marked(q, t) \in PageRequest
<1>1. q.sess <= sess' /\ q.load <= loads'
  BY DEF InStep, PageRequest
<1>2. CASE q.todo # <<>> /\ t \in {q.tab, q.target.tab}
  <2>1. PICK p : p = [q EXCEPT !.over = TRUE]
    OBVIOUS
  <2>2. /\ p \in PageRequest /\ p.over = TRUE /\ p.todo = q.todo /\ p.tab = q.tab /\ p.page = q.page
        /\ p.sess = q.sess /\ p.load = q.load
    BY <2>1 DEF PageRequest
  <2>3. Marked(q, t) = p
    BY <1>2, <2>1 DEF Marked
  <2>4. Captured(p)' /\ Taken(p)'
    BY <2>2 DEF Captured, Taken
  <2>5. InStep(p)'
    BY <1>1, <2>2, <2>4 DEF InStep
  <2>6. QED
    BY <2>2, <2>3, <2>5
<1>3. CASE ~(q.todo # <<>> /\ t \in {q.tab, q.target.tab})
  <2>1. Marked(q, t) = q
    BY <1>3 DEF Marked
  <2>2. Captured(q)'
    <3>1. SUFFICES ASSUME q.todo \in SnapshotRest, q.sess = sess', ~q.over
                   PROVE  /\ q.target = frame'[q.tab] /\ q.page = q.tab
                          /\ q.target = NoFrame \/ IsAttached(q.target)'
                          /\ q.at # NoRefs => /\ q.at.frame = q.target
                                              /\ q.target = NoFrame => q.at.doc = doc'[q.tab]
      BY DEF Captured
    <3>2. q.todo # <<>> /\ q.tab \in Tab \ {t} /\ q.target.tab # t
      BY <1>3, <3>1, StepsOfSnapshot DEF InStep
    <3>3. frame'[q.tab] = frame[q.tab] /\ doc'[q.tab] = doc[q.tab]
      BY <3>2
    <3>4. /\ q.target = frame[q.tab] /\ q.page = q.tab
          /\ q.target = NoFrame \/ IsAttached(q.target)
          /\ q.at # NoRefs => /\ q.at.frame = q.target
                              /\ q.target = NoFrame => q.at.doc = doc[q.tab]
      BY <3>1 DEF InStep, Captured
    <3>5. ASSUME q.target # NoFrame PROVE IsAttached(q.target)'
      <4>1. q.target.tab \in Tab \ {t}
        BY <3>2, <3>5 DEF PageRequest, Frame
      <4>2. IsAttached(q.target)
        BY <3>4, <3>5
      <4>3. QED
        BY <4>1, <4>2, <3>5 DEF IsAttached, FrameOf
    <3>6. QED
      BY <3>3, <3>4, <3>5
  <2>3. Taken(q)'
    <3>1. SUFFICES ASSUME q.todo = <<"record">>, q.sess = sess', ~q.over
                   PROVE  shown'[q.tab] = q.load
      BY DEF Taken
    <3>2. q.tab \in Tab \ {t}
      BY <1>3, <3>1 DEF InStep
    <3>3. QED
      BY <3>1, <3>2 DEF InStep, Taken
  <2>4. QED
    BY <1>1, <2>1, <2>2, <2>3 DEF InStep
<1>4. QED
  BY <1>2, <1>3

(* A request stays in step when a tab whose frame is gone goes back to its  *)
(* main frame.                                                              *)
LEMMA RecoveredInStep ==
  ASSUME NEW q \in PageRequest, InStep(q), NEW t \in Tab, Recovers(t),
         frame \in [Tab -> Frame], loads \in Nat,
         UNCHANGED <<sess, loads, doc, shown, inner>>
  PROVE  InStep(q)'
<1>1. Captured(q)'
  <2>1. SUFFICES ASSUME q.todo \in SnapshotRest, q.sess = sess, ~q.over
                 PROVE  Captured(q)'
    BY DEF Captured
  <2>2. q.target = frame[q.tab] /\ (q.target = NoFrame \/ IsAttached(q.target)) /\ q.tab \in Tab
    BY <2>1, StepsOfSnapshot DEF InStep, Captured
  <2>3. frame'[q.tab] = frame[q.tab]
    BY <2>2 DEF Recovers
  <2>4. QED
    BY <2>3 DEF InStep, Captured, IsAttached, FrameOf
<1>2. Taken(q)'
  BY DEF InStep, Taken
<1>3. QED
  BY <1>1, <1>2 DEF InStep

(* One request moves.                                                       *)
LEMMA OneMoves ==
  ASSUME CmdInv, NEW c \in Cmd, NEW p \in PageRequest, InStep(p)',
         cmd' = [cmd EXCEPT ![c] = p],
         \A q \in PageRequest : InStep(q) => InStep(q)'
  PROVE  CmdInv'
<1>1. cmd' \in [Cmd -> PageRequest]
  BY DEF CmdInv
<1>2. ASSUME NEW d \in Cmd PROVE InStep(cmd[d])'
  <2>1. PICK q \in PageRequest : q = cmd[d] /\ InStep(q)
    BY DEF CmdInv
  <2>2. CASE d = c
    <3>1. cmd'[d] = p
      BY <2>2 DEF CmdInv
    <3>2. QED
      BY <3>1 DEF InStep, Captured, Taken, IsAttached, FrameOf
  <2>3. CASE d # c
    <3>1. cmd'[d] = q
      BY <2>1, <2>3 DEF CmdInv
    <3>2. InStep(q)'
      BY <2>1
    <3>3. QED
      BY <3>1, <3>2 DEF InStep, Captured, Taken, IsAttached, FrameOf
  <2>4. QED
    BY <2>2, <2>3
<1>3. QED
  BY <1>1, <1>2 DEF CmdInv

(* One moves, and what it does overtakes the others at its tab.             *)
LEMMA OthersOvertaken ==
  ASSUME CmdInv, NEW t \in Tab, NEW c \in Cmd, NEW p \in PageRequest, InStep(p)',
         cmd' = [Overtakes(t) EXCEPT ![c] = p],
         \A q \in PageRequest : InStep(q) => InStep(Marked(q, t))' /\ Marked(q, t) \in PageRequest
  PROVE  CmdInv'
<1>1. ASSUME NEW d \in Cmd PROVE cmd'[d] \in PageRequest /\ InStep(cmd[d])'
  <2>1. PICK q \in PageRequest : q = cmd[d] /\ InStep(q)
    BY DEF CmdInv
  <2>2. CASE d = c
    <3>1. cmd'[d] = p
      BY <2>2 DEF Overtakes
    <3>2. QED
      BY <3>1 DEF InStep, Captured, Taken, IsAttached, FrameOf
  <2>3. CASE d # c
    <3>1. cmd'[d] = Marked(q, t)
      BY <2>1, <2>3 DEF Overtakes, Marked
    <3>2. InStep(Marked(q, t))' /\ Marked(q, t) \in PageRequest
      BY <2>1
    <3>3. QED
      BY <3>1, <3>2 DEF InStep, Captured, Taken, IsAttached, FrameOf
  <2>4. QED
    BY <2>2, <2>3
<1>2. cmd' \in [Cmd -> PageRequest]
  <2>1. DOMAIN cmd' = Cmd /\ cmd' = [d \in Cmd |-> cmd'[d]]
    BY DEF Overtakes
  <2>2. QED
    BY <1>1, <2>1
<1>3. QED
  BY <1>1, <1>2 DEF CmdInv

(* Something that is no request overtakes all those at a tab.               *)
LEMMA AllOvertaken ==
  ASSUME CmdInv, NEW t \in Tab, cmd' = Overtakes(t),
         \A q \in PageRequest : InStep(q) => InStep(Marked(q, t))' /\ Marked(q, t) \in PageRequest
  PROVE  CmdInv'
<1>1. ASSUME NEW d \in Cmd PROVE cmd'[d] \in PageRequest /\ InStep(cmd[d])'
  <2>1. PICK q \in PageRequest : q = cmd[d] /\ InStep(q)
    BY DEF CmdInv
  <2>2. cmd'[d] = Marked(q, t)
    BY <2>1 DEF Overtakes, Marked
  <2>3. InStep(Marked(q, t))' /\ Marked(q, t) \in PageRequest
    BY <2>1
  <2>4. QED
    BY <2>2, <2>3 DEF InStep, Captured, Taken, IsAttached, FrameOf
<1>2. cmd' \in [Cmd -> PageRequest]
  BY <1>1 DEF Overtakes
<1>3. QED
  BY <1>1, <1>2 DEF CmdInv

(* A request that has a next step is at work.                               *)
LEMMA AtWork ==
  ASSUME PageInv, NEW c \in Cmd, cmd[c].todo # <<>>
  PROVE  \E r \in PageRequest :
            /\ r = cmd[c] /\ InStep(r) /\ r.todo # <<>> /\ Shaped(r.todo)
            /\ r.tab \in Tab /\ r.page \in Tab /\ r.sess <= sess /\ r.load <= loads
BY DEF PageInv, CmdInv, InStep

(* A plain step that changes nothing of the page,                           *)
LEMMA PlainQuiet ==
  ASSUME PageInv, NEW c \in Cmd, NEW q \in PageRequest,
         q.todo # <<>>, q.todo \in Seq(PlainStep), q.tab \in Tab, q.page \in Tab,
         q.sess <= sess, q.load <= loads, Advances(c, q),
         UNCHANGED <<activeTabId, sess, browserVars, sessionVars, loads>>
  PROVE  PageInv'
<1> USE DEF browserVars, sessionVars
<1>0. loads \in Nat /\ sess \in Nat
  BY PageAssumption DEF PageInv, PageTypes
<1>1. PICK p : p = After(q)
  OBVIOUS
<1>2. /\ p \in PageRequest /\ p.todo \in Seq(PlainStep)
      /\ p.todo # <<>> => p.tab \in Tab /\ p.page \in Tab
  BY <1>1, PlainAfter
<1>3. p.sess <= sess' /\ p.load <= loads'
  <2>1. p.sess <= q.sess /\ p.load <= q.load
    BY <1>1, PlainAfter
  <2>2. p.sess \in Nat /\ q.sess \in Nat /\ p.load \in Int /\ q.load \in Int
    BY <1>2, PageAssumption DEF PageRequest
  <2>3. QED
    BY <1>0, <2>1, <2>2
<1>4. InStep(p)'
  BY <1>2, <1>3, PlainInStep
<1>5. \A s \in PageRequest : InStep(s) => InStep(s)'
  BY <1>0, Unmoved
<1>6. CmdInv'
  BY <1>1, <1>2, <1>4, <1>5, OneMoves DEF Advances, PageInv
<1>7. PageTypes' /\ RefsMatchContext' /\ ReplayIsCurrent'
  BY DEF PageInv, PageTypes, RefsMatchContext, ReplayIsCurrent
<1>8. QED
  BY <1>6, <1>7 DEF PageInv

(* which is what most of them are.                                          *)
LEMMA PlainSteps ==
  ASSUME PageInv, NEW c \in Cmd,
         \/ Counts(c) \/ LooksUpAgain(c) \/ LooksUpInActive(c) \/ UsesPage(c) \/ Passes(c)
         \/ TakesActivePage(c) \/ FindsFrame(c)
  PROVE  PageInv'
<1>0. cmd[c].todo # <<>>
  BY DEF Counts, LooksUpAgain, LooksUpInActive, UsesPage, Passes, TakesActivePage, FindsFrame, IsAt
<1>1. PICK r \in PageRequest :
        /\ r = cmd[c] /\ InStep(r) /\ r.todo # <<>> /\ Shaped(r.todo)
        /\ r.tab \in Tab /\ r.page \in Tab /\ r.sess <= sess /\ r.load <= loads
  BY <1>0, AtWork
<1>2. Head(r.todo) \notin {"capture", "use", "store", "setContent", "record"}
  BY <1>1 DEF Counts, LooksUpAgain, LooksUpInActive, UsesPage, Passes, TakesActivePage, FindsFrame,
     IsAt, StepOf
<1>3. r.todo \in Seq(PlainStep)
  BY <1>1, <1>2, PlainByHead
<1>4. CASE Counts(c) \/ UsesPage(c) \/ Passes(c)
  BY <1>1, <1>3, <1>4, PlainQuiet DEF Counts, UsesPage, Passes
<1>5. ASSUME NEW t \in Tab, LooksUp(c, t) PROVE PageInv'
  <2>1. PICK q : q = [r EXCEPT !.page = t, !.target = refs[t].frame]
    OBVIOUS
  <2>2. refs[t].frame \in Frame
    BY DEF PageInv, PageTypes, Refs
  <2>3. q \in PageRequest /\ q.todo = r.todo /\ q.tab = r.tab /\ q.page = t /\ q.sess = r.sess
        /\ q.load = r.load
    BY <2>1, <2>2 DEF PageRequest
  <2>4. Advances(c, q)
    BY <1>1, <1>5, <2>1 DEF LooksUp
  <2>5. QED
    BY <1>1, <1>3, <1>5, <2>3, <2>4, PlainQuiet DEF LooksUp
<1>6. CASE LooksUpAgain(c) \/ LooksUpInActive(c)
  <2>1. activeTabId \in Tab
    BY DEF PageInv, PageTypes
  <2>2. QED
    BY <1>1, <1>5, <1>6, <2>1 DEF LooksUpAgain, LooksUpInActive
<1>7. CASE TakesActivePage(c)
  <2>1. PICK q : q = [r EXCEPT !.page = activeTabId]
    OBVIOUS
  <2>2. activeTabId \in Tab
    BY DEF PageInv, PageTypes
  <2>3. q \in PageRequest /\ q.todo = r.todo /\ q.tab = r.tab /\ q.page = activeTabId
        /\ q.sess = r.sess /\ q.load = r.load
    BY <2>1, <2>2 DEF PageRequest
  <2>4. QED
    BY <1>1, <1>3, <1>7, <2>1, <2>2, <2>3, PlainQuiet DEF TakesActivePage
<1>8. CASE FindsFrame(c)
  <2>1. PICK q : q = [r EXCEPT !.target = FrameOf(r.page)]
    OBVIOUS
  <2>2. FrameOf(r.page) \in Frame
    <3>1. doc[r.page] \in 1..MaxDocs /\ shown[r.page] \in 0..loads /\ loads \in 0..MaxLoads
      BY <1>1 DEF PageInv, PageTypes
    <3>2. shown[r.page] \in 0..MaxLoads
      BY <3>1, PageAssumption
    <3>3. QED
      BY <1>1, <3>1, <3>2 DEF FrameOf, Frame
  <2>3. q \in PageRequest /\ q.todo = r.todo /\ q.tab = r.tab /\ q.page = r.page
        /\ q.sess = r.sess /\ q.load = r.load
    BY <2>1, <2>2 DEF PageRequest
  <2>4. QED
    BY <1>1, <1>3, <1>8, <2>1, <2>3, PlainQuiet DEF FindsFrame
<1>9. QED
  BY <1>4, <1>6, <1>7, <1>8

(* A request that is over agrees with everything.                           *)
LEMMA NoCmdInStep ==
  ASSUME sess' \in Nat, loads' \in Nat
  PROVE  NoCmd \in PageRequest /\ InStep(NoCmd)'
<1>1. NoCmd \in PageRequest
  <2>1. <<>> \in Seq(PageStep)
    BY EmptySeq
  <2>2. NoFrame \in Frame
    BY DEF Frame
  <2>3. 0 \in 0..MaxDocs /\ 0 \in 0..MaxLoads /\ 0 \in Nat
    BY PageAssumption
  <2>4. NoRefs \in Refs
    BY <2>2, <2>3 DEF NoRefs, Refs
  <2>5. QED
    BY <2>1, <2>2, <2>3, <2>4 DEF NoCmd, PageRequest
<1>2. NoCmd.todo = <<>> /\ NoCmd.sess = 0 /\ NoCmd.load = 0
  BY DEF NoCmd
<1>3. NoCmd.todo \in Seq(PlainStep)
  BY <1>2, EmptySeq
<1>4. NoCmd.sess <= sess' /\ NoCmd.load <= loads'
  BY <1>2
<1>5. QED
  BY <1>1, <1>2, <1>3, <1>4, PlainInStep

(* A step that changes nothing but its own request.                         *)
LEMMA Quiet ==
  ASSUME PageInv, NEW c \in Cmd, NEW p \in PageRequest, InStep(p)', cmd' = [cmd EXCEPT ![c] = p],
         UNCHANGED <<activeTabId, sess, browserVars, sessionVars, loads>>
  PROVE  PageInv'
<1> USE DEF browserVars, sessionVars
<1>0. loads \in Nat
  BY PageAssumption DEF PageInv, PageTypes
<1>1. \A s \in PageRequest : InStep(s) => InStep(s)'
  BY <1>0, Unmoved
<1>2. CmdInv'
  BY <1>1, OneMoves DEF PageInv
<1>3. PageTypes' /\ RefsMatchContext' /\ ReplayIsCurrent'
  BY DEF PageInv, PageTypes, RefsMatchContext, ReplayIsCurrent
<1>4. QED
  BY <1>2, <1>3 DEF PageInv

(* A snapshot after its next step is a snapshot,                            *)
LEMMA SnapshotAfter ==
  ASSUME NEW q \in PageRequest, q.todo \in SnapshotRest, Head(q.todo) \in {"capture", "use"}
  PROVE  /\ After(q) \in PageRequest /\ After(q).todo \in SnapshotRest /\ After(q).todo # <<>>
         /\ After(q).tab = q.tab /\ After(q).page = q.page /\ After(q).target = q.target
         /\ After(q).at = q.at /\ After(q).sess = q.sess /\ After(q).load = q.load
         /\ After(q).over = q.over
<1>1. Tail(q.todo) \in SnapshotRest /\ Len(q.todo) # 1
  BY StepsOfSnapshot
<1>2. Tail(q.todo) \in Seq(PageStep) /\ Tail(q.todo) # <<>>
  BY <1>1, StepsOfSnapshot
<1>3. PICK p : p = [q EXCEPT !.todo = Tail(@)]
  OBVIOUS
<1>4. After(q) = p
  BY <1>1, <1>3 DEF After
<1>5. p \in PageRequest /\ p.todo = Tail(q.todo)
  BY <1>2, <1>3 DEF PageRequest
<1>6. p.tab = q.tab /\ p.page = q.page /\ p.target = q.target /\ p.at = q.at /\ p.sess = q.sess
      /\ p.load = q.load /\ p.over = q.over
  BY <1>3 DEF PageRequest
<1>7. QED
  BY <1>1, <1>2, <1>4, <1>5, <1>6

(* and never a load-html.                                                   *)
LEMMA SnapshotIsNoLoad ==
  ASSUME NEW steps \in SnapshotRest
  PROVE  steps # <<"record">>
BY StepsOfLoad DEF LoadRest

(* A use of the target or of the page.                                      *)
LEMMA UsesStep ==
  ASSUME PageInv, NEW c \in Cmd, Uses(c)
  PROVE  PageInv'
<1>1. PICK r \in PageRequest :
        /\ r = cmd[c] /\ InStep(r) /\ r.todo # <<>> /\ Shaped(r.todo)
        /\ r.tab \in Tab /\ r.page \in Tab /\ r.sess <= sess /\ r.load <= loads
  BY AtWork DEF Uses, IsAt
<1>2. Head(r.todo) = "use"
  BY <1>1 DEF Uses, IsAt, StepOf
<1>3. CASE r.todo \in Seq(PlainStep)
  BY <1>1, <1>3, PlainQuiet DEF Uses
<1>4. CASE r.todo \in SnapshotRest
  <2>1. PICK p : p = After(r)
    OBVIOUS
  <2>2. /\ p \in PageRequest /\ p.todo \in SnapshotRest /\ p.todo # <<>>
        /\ p.tab = r.tab /\ p.page = r.page /\ p.target = r.target
        /\ p.at = r.at /\ p.sess = r.sess /\ p.load = r.load /\ p.over = r.over
    BY <1>2, <1>4, <2>1, SnapshotAfter
  <2>3. Captured(p) /\ Captured(r)
    BY <1>1, <1>4, <2>2 DEF InStep, Captured
  <2>4. Taken(p)
    BY <2>2, SnapshotIsNoLoad DEF Taken
  <2>5. InStep(p)
    BY <1>1, <2>2, <2>3, <2>4 DEF InStep, Shaped
  <2>6. loads \in Nat
    BY PageAssumption DEF PageInv, PageTypes
  <2>7. UNCHANGED <<doc, shown, inner, frame, sess, loads>>
    BY DEF Uses, browserVars, sessionVars
  <2>8. InStep(p)'
    BY <2>2, <2>5, <2>6, <2>7, Unmoved
  <2>9. QED
    BY <1>1, <2>1, <2>2, <2>8, Quiet DEF Uses, Advances
<1>5. QED
  BY <1>1, <1>2, <1>3, <1>4, StepsOfLoad DEF Shaped

(* A snapshot captures the document that its target shows now.              *)
LEMMA CapturesStep ==
  ASSUME PageInv, NEW c \in Cmd, Captures(c)
  PROVE  PageInv'
<1>1. PICK r \in PageRequest :
        /\ r = cmd[c] /\ InStep(r) /\ r.todo # <<>> /\ Shaped(r.todo)
        /\ r.tab \in Tab /\ r.page \in Tab /\ r.sess <= sess /\ r.load <= loads
  BY AtWork DEF Captures, IsAt
<1>2. Head(r.todo) = "capture"
  BY <1>1 DEF Captures, IsAt, StepOf
<1>3. r.todo \in SnapshotRest
  <2>1. "capture" \notin PlainStep
    BY DEF PlainStep
  <2>2. QED
    BY <1>1, <1>2, <2>1, StepsOfLoad, StepsOfPlain DEF Shaped
<1>4. PICK u : u = TargetTab(c)
  OBVIOUS
<1>5. u \in Tab /\ (r.target = NoFrame => u = r.page)
  BY <1>1, <1>4 DEF TargetTab, PageRequest, Frame
<1>6. PICK a : a = [doc |-> doc[u], frame |-> r.target, over |-> FALSE]
  OBVIOUS
<1>7. a \in Refs
  <2>1. doc[u] \in 0..MaxDocs
    BY <1>5, PageAssumption DEF PageInv, PageTypes
  <2>2. r.target \in Frame
    BY DEF PageRequest
  <2>3. QED
    BY <1>6, <2>1, <2>2 DEF Refs
<1>8. PICK q : q = [r EXCEPT !.at = a]
  OBVIOUS
<1>9. q \in PageRequest /\ q.at = a /\ q.todo = r.todo
  BY <1>7, <1>8 DEF PageRequest
<1>10. q.tab = r.tab /\ q.page = r.page /\ q.target = r.target /\ q.sess = r.sess
       /\ q.load = r.load /\ q.over = r.over
  BY <1>8 DEF PageRequest
<1>11. PICK p : p = After(q)
  OBVIOUS
<1>12. /\ p \in PageRequest /\ p.todo \in SnapshotRest /\ p.todo # <<>>
       /\ p.tab = r.tab /\ p.page = r.page /\ p.target = r.target
       /\ p.at = a /\ p.sess = r.sess /\ p.load = r.load /\ p.over = r.over
  <2>1. Head(q.todo) \in {"capture", "use"} /\ q.todo \in SnapshotRest
    BY <1>2, <1>3, <1>9
  <2>2. /\ p \in PageRequest /\ p.todo \in SnapshotRest /\ p.todo # <<>>
        /\ p.tab = q.tab /\ p.page = q.page /\ p.target = q.target
        /\ p.at = q.at /\ p.sess = q.sess /\ p.load = q.load /\ p.over = q.over
    BY <1>9, <1>11, <2>1, SnapshotAfter
  <2>3. QED
    BY <1>9, <1>10, <2>2
<1>13. Captured(p)
  <2>1. a.frame = r.target /\ (r.target = NoFrame => a.doc = doc[r.page])
    BY <1>5, <1>6
  <2>2. Captured(r)
    BY <1>1 DEF InStep
  <2>3. QED
    BY <1>3, <1>12, <2>1, <2>2 DEF Captured
<1>14. Taken(p)
  BY <1>12, SnapshotIsNoLoad DEF Taken
<1>15. InStep(p)
  BY <1>1, <1>12, <1>13, <1>14 DEF InStep, Shaped
<1>16. loads \in Nat
  BY PageAssumption DEF PageInv, PageTypes
<1>17. UNCHANGED <<doc, shown, inner, frame, sess, loads>>
  BY DEF Captures, browserVars, sessionVars
<1>18. InStep(p)'
  BY <1>12, <1>15, <1>16, <1>17, Unmoved
<1>19. cmd' = [cmd EXCEPT ![c] = p]
  BY <1>1, <1>4, <1>6, <1>8, <1>11 DEF Captures, Advances
<1>20. QED
  BY <1>12, <1>18, <1>19, Quiet DEF Captures

(* A step that fails ends its request.                                      *)
LEMMA FailsStep ==
  ASSUME PageInv, NEW c \in Cmd, Fails(c)
  PROVE  PageInv'
<1>1. sess' \in Nat /\ loads' \in Nat
  BY PageAssumption DEF PageInv, PageTypes, Fails
<1>2. cmd' = [cmd EXCEPT ![c] = NoCmd]
  BY DEF Fails, Done
<1>3. QED
  BY <1>1, <1>2, NoCmdInStep, Quiet DEF Fails

(* load-html records what it has put in the page.                           *)
LEMMA RecordsStep ==
  ASSUME PageInv, NEW c \in Cmd, Records(c)
  PROVE  PageInv'
<1> USE DEF browserVars
<1>1. PICK r \in PageRequest :
        /\ r = cmd[c] /\ InStep(r) /\ r.todo # <<>> /\ Shaped(r.todo)
        /\ r.tab \in Tab /\ r.page \in Tab /\ r.sess <= sess /\ r.load <= loads
  BY AtWork DEF Records, IsAt
<1>2. r.todo = <<"record">>
  <2>1. Head(r.todo) = "record"
    BY <1>1 DEF Records, IsAt, StepOf
  <2>2. "record" \notin PlainStep
    BY DEF PlainStep
  <2>3. QED
    BY <1>1, <2>1, <2>2, StepsOfLoad, StepsOfSnapshot, StepsOfPlain DEF Shaped
<1>3. PICK h : h = [load |-> r.load, over |-> r.over]
  OBVIOUS
<1>4. h \in Html /\ h.load <= loads /\ h.load = r.load /\ h.over = r.over
  BY <1>1, <1>3 DEF Html, PageRequest
<1>5. loaded' = IF r.sess = sess THEN [loaded EXCEPT ![r.tab] = h] ELSE loaded
  BY <1>1, <1>3 DEF Records, IsLive
<1>6. PageTypes'
  <2>1. loaded' \in [Tab -> Html] /\ \A t \in Tab : loaded'[t].load <= loads
    BY <1>1, <1>4, <1>5 DEF PageInv, PageTypes
  <2>2. QED
    BY <2>1 DEF Records, PageInv, PageTypes
<1>7. CmdInv'
  <2>1. sess' \in Nat /\ loads' \in Nat /\ loads \in Nat
    BY PageAssumption DEF PageInv, PageTypes, Records
  <2>2. \A q \in PageRequest : InStep(q) => InStep(q)'
    BY <2>1, Unmoved DEF Records
  <2>3. QED
    BY <2>1, <2>2, NoCmdInStep, OneMoves DEF Records, Done, PageInv
<1>8. RefsMatchContext'
  BY DEF Records, PageInv, RefsMatchContext
<1>9. ReplayIsCurrent'
  <2>1. SUFFICES ASSUME NEW t \in Tab, loaded'[t] # NotLoaded, ~loaded'[t].over
                 PROVE  shown[t] = loaded'[t].load
    BY DEF ReplayIsCurrent, Records
  <2>2. CASE r.sess = sess /\ t = r.tab
    <3>1. loaded'[t] = h
      BY <1>5, <2>2 DEF PageInv, PageTypes
    <3>2. shown[r.tab] = r.load
      BY <1>1, <1>2, <1>4, <2>1, <2>2, <3>1 DEF InStep, Taken
    <3>3. QED
      BY <1>4, <2>2, <3>1, <3>2
  <2>3. CASE ~(r.sess = sess /\ t = r.tab)
    <3>1. loaded'[t] = loaded[t]
      BY <1>1, <1>5, <2>3 DEF PageInv, PageTypes
    <3>2. QED
      BY <2>1, <3>1 DEF PageInv, ReplayIsCurrent
  <2>4. QED
    BY <2>2, <2>3
<1>10. QED
  BY <1>6, <1>7, <1>8, <1>9 DEF PageInv

(* A snapshot leaves its refs at the tab, with the frame they are of.       *)
LEMMA StoresStep ==
  ASSUME PageInv, NEW c \in Cmd, Stores(c)
  PROVE  PageInv'
<1> USE DEF browserVars
<1>1. PICK r \in PageRequest :
        /\ r = cmd[c] /\ InStep(r) /\ r.todo # <<>> /\ Shaped(r.todo)
        /\ r.tab \in Tab /\ r.page \in Tab /\ r.sess <= sess /\ r.load <= loads
  BY AtWork DEF Stores, IsAt
<1>2. r.todo \in SnapshotRest /\ Len(r.todo) = 1
  <2>1. Head(r.todo) = "store"
    BY <1>1 DEF Stores, IsAt, StepOf
  <2>2. "store" \notin PlainStep
    BY DEF PlainStep
  <2>3. QED
    BY <1>1, <2>1, <2>2, StepsOfLoad, StepsOfSnapshot, StepsOfPlain DEF Shaped
<1>3. PICK a : a = [r.at EXCEPT !.over = r.over]
  OBVIOUS
<1>4. a \in Refs /\ a.doc = r.at.doc /\ a.frame = r.at.frame /\ a.over = r.over
  <2>1. r.at \in Refs /\ r.over \in BOOLEAN
    BY DEF PageRequest
  <2>2. QED
    BY <1>3, <2>1 DEF Refs
<1>5. refs' = IF r.sess = sess THEN [refs EXCEPT ![r.tab] = a] ELSE refs
  BY <1>1, <1>3 DEF Stores, IsLive
<1>6. PageTypes'
  <2>1. refs' \in [Tab -> Refs]
    BY <1>1, <1>4, <1>5 DEF PageInv, PageTypes
  <2>2. QED
    BY <2>1 DEF Stores, PageInv, PageTypes
<1>7. CmdInv'
  <2>1. sess' \in Nat /\ loads' \in Nat /\ loads \in Nat
    BY PageAssumption DEF PageInv, PageTypes, Stores
  <2>2. \A q \in PageRequest : InStep(q) => InStep(q)'
    BY <2>1, Unmoved DEF Stores
  <2>3. cmd' = [cmd EXCEPT ![c] = NoCmd]
    <3>1. PICK q : q = [r EXCEPT !.at = NoRefs]
      OBVIOUS
    <3>2. q.todo = r.todo
      BY <3>1 DEF PageRequest
    <3>3. After(q) = NoCmd
      BY <1>2, <3>2 DEF After
    <3>4. QED
      BY <1>1, <3>1, <3>3 DEF Stores, Advances
  <2>4. QED
    BY <2>1, <2>2, <2>3, NoCmdInStep, OneMoves DEF PageInv
<1>8. RefsMatchContext'
  <2>1. SUFFICES ASSUME NEW t \in Tab, refs'[t] # NoRefs, ~refs'[t].over
                 PROVE  refs'[t].frame = frame[t] /\ (frame[t] = NoFrame => refs'[t].doc = doc[t])
    BY DEF RefsMatchContext, Stores
  <2>2. CASE r.sess = sess /\ t = r.tab
    <3>1. refs'[t] = a
      BY <1>5, <2>2 DEF PageInv, PageTypes
    <3>2. r.at # NoRefs
      <4>1. SUFFICES ASSUME r.at = NoRefs PROVE FALSE
        OBVIOUS
      <4>2. a.doc = 0 /\ a.frame = NoFrame /\ a.over = FALSE
        BY <1>4, <2>1, <3>1, <4>1 DEF NoRefs, Refs
      <4>3. a = NoRefs
        BY <1>4, <4>2 DEF NoRefs, Refs
      <4>4. QED
        BY <2>1, <3>1, <4>3
    <3>3. ~r.over
      BY <1>4, <2>1, <3>1
    <3>4. Captured(r)
      BY <1>1 DEF InStep
    <3>5. /\ r.target = frame[r.tab] /\ r.at.frame = r.target
          /\ r.target = NoFrame => r.at.doc = doc[r.tab]
      BY <1>2, <2>2, <3>2, <3>3, <3>4 DEF Captured
    <3>6. QED
      BY <1>4, <2>2, <3>1, <3>5
  <2>3. CASE ~(r.sess = sess /\ t = r.tab)
    <3>1. refs'[t] = refs[t]
      BY <1>1, <1>5, <2>3 DEF PageInv, PageTypes
    <3>2. QED
      BY <2>1, <3>1 DEF PageInv, RefsMatchContext
  <2>4. QED
    BY <2>2, <2>3
<1>9. ReplayIsCurrent'
  BY DEF Stores, PageInv, ReplayIsCurrent
<1>10. QED
  BY <1>6, <1>7, <1>8, <1>9 DEF PageInv

(* The user goes to another tab.                                            *)
LEMMA SwitchesStep ==
  ASSUME PageInv, NEW t \in Tab, SwitchesTab(t)
  PROVE  PageInv'
<1>1. UNCHANGED <<sess, doc, shown, inner, refs, frame, loaded, loads, cmd>> /\ activeTabId' = t
  BY DEF SwitchesTab, browserVars, sessionVars
<1>2. PageTypes' /\ RefsMatchContext' /\ ReplayIsCurrent'
  BY <1>1 DEF PageInv, PageTypes, RefsMatchContext, ReplayIsCurrent
<1>3. CmdInv'
  BY <1>1 DEF PageInv, CmdInv, InStep, Captured, Taken, IsAttached, FrameOf
<1>4. QED
  BY <1>2, <1>3 DEF PageInv

(* A tab whose frame is gone goes back to its main frame, without refs.     *)
LEMMA Recovered ==
  ASSUME PageTypes, RefsMatchContext, NEW t \in Tab, Recovers(t), UNCHANGED browserVars
  PROVE  /\ frame' \in [Tab -> Frame] /\ refs' \in [Tab -> Refs] /\ RefsMatchContext'
         /\ frame'[t] = NoFrame \/ IsAttached(frame[t])'
<1> USE DEF browserVars
<1>1. PICK lost : lost = (frame[t] # NoFrame /\ ~IsAttached(frame[t]))
  OBVIOUS
<1>2. NoFrame \in Frame /\ NoRefs \in Refs
  <2>1. NoFrame \in Frame
    BY DEF Frame
  <2>2. 0 \in 0..MaxDocs
    BY PageAssumption
  <2>3. QED
    BY <2>1, <2>2 DEF NoRefs, Refs
<1>3. CASE lost
  <2>1. frame' = [frame EXCEPT ![t] = NoFrame] /\ refs' = [refs EXCEPT ![t] = NoRefs]
    BY <1>1, <1>3 DEF Recovers
  <2>2. frame' \in [Tab -> Frame] /\ refs' \in [Tab -> Refs] /\ frame'[t] = NoFrame
    BY <1>2, <2>1 DEF PageTypes
  <2>3. RefsMatchContext'
    BY <2>1 DEF PageTypes, RefsMatchContext
  <2>4. QED
    BY <2>2, <2>3
<1>4. CASE ~lost
  <2>1. frame' = frame /\ refs' = refs
    BY <1>1, <1>4 DEF Recovers
  <2>2. frame[t] = NoFrame \/ IsAttached(frame[t])
    BY <1>1, <1>4
  <2>3. frame'[t] = NoFrame \/ IsAttached(frame[t])'
    BY <2>1, <2>2 DEF IsAttached, FrameOf
  <2>4. QED
    BY <2>1, <2>3 DEF PageTypes, RefsMatchContext
<1>5. QED
  BY <1>3, <1>4

(* A tab's HTML may be forgotten.                                           *)
LEMMA Forgets ==
  ASSUME PageInv, NEW t \in Tab,
         loaded' = loaded \/ loaded' = [loaded EXCEPT ![t] = NotLoaded],
         UNCHANGED <<shown, loads>>
  PROVE  loaded' \in [Tab -> Html] /\ (\A u \in Tab : loaded'[u].load <= loads) /\ ReplayIsCurrent'
<1>1. NotLoaded \in Html /\ NotLoaded.load = 0
  BY PageAssumption DEF NotLoaded, Html
<1>2. 0 <= loads
  BY DEF PageInv, PageTypes
<1>3. CASE loaded' = loaded
  BY <1>3 DEF PageInv, PageTypes, ReplayIsCurrent
<1>4. CASE loaded' = [loaded EXCEPT ![t] = NotLoaded]
  BY <1>1, <1>2, <1>4 DEF PageInv, PageTypes, ReplayIsCurrent
<1>5. QED
  BY <1>3, <1>4

(* A step that recovers a tab's frame for its request.                      *)
LEMMA Recovering ==
  ASSUME PageInv, NEW c \in Cmd, NEW p \in PageRequest, InStep(p)', cmd' = [cmd EXCEPT ![c] = p],
         NEW t \in Tab, Recovers(t),
         loaded' = loaded \/ loaded' = [loaded EXCEPT ![t] = NotLoaded],
         UNCHANGED <<activeTabId, sess, browserVars, loads>>
  PROVE  PageInv'
<1> USE DEF browserVars
<1>0. loads \in Nat
  BY PageAssumption DEF PageInv, PageTypes
<1>1. frame' \in [Tab -> Frame] /\ refs' \in [Tab -> Refs] /\ RefsMatchContext'
  BY Recovered DEF PageInv
<1>2. loaded' \in [Tab -> Html] /\ (\A u \in Tab : loaded'[u].load <= loads) /\ ReplayIsCurrent'
  BY Forgets
<1>3. PageTypes'
  BY <1>1, <1>2 DEF PageInv, PageTypes
<1>4. \A s \in PageRequest : InStep(s) => InStep(s)'
  BY <1>0, RecoveredInStep DEF PageInv, PageTypes
<1>5. CmdInv'
  BY <1>4, OneMoves DEF PageInv
<1>6. QED
  BY <1>1, <1>2, <1>3, <1>5 DEF PageInv

(* A request takes its target, of its tab or of the active one.             *)
LEMMA TakesTargetStep ==
  ASSUME PageInv, NEW c \in Cmd, TakesTarget(c) \/ TakesActiveTarget(c)
  PROVE  PageInv'
<1>0. cmd[c].todo # <<>>
  BY DEF TakesTarget, TakesActiveTarget, IsAt
<1>1. PICK r \in PageRequest :
        /\ r = cmd[c] /\ InStep(r) /\ r.todo # <<>> /\ Shaped(r.todo)
        /\ r.tab \in Tab /\ r.page \in Tab /\ r.sess <= sess /\ r.load <= loads
  BY <1>0, AtWork
<1>2. r.todo \in Seq(PlainStep)
  <2>1. Head(r.todo) \notin {"capture", "use", "store", "setContent", "record"}
    BY <1>1 DEF TakesTarget, TakesActiveTarget, IsAt, StepOf
  <2>2. QED
    BY <1>1, <2>1, PlainByHead
<1>3. PICK t \in Tab : /\ Recovers(t)
                       /\ \/ TakesTarget(c) /\ t = r.tab
                          \/ TakesActiveTarget(c) /\ t = activeTabId
  BY <1>1 DEF TakesTarget, TakesActiveTarget, PageInv, PageTypes
<1>4. UNCHANGED <<activeTabId, sess, browserVars, loaded, loads>>
  BY DEF TakesTarget, TakesActiveTarget
<1>5. frame'[t] \in Frame
  BY <1>3, <1>4, Recovered DEF PageInv
<1>6. PICK q \in PageRequest :
        /\ Advances(c, q) /\ q.todo = r.todo /\ q.tab = r.tab /\ q.sess = r.sess /\ q.load = r.load
        /\ q.page \in Tab
  <2>1. CASE TakesTarget(c) /\ t = r.tab
    <3>1. PICK q : q = [r EXCEPT !.target = frame'[t]]
      OBVIOUS
    <3>2. q \in PageRequest /\ q.todo = r.todo /\ q.tab = r.tab /\ q.sess = r.sess
          /\ q.load = r.load /\ q.page = r.page
      BY <1>5, <3>1 DEF PageRequest
    <3>3. Advances(c, q)
      BY <1>1, <2>1, <3>1 DEF TakesTarget
    <3>4. QED
      BY <1>1, <3>2, <3>3
  <2>2. CASE TakesActiveTarget(c) /\ t = activeTabId
    <3>1. PICK q : q = [r EXCEPT !.target = frame'[t], !.page = t]
      OBVIOUS
    <3>2. q \in PageRequest /\ q.todo = r.todo /\ q.tab = r.tab /\ q.sess = r.sess
          /\ q.load = r.load /\ q.page = t
      BY <1>5, <3>1 DEF PageRequest
    <3>3. Advances(c, q)
      BY <1>1, <2>2, <3>1 DEF TakesActiveTarget
    <3>4. QED
      BY <3>2, <3>3
  <2>3. QED
    BY <1>3, <2>1, <2>2
<1>7. PICK p : p = After(q)
  OBVIOUS
<1>8. p \in PageRequest /\ InStep(p)'
  <2>1. /\ p \in PageRequest /\ p.todo \in Seq(PlainStep)
        /\ p.todo # <<>> => p.tab \in Tab /\ p.page \in Tab
        /\ p.sess <= q.sess /\ p.load <= q.load
    BY <1>1, <1>2, <1>6, <1>7, PlainAfter
  <2>2. p.sess <= sess' /\ p.load <= loads'
    <3>1. p.sess \in Nat /\ q.sess \in Nat /\ p.load \in Int /\ q.load \in Int
      BY <2>1, PageAssumption DEF PageRequest
    <3>2. sess \in Int /\ loads \in Int /\ sess' = sess /\ loads' = loads
      BY <1>4 DEF PageInv, PageTypes
    <3>3. q.sess <= sess /\ q.load <= loads
      BY <1>1, <1>6
    <3>4. QED
      BY <2>1, <3>1, <3>2, <3>3
  <2>3. QED
    BY <2>1, <2>2, PlainInStep
<1>9. cmd' = [cmd EXCEPT ![c] = p]
  BY <1>6, <1>7 DEF Advances
<1>10. QED
  BY <1>3, <1>4, <1>8, <1>9, Recovering

(* A request begins, at the active tab.                                     *)
LEMMA BeginsStep ==
  ASSUME PageInv, NEW c \in Cmd, NEW line \in Lines, BeginsCommand(c, line)
  PROVE  PageInv'
<1> USE DEF browserVars
<1>1. PICK t \in Tab : t = activeTabId
  BY DEF PageInv, PageTypes
<1>2. PICK new : new = [todo |-> Tail(line), tab |-> t, sess |-> sess, page |-> t,
                        target |-> IF Head(line) \in {"ref", "metaRef"} THEN refs'[t].frame ELSE frame'[t],
                        at |-> NoRefs, load |-> 0, over |-> FALSE]
  OBVIOUS
<1>3. /\ Len(line) > 1
      /\ IF Head(line) \in {"meta", "metaRef"} THEN UNCHANGED <<refs, frame>> ELSE Recovers(t)
      /\ loaded' = loaded \/ loaded' = [loaded EXCEPT ![t] = NotLoaded]
      /\ cmd' = [cmd EXCEPT ![c] = new]
      /\ UNCHANGED <<activeTabId, sess, browserVars, loads>>
  BY <1>1, <1>2 DEF BeginsCommand
<1>4. frame' \in [Tab -> Frame] /\ refs' \in [Tab -> Refs] /\ RefsMatchContext'
  <2>1. CASE Recovers(t)
    BY <1>3, <2>1, Recovered DEF PageInv
  <2>2. CASE UNCHANGED <<refs, frame>>
    BY <1>3, <2>2 DEF PageInv, PageTypes, RefsMatchContext
  <2>3. QED
    BY <1>3, <2>1, <2>2
<1>5. new \in PageRequest
  <2>1. new.target \in Frame
    BY <1>2, <1>4 DEF Refs
  <2>2. Tail(line) \in Seq(PageStep)
    BY <1>3, LinesAreShaped
  <2>3. sess \in Nat
    BY DEF PageInv, PageTypes
  <2>4. NoRefs \in Refs /\ 0 \in 0..MaxLoads
    BY PageAssumption DEF NoRefs, Refs, Frame
  <2>5. QED
    BY <1>2, <2>1, <2>2, <2>3, <2>4 DEF PageRequest
<1>6. InStep(new)'
  <2>1. new.todo = Tail(line) /\ new.tab = t /\ new.sess = sess /\ new.page = t /\ new.at = NoRefs
        /\ new.load = 0
    BY <1>2
  <2>2. Captured(new)'
    <3>1. SUFFICES ASSUME new.todo \in SnapshotRest PROVE Captured(new)'
      BY DEF Captured
    <3>2. Head(line) = "target"
      BY <1>3, <2>1, <3>1, LinesAreShaped
    <3>3. Recovers(t) /\ new.target = frame'[t]
      BY <1>2, <1>3, <3>2
    <3>4. frame'[t] = NoFrame \/ IsAttached(frame[t])'
      BY <1>3, <3>3, Recovered DEF PageInv
    <3>5. new.target = NoFrame \/ IsAttached(new.target)'
      BY <3>3, <3>4 DEF IsAttached, FrameOf
    <3>6. QED
      BY <2>1, <3>3, <3>5 DEF Captured
  <2>3. Taken(new)'
    BY <1>3, <2>1, LinesAreShaped DEF Taken
  <2>4. Shaped(new.todo)
    BY <1>3, <2>1, LinesAreShaped
  <2>5. new.sess <= sess' /\ new.load <= loads'
    BY <1>3, <2>1 DEF PageInv, PageTypes
  <2>6. QED
    BY <2>1, <2>2, <2>3, <2>4, <2>5 DEF InStep
<1>7. CASE Recovers(t)
  BY <1>3, <1>5, <1>6, <1>7, Recovering
<1>8. CASE UNCHANGED <<refs, frame>>
  <2>0. loads \in Nat
    BY PageAssumption DEF PageInv, PageTypes
  <2>1. \A s \in PageRequest : InStep(s) => InStep(s)'
    BY <1>3, <1>8, <2>0, Unmoved
  <2>2. CmdInv'
    BY <1>3, <1>5, <1>6, <2>1, OneMoves DEF PageInv
  <2>3. loaded' \in [Tab -> Html] /\ (\A u \in Tab : loaded'[u].load <= loads) /\ ReplayIsCurrent'
    BY <1>3, Forgets
  <2>4. PageTypes'
    BY <1>3, <1>4, <2>3 DEF PageInv, PageTypes
  <2>5. QED
    BY <1>4, <2>2, <2>3, <2>4 DEF PageInv
<1>9. QED
  BY <1>3, <1>7, <1>8

(* A change of tab t overtakes the requests there; those elsewhere do not   *)
(* see it.                                                                  *)
LEMMA Elsewhere ==
  ASSUME PageInv, NEW t \in Tab, sess' = sess, loads' \in Nat, loads <= loads',
         \A u \in Tab \ {t} : /\ doc'[u] = doc[u] /\ shown'[u] = shown[u] /\ inner'[u] = inner[u]
                              /\ frame'[u] = frame[u]
  PROVE  \A q \in PageRequest : InStep(q) => InStep(Marked(q, t))' /\ Marked(q, t) \in PageRequest
<1>1. loads \in Nat
  BY PageAssumption DEF PageInv, PageTypes
<1>2. QED
  BY <1>1, OvertakenInStep

(* No frame, no refs, no HTML.                                              *)
LEMMA Nothing == NoFrame \in Frame /\ NoRefs \in Refs /\ NotLoaded \in Html /\ NotLoaded.load = 0
<1>1. NoFrame \in Frame
  BY DEF Frame
<1>2. 0 \in 0..MaxDocs /\ 0 \in 0..MaxLoads
  BY PageAssumption
<1>3. QED
  BY <1>1, <1>2 DEF NoRefs, Refs, NotLoaded, Html

(* A document is committed in a tab: its refs go, its frame goes with the   *)
(* document.                                                                *)
LEMMA Committed ==
  ASSUME PageInv, NEW t \in Tab, Commits(t), UNCHANGED <<activeTabId, sess, loads>>
  PROVE  /\ PageTypes' /\ RefsMatchContext' /\ ReplayIsCurrent'
         /\ \A q \in PageRequest : InStep(q) => InStep(Marked(q, t))' /\ Marked(q, t) \in PageRequest
<1>1. /\ doc' = [doc EXCEPT ![t] = @ + 1] /\ shown' = [shown EXCEPT ![t] = 0]
      /\ inner' = [inner EXCEPT ![t] = TRUE] /\ refs' = [refs EXCEPT ![t] = NoRefs]
      /\ frame' = [frame EXCEPT ![t] = NoFrame] /\ loaded' = [loaded EXCEPT ![t] = NotLoaded]
      /\ doc[t] < MaxDocs
  BY DEF Commits, Navigated
<1>2. doc' \in [Tab -> 1..MaxDocs] /\ \A u \in Tab : sess' <= doc'[u]
  BY <1>1, PageAssumption DEF PageInv, PageTypes
<1>3. shown' \in [Tab -> 0..loads'] /\ inner' \in [Tab -> BOOLEAN]
  BY <1>1 DEF PageInv, PageTypes
<1>4. refs' \in [Tab -> Refs] /\ frame' \in [Tab -> Frame]
  BY <1>1, Nothing DEF PageInv, PageTypes
<1>5. loaded' \in [Tab -> Html] /\ \A u \in Tab : loaded'[u].load <= loads'
  BY <1>1, Nothing DEF PageInv, PageTypes
<1>6. PageTypes'
  BY <1>2, <1>3, <1>4, <1>5 DEF PageInv, PageTypes
<1>7. RefsMatchContext'
  BY <1>1 DEF PageInv, PageTypes, RefsMatchContext
<1>8. ReplayIsCurrent'
  BY <1>1 DEF PageInv, PageTypes, ReplayIsCurrent
<1>9. \A u \in Tab \ {t} : /\ doc'[u] = doc[u] /\ shown'[u] = shown[u] /\ inner'[u] = inner[u]
                           /\ frame'[u] = frame[u]
  BY <1>1 DEF PageInv, PageTypes
<1>10. loads' \in Nat /\ loads <= loads'
  BY PageAssumption DEF PageInv, PageTypes
<1>11. QED
  BY <1>6, <1>7, <1>8, <1>9, <1>10, Elsewhere

(* A page navigates by itself,                                              *)
LEMMA NavigatesStep ==
  ASSUME PageInv, NEW t \in Tab, NavigatesItself(t)
  PROVE  PageInv'
BY Committed, AllOvertaken DEF PageInv, NavigatesItself

(* or because a command asks it to.                                         *)
LEMMA GoesStep ==
  ASSUME PageInv, NEW c \in Cmd, Goes(c)
  PROVE  PageInv'
<1>1. PICK r \in PageRequest :
        /\ r = cmd[c] /\ InStep(r) /\ r.todo # <<>> /\ Shaped(r.todo)
        /\ r.tab \in Tab /\ r.page \in Tab /\ r.sess <= sess /\ r.load <= loads
  BY AtWork DEF Goes, IsAt
<1>2. r.todo \in Seq(PlainStep)
  <2>1. Head(r.todo) \notin {"capture", "use", "store", "setContent", "record"}
    BY <1>1 DEF Goes, IsAt, StepOf
  <2>2. QED
    BY <1>1, <2>1, PlainByHead
<1>3. PICK p : p = After(r)
  OBVIOUS
<1>4. p \in PageRequest /\ InStep(p)'
  <2>1. /\ p \in PageRequest /\ p.todo \in Seq(PlainStep)
        /\ p.todo # <<>> => p.tab \in Tab /\ p.page \in Tab
        /\ p.sess <= r.sess /\ p.load <= r.load
    BY <1>1, <1>2, <1>3, PlainAfter
  <2>2. p.sess <= sess' /\ p.load <= loads'
    <3>1. p.sess \in Nat /\ r.sess \in Nat /\ p.load \in Int /\ r.load \in Int
      BY <2>1, PageAssumption DEF PageRequest
    <3>2. sess \in Int /\ loads \in Int /\ sess' = sess /\ loads' = loads
      BY DEF PageInv, PageTypes, Goes
    <3>3. QED
      BY <1>1, <2>1, <3>1, <3>2
  <2>3. QED
    BY <2>1, <2>2, PlainInStep
<1>5. cmd' = [Overtakes(r.tab) EXCEPT ![c] = p] /\ Commits(r.tab)
      /\ UNCHANGED <<activeTabId, sess, loads>>
  BY <1>1, <1>3 DEF Goes, AdvancesOver
<1>6. QED
  BY <1>1, <1>4, <1>5, Committed, OthersOvertaken DEF PageInv

(* An iframe goes away.                                                     *)
LEMMA LosesIframeStep ==
  ASSUME PageInv, NEW t \in Tab, LosesIframe(t)
  PROVE  PageInv'
<1>1. inner' = [inner EXCEPT ![t] = FALSE] /\ cmd' = Overtakes(t)
      /\ UNCHANGED <<activeTabId, sess, doc, shown, refs, frame, loaded, loads>>
  BY DEF LosesIframe, sessionVars
<1>2. PageTypes' /\ RefsMatchContext' /\ ReplayIsCurrent'
  BY <1>1 DEF PageInv, PageTypes, RefsMatchContext, ReplayIsCurrent
<1>3. \A u \in Tab \ {t} : inner'[u] = inner[u]
  BY <1>1 DEF PageInv, PageTypes
<1>4. loads' \in Nat /\ loads <= loads'
  BY <1>1, PageAssumption DEF PageInv, PageTypes
<1>5. \A q \in PageRequest : InStep(q) => InStep(Marked(q, t))' /\ Marked(q, t) \in PageRequest
  BY <1>1, <1>3, <1>4, Elsewhere
<1>6. QED
  BY <1>1, <1>2, <1>5, AllOvertaken DEF PageInv

(* The frame of a tab changes and its refs go.                              *)
LEMMA FrameChanges ==
  ASSUME PageInv, NEW t \in Tab, NEW f \in Frame,
         frame' = [frame EXCEPT ![t] = f], refs' = [refs EXCEPT ![t] = NoRefs],
         UNCHANGED <<activeTabId, sess, doc, shown, inner, loaded, loads>>
  PROVE  /\ PageTypes' /\ RefsMatchContext' /\ ReplayIsCurrent'
         /\ \A q \in PageRequest : InStep(q) => InStep(Marked(q, t))' /\ Marked(q, t) \in PageRequest
<1>1. frame' \in [Tab -> Frame] /\ refs' \in [Tab -> Refs]
  BY Nothing DEF PageInv, PageTypes
<1>2. PageTypes'
  BY <1>1 DEF PageInv, PageTypes
<1>3. RefsMatchContext'
  BY DEF PageInv, PageTypes, RefsMatchContext
<1>4. ReplayIsCurrent'
  BY DEF PageInv, ReplayIsCurrent
<1>5. \A u \in Tab \ {t} : frame'[u] = frame[u]
  BY DEF PageInv, PageTypes
<1>6. loads' \in Nat /\ loads <= loads'
  BY PageAssumption DEF PageInv, PageTypes
<1>7. QED
  BY <1>2, <1>3, <1>4, <1>5, <1>6, Elsewhere

(* `frame main` leaves it,                                                  *)
LEMMA LeavesFrameStep ==
  ASSUME PageInv, LeavesFrame
  PROVE  PageInv'
<1>1. PICK t \in Tab : t = activeTabId
  BY DEF PageInv, PageTypes
<1>2. frame' = [frame EXCEPT ![t] = NoFrame] /\ refs' = [refs EXCEPT ![t] = NoRefs]
      /\ cmd' = Overtakes(t) /\ UNCHANGED <<activeTabId, sess, doc, shown, inner, loaded, loads>>
  BY <1>1 DEF LeavesFrame, browserVars
<1>3. QED
  BY <1>2, Nothing, FrameChanges, AllOvertaken DEF PageInv

(* and a request enters one.                                                *)
LEMMA EntersFrameStep ==
  ASSUME PageInv, NEW c \in Cmd, EntersFrame(c)
  PROVE  PageInv'
<1>1. PICK r \in PageRequest :
        /\ r = cmd[c] /\ InStep(r) /\ r.todo # <<>> /\ Shaped(r.todo)
        /\ r.tab \in Tab /\ r.page \in Tab /\ r.sess <= sess /\ r.load <= loads
  BY AtWork DEF EntersFrame, IsAt
<1>2. r.todo \in Seq(PlainStep)
  <2>1. Head(r.todo) \notin {"capture", "use", "store", "setContent", "record"}
    BY <1>1 DEF EntersFrame, IsAt, StepOf
  <2>2. QED
    BY <1>1, <2>1, PlainByHead
<1>3. PICK p : p = After(r)
  OBVIOUS
<1>4. p \in PageRequest /\ InStep(p)'
  <2>1. /\ p \in PageRequest /\ p.todo \in Seq(PlainStep)
        /\ p.todo # <<>> => p.tab \in Tab /\ p.page \in Tab
        /\ p.sess <= r.sess /\ p.load <= r.load
    BY <1>1, <1>2, <1>3, PlainAfter
  <2>2. p.sess <= sess' /\ p.load <= loads'
    <3>1. p.sess \in Nat /\ r.sess \in Nat /\ p.load \in Int /\ r.load \in Int
      BY <2>1, PageAssumption DEF PageRequest
    <3>2. sess \in Int /\ loads \in Int /\ sess' = sess /\ loads' = loads
      BY DEF PageInv, PageTypes, EntersFrame
    <3>3. QED
      BY <1>1, <2>1, <3>1, <3>2
  <2>3. QED
    BY <2>1, <2>2, PlainInStep
<1>5. PICK t \in Tab : t = activeTabId
  BY DEF PageInv, PageTypes
<1>6. r.target \in Frame
  BY DEF PageRequest
<1>7. frame' = [frame EXCEPT ![t] = r.target] /\ refs' = [refs EXCEPT ![t] = NoRefs]
      /\ cmd' = [Overtakes(t) EXCEPT ![c] = p]
      /\ UNCHANGED <<activeTabId, sess, doc, shown, inner, loaded, loads>>
  BY <1>1, <1>3, <1>5 DEF EntersFrame, AdvancesOver, browserVars
<1>8. QED
  BY <1>4, <1>6, <1>7, FrameChanges, OthersOvertaken DEF PageInv

(* setContent replaces what the tab shows, under the next number of a load. *)
LEMMA SetsContentStep ==
  ASSUME PageInv, NEW c \in Cmd, SetsContent(c)
  PROVE  PageInv'
<1>1. PICK r \in PageRequest :
        /\ r = cmd[c] /\ InStep(r) /\ r.todo # <<>> /\ Shaped(r.todo)
        /\ r.tab \in Tab /\ r.page \in Tab /\ r.sess <= sess /\ r.load <= loads
  BY AtWork DEF SetsContent, IsAt
<1>2. Tail(r.todo) = <<"record">> /\ Len(r.todo) # 1
  <2>1. Head(r.todo) = "setContent"
    BY <1>1 DEF SetsContent, IsAt, StepOf
  <2>2. "setContent" \notin PlainStep
    BY DEF PlainStep
  <2>3. QED
    BY <1>1, <2>1, <2>2, StepsOfLoad, StepsOfSnapshot, StepsOfPlain DEF Shaped
<1>3. PICK t \in Tab : t = r.tab
  BY <1>1
<1>4. /\ loads < MaxLoads /\ loads' = loads + 1 /\ shown' = [shown EXCEPT ![t] = loads + 1]
      /\ inner' = [inner EXCEPT ![t] = TRUE]
      /\ loaded' = IF loaded[t] = NotLoaded THEN loaded ELSE [loaded EXCEPT ![t].over = TRUE]
      /\ UNCHANGED <<activeTabId, sess, doc, refs, frame>> /\ r.sess = sess
  BY <1>1, <1>3 DEF SetsContent, IsLive
<1>5. PICK q : q = [r EXCEPT !.load = loads + 1, !.over = FALSE]
  OBVIOUS
<1>6. PICK p : p = After(q)
  OBVIOUS
<1>7. loads \in Nat /\ loads' \in 0..MaxLoads /\ loads' \in Nat /\ loads <= loads'
  BY <1>4, PageAssumption DEF PageInv, PageTypes
<1>8. p \in PageRequest /\ p.todo = <<"record">> /\ p.tab = r.tab /\ p.page = r.page /\ p.sess = r.sess
      /\ p.load = loads' /\ p.over = FALSE
  <2>1. q \in PageRequest /\ q.todo = r.todo
    BY <1>4, <1>5, <1>7 DEF PageRequest
  <2>2. q.tab = r.tab /\ q.page = r.page /\ q.sess = r.sess /\ q.load = loads' /\ q.over = FALSE
    BY <1>4, <1>5 DEF PageRequest
  <2>3. p = [q EXCEPT !.todo = <<"record">>]
    BY <1>2, <1>6, <2>1 DEF After
  <2>4. <<"record">> \in Seq(PageStep)
    BY StepsOfLoad DEF LoadRest
  <2>5. p \in PageRequest /\ p.todo = <<"record">>
    BY <2>1, <2>3, <2>4 DEF PageRequest
  <2>6. p.tab = q.tab /\ p.page = q.page /\ p.sess = q.sess /\ p.load = q.load /\ p.over = q.over
    BY <2>1, <2>3 DEF PageRequest
  <2>7. QED
    BY <2>2, <2>5, <2>6
<1>9. InStep(p)'
  <2>1. p.todo \in LoadRest /\ p.todo \notin SnapshotRest
    BY <1>8, StepsOfLoad DEF LoadRest
  <2>2. Captured(p)'
    BY <2>1 DEF Captured
  <2>3. shown'[t] = loads'
    BY <1>4 DEF PageInv, PageTypes
  <2>4. Taken(p)'
    BY <1>3, <1>8, <2>3 DEF Taken
  <2>5. p.sess <= sess' /\ p.load <= loads'
    BY <1>1, <1>4, <1>7, <1>8
  <2>6. QED
    BY <1>1, <1>8, <2>1, <2>2, <2>4, <2>5 DEF InStep, Shaped
<1>10. cmd' = [Overtakes(t) EXCEPT ![c] = p]
  BY <1>1, <1>3, <1>5, <1>6 DEF SetsContent, AdvancesOver
<1>11. \A s \in PageRequest : InStep(s) => InStep(Marked(s, t))' /\ Marked(s, t) \in PageRequest
  <2>1. \A u \in Tab \ {t} : shown'[u] = shown[u] /\ inner'[u] = inner[u]
    BY <1>4 DEF PageInv, PageTypes
  <2>2. QED
    BY <1>4, <1>7, <2>1, Elsewhere
<1>12. CmdInv'
  BY <1>8, <1>9, <1>10, <1>11, OthersOvertaken DEF PageInv
<1>13. loaded' \in [Tab -> Html] /\ (\A u \in Tab : loaded'[u].load = loaded[u].load)
       /\ (\A u \in Tab : loaded'[u] # NotLoaded /\ ~loaded'[u].over => u # t /\ loaded'[u] = loaded[u])
  <2>1. CASE loaded[t] = NotLoaded
    BY <1>4, <2>1 DEF PageInv, PageTypes
  <2>2. CASE loaded[t] # NotLoaded
    <3>1. PICK h : h = [loaded[t] EXCEPT !.over = TRUE]
      OBVIOUS
    <3>2. loaded' = [loaded EXCEPT ![t] = h]
      BY <1>4, <2>2, <3>1
    <3>3. h \in Html /\ h.over = TRUE /\ h.load = loaded[t].load
      <4>1. loaded[t] \in Html
        BY DEF PageInv, PageTypes
      <4>2. QED
        BY <3>1, <4>1 DEF Html
    <3>4. QED
      BY <3>2, <3>3 DEF PageInv, PageTypes
  <2>3. QED
    BY <2>1, <2>2
<1>14. PageTypes'
  <2>1. shown' \in [Tab -> 0..loads']
    BY <1>4, <1>7 DEF PageInv, PageTypes
  <2>2. inner' \in [Tab -> BOOLEAN]
    BY <1>4 DEF PageInv, PageTypes
  <2>3. \A u \in Tab : loaded'[u].load <= loads'
    <3>1. ASSUME NEW u \in Tab PROVE loaded[u].load <= loads'
      <4>1. loaded[u].load \in Int /\ loaded[u].load <= loads
        BY PageAssumption DEF PageInv, PageTypes, Html
      <4>2. QED
        BY <1>7, <4>1
    <3>2. QED
      BY <1>13, <3>1
  <2>4. QED
    BY <1>4, <1>7, <1>13, <2>1, <2>2, <2>3 DEF PageInv, PageTypes
<1>15. RefsMatchContext'
  BY <1>4 DEF PageInv, RefsMatchContext
<1>16. ReplayIsCurrent'
  <2>1. \A u \in Tab : u # t => shown'[u] = shown[u]
    BY <1>4 DEF PageInv, PageTypes
  <2>2. QED
    BY <1>13, <2>1 DEF PageInv, ReplayIsCurrent
<1>17. QED
  BY <1>12, <1>14, <1>15, <1>16 DEF PageInv

(* The browser is replaced, with the same tabs.                             *)
LEMMA ReplacesStep ==
  ASSUME PageInv, NEW replay \in BOOLEAN, Replaces(replay)
  PROVE  PageInv'
<1>1. /\ \A t \in Tab : doc[t] < MaxDocs
      /\ sess' = sess + 1
      /\ doc' = [t \in Tab |-> doc[t] + 1]
      /\ inner' = [t \in Tab |-> TRUE]
      /\ refs' = [t \in Tab |-> NoRefs] /\ frame' = [t \in Tab |-> NoFrame]
      /\ cmd' = [c \in Cmd |-> [cmd[c] EXCEPT !.over = cmd[c].todo # <<>>]]
      /\ UNCHANGED <<activeTabId, loads>>
  BY DEF Replaces
<1>2. loads \in Nat /\ sess \in Nat
  BY PageAssumption DEF PageInv, PageTypes
<1>3. /\ shown' \in [Tab -> 0..loads'] /\ loaded' \in [Tab -> Html]
      /\ \A t \in Tab : loaded'[t].load <= loads' /\ (loaded'[t] # NotLoaded => shown'[t] = loaded'[t].load)
  <2>1. CASE replay
    <3>1. shown' = [t \in Tab |-> loaded[t].load] /\ loaded' = [t \in Tab |-> loaded[t]]
      BY <2>1 DEF Replaces
    <3>2. \A t \in Tab : loaded[t].load \in 0..loads
      BY <1>2, PageAssumption DEF PageInv, PageTypes, Html
    <3>3. QED
      BY <1>1, <3>1, <3>2 DEF PageInv, PageTypes
  <2>2. CASE ~replay
    <3>1. shown' = [t \in Tab |-> 0] /\ loaded' = [t \in Tab |-> NotLoaded]
      BY <2>2 DEF Replaces
    <3>2. QED
      BY <1>1, <1>2, <3>1, Nothing
  <2>3. QED
    BY <2>1, <2>2
<1>4. doc' \in [Tab -> 1..MaxDocs] /\ \A t \in Tab : sess' <= doc'[t]
  <2>1. \A t \in Tab : doc[t] \in 1..MaxDocs /\ sess <= doc[t]
    BY DEF PageInv, PageTypes
  <2>2. QED
    BY <1>1, <1>2, <2>1, PageAssumption
<1>5. PageTypes'
  BY <1>1, <1>2, <1>3, <1>4, Nothing DEF PageInv, PageTypes
<1>6. CmdInv'
  <2>1. ASSUME NEW c \in Cmd PROVE cmd'[c] \in PageRequest /\ InStep(cmd[c])'
    <3>1. PICK q \in PageRequest : q = cmd[c] /\ InStep(q)
      BY DEF PageInv, CmdInv
    <3>2. PICK b \in BOOLEAN : b = (q.todo # <<>>)
      OBVIOUS
    <3>3. PICK p : p = [q EXCEPT !.over = b]
      OBVIOUS
    <3>4. p \in PageRequest /\ p.todo = q.todo /\ p.tab = q.tab /\ p.page = q.page
          /\ p.sess = q.sess /\ p.load = q.load
      BY <3>3 DEF PageRequest
    <3>5. cmd'[c] = p
      BY <1>1, <3>1, <3>2, <3>3
    <3>6. p.sess # sess' /\ p.sess <= sess' /\ p.load <= loads'
      <4>1. q.sess <= sess /\ q.load <= loads /\ q.sess \in Nat
        BY <3>1 DEF InStep, PageRequest
      <4>2. QED
        BY <1>1, <1>2, <3>4, <4>1
    <3>7. p.todo # <<>> => p.tab \in Tab /\ p.page \in Tab /\ Shaped(p.todo)
      BY <3>1, <3>4 DEF InStep
    <3>8. QED
      BY <3>4, <3>5, <3>6, <3>7 DEF InStep, Captured, Taken
  <2>2. cmd' \in [Cmd -> PageRequest]
    BY <1>1, <2>1
  <2>3. QED
    BY <2>1, <2>2 DEF CmdInv
<1>7. RefsMatchContext'
  BY <1>1 DEF RefsMatchContext
<1>8. ReplayIsCurrent'
  BY <1>3 DEF ReplayIsCurrent
<1>9. QED
  BY <1>5, <1>6, <1>7, <1>8 DEF PageInv

(* No request, no refs.                                                     *)
LEMMA PageInvInit ==
  ASSUME PageInit
  PROVE  PageInv
<1>1. PageTypes
  BY PageAssumption, Nothing DEF PageInit, PageTypes
<1>2. CmdInv
  <2>1. NoCmd \in PageRequest
    <3>1. <<>> \in Seq(PageStep) /\ 0 \in 0..MaxLoads
      BY PageAssumption, EmptySeq
    <3>2. QED
      BY <3>1, Nothing DEF NoCmd, PageRequest
  <2>2. NoCmd.todo = <<>> /\ NoCmd.sess = 0 /\ NoCmd.load = 0
    BY DEF NoCmd
  <2>3. NoCmd.todo \notin SnapshotRest /\ NoCmd.todo \notin LoadRest
    BY <2>2, StepsOfSnapshot, StepsOfLoad
  <2>4. InStep(NoCmd)
    BY <2>2, <2>3 DEF InStep, Captured, Taken, LoadRest, PageInit
  <2>5. QED
    BY <2>1, <2>4 DEF CmdInv, PageInit
<1>3. RefsMatchContext /\ ReplayIsCurrent
  BY DEF PageInit, RefsMatchContext, ReplayIsCurrent
<1>4. QED
  BY <1>1, <1>2, <1>3 DEF PageInv

(* Every step keeps the invariant.                                          *)
LEMMA PageInvNext ==
  ASSUME PageInv, [PageNext]_pageVars
  PROVE  PageInv'
<1>1. ASSUME NEW c \in Cmd, CommandStep(c) PROVE PageInv'
  <2>1. CASE \/ Counts(c) \/ LooksUpAgain(c) \/ LooksUpInActive(c) \/ UsesPage(c) \/ Passes(c)
             \/ TakesActivePage(c) \/ FindsFrame(c)
    BY <2>1, PlainSteps
  <2>2. CASE Uses(c)
    BY <2>2, UsesStep
  <2>3. CASE TakesTarget(c) \/ TakesActiveTarget(c)
    BY <2>3, TakesTargetStep
  <2>4. CASE Goes(c)
    BY <2>4, GoesStep
  <2>5. CASE SetsContent(c)
    BY <2>5, SetsContentStep
  <2>6. CASE Records(c)
    BY <2>6, RecordsStep
  <2>7. CASE Captures(c)
    BY <2>7, CapturesStep
  <2>8. CASE Stores(c)
    BY <2>8, StoresStep
  <2>9. CASE EntersFrame(c)
    BY <2>9, EntersFrameStep
  <2>10. CASE Fails(c)
    BY <2>10, FailsStep
  <2>11. QED
    BY <1>1, <2>1, <2>2, <2>3, <2>4, <2>5, <2>6, <2>7, <2>8, <2>9, <2>10 DEF CommandStep
<1>2. ASSUME NEW c \in Cmd, NEW line \in Lines, BeginsCommand(c, line) PROVE PageInv'
  BY <1>2, BeginsStep
<1>3. CASE LeavesFrame
  BY <1>3, LeavesFrameStep
<1>4. ASSUME NEW replay \in BOOLEAN, Replaces(replay) PROVE PageInv'
  BY <1>4, ReplacesStep
<1>5. ASSUME NEW t \in Moving, NavigatesItself(t) \/ LosesIframe(t) PROVE PageInv'
  BY <1>5, PageAssumption, NavigatesStep, LosesIframeStep
<1>6. ASSUME NEW t \in Tab, SwitchesTab(t) PROVE PageInv'
  BY <1>6, SwitchesStep
<1>7. CASE UNCHANGED pageVars
  <2>1. UNCHANGED <<activeTabId, sess, doc, shown, inner, refs, frame, loaded, loads, cmd>>
    BY <1>7 DEF pageVars
  <2>2. PageTypes' /\ RefsMatchContext' /\ ReplayIsCurrent'
    BY <2>1 DEF PageInv, PageTypes, RefsMatchContext, ReplayIsCurrent
  <2>3. CmdInv'
    BY <2>1 DEF PageInv, CmdInv, InStep, Captured, Taken, IsAttached, FrameOf
  <2>4. QED
    BY <2>2, <2>3 DEF PageInv
<1>8. QED
  BY <1>1, <1>2, <1>3, <1>4, <1>5, <1>6, <1>7 DEF PageNext

(* So refs are those of the tab's frame, and the HTML to replay is what it  *)
(* shows.                                                                   *)
LEMMA PageInvSafe ==
  ASSUME PageInv
  PROVE  PageStateSafe
<1>1. ASSUME NEW t \in Tab PROVE /\ refs[t].doc \in 0..MaxDocs /\ frame[t].tab \in Tab \cup {0}
                                 /\ loaded[t].load \in 0..loads
  <2>1. refs[t] \in Refs /\ frame[t] \in Frame /\ loaded[t] \in Html /\ loaded[t].load <= loads
    BY DEF PageInv, PageTypes
  <2>2. loads \in Int /\ loaded[t].load \in Nat
    BY <2>1, PageAssumption DEF PageInv, PageTypes, Html
  <2>3. QED
    BY <2>1, <2>2 DEF Refs, Frame, NoFrame
<1>2. ASSUME NEW c \in Cmd PROVE IsLive(c) \/ cmd[c].sess \in 0..(sess - 1)
  <2>1. cmd[c].sess \in Nat /\ cmd[c].sess <= sess /\ sess \in Nat
    BY DEF PageInv, PageTypes, CmdInv, InStep, PageRequest
  <2>2. QED
    BY <2>1 DEF IsLive
<1>3. sess \in 1..MaxDocs
  <2>1. PICK t \in Tab : t = activeTabId
    BY DEF PageInv, PageTypes
  <2>2. sess <= doc[t] /\ doc[t] \in 1..MaxDocs /\ sess \in Nat \ {0}
    BY DEF PageInv, PageTypes
  <2>3. QED
    BY <2>2, PageAssumption
<1>4. PageTypeOK
  BY <1>1, <1>2, <1>3 DEF PageInv, PageTypes, PageTypeOK
<1>5. QED
  BY <1>4 DEF PageInv, PageStateSafe

(* For any tabs, any frames and any number of overlapping commands,         *)
(* whatever commits a document, removes an iframe or replaces the browser   *)
(* between two of their steps: the refs a tab holds are elements of the     *)
(* document and frame its commands work on, and the HTML it would replay is *)
(* what it shows - unless a second command has overtaken the one that       *)
(* recorded them (tab-session.ts, snapshot.ts, read-commands.ts, write-     *)
(* commands.ts, browser-manager.ts).                                        *)
THEOREM PageStateSafeHolds == PageSpec => []PageStateSafe
<1>1. PageInit => PageInv
  BY PageInvInit
<1>2. PageInv /\ [PageNext]_pageVars => PageInv'
  BY PageInvNext
<1>3. PageInv => PageStateSafe
  BY PageInvSafe
<1>4. QED
  BY <1>1, <1>2, <1>3, PTL DEF PageSpec
-----------------------------------------------------------------------------
(* Widths and marks: what every request still has to take off or give back. *)
ShotStep == {"widen", "shoot", "scroll", "restore", "resize", "draw", "undraw", "paint",
             "unpaint", "hide", "read", "unhide"}
LastStep == {"restore", "resize", "undraw", "unpaint", "unhide"}
In(q, step) == \E i \in 1..Len(q) : q[i] = step
Resizes(q) == In(q, "restore") \/ In(q, "resize")
(* The rest of a line that ends with the step last.                         *)
Rest(q, body, last) ==
  /\ q \in Seq(ShotStep) /\ Len(q) \in 1..7
  /\ q[Len(q)] = last
  /\ \A i \in 1..Len(q) : i # Len(q) => q[i] \in body
(* The lines that a request may have left.                                  *)
Working(q) ==
  \/ q = <<>> \/ Rest(q, {"widen", "shoot", "scroll"}, "restore") \/ Rest(q, {}, "resize")
  \/ Rest(q, {"draw", "shoot"}, "undraw") \/ Rest(q, {"paint", "shoot"}, "unpaint")
  \/ Rest(q, {"hide", "read"}, "unhide")

ShotTypes ==
  /\ size \in Width /\ tracked \in Width /\ noted \in [Shot -> Width]
  /\ marks \subseteq {"annotation", "heatmap", "hidden"}
  /\ spoiled \in BOOLEAN /\ littered \in BOOLEAN
  /\ todo \in [Shot -> Seq(ShotStep)] /\ \A s \in Shot : Working(todo[s])
(* Unless it is spoiled, the width of the page belongs to the one request   *)
(* that resizes, which has noted the one to go back to; when there is none  *)
(* it is the tracked one.                                                   *)
OneResizes ==
  ~spoiled => /\ \A s, r \in Shot : Resizes(todo[s]) /\ Resizes(todo[r]) => s = r
              /\ \A s \in Shot : Resizes(todo[s]) => noted[s] = tracked
              /\ (\A s \in Shot : ~Resizes(todo[s])) => size = tracked
(* A mark on the page is one that a running request will take off.          *)
HasRemover ==
  /\ "hidden" \in marks => \E s \in Shot : In(todo[s], "unhide")
  /\ "heatmap" \in marks => \E s \in Shot : In(todo[s], "unpaint")
  /\ "annotation" \in marks /\ ~littered => \E s \in Shot : In(todo[s], "undraw")
ShotInv == ShotTypes /\ OneResizes /\ HasRemover

(* A request that is over has no step.                                      *)
LEMMA EmptyHasNothing == \A step : ~In(<<>>, step)
BY EmptySeq DEF In

(* The rest of a line ends with its last step and has no step of another    *)
(* line,                                                                    *)
LEMMA RestHas ==
  ASSUME NEW body, NEW last, NEW q, Rest(q, body, last)
  PROVE  In(q, last) /\ \A step : In(q, step) => step \in body \cup {last}
<1>1. PICK n \in 1..7 : n = Len(q)
  BY DEF Rest
<1>2. n \in 1..n /\ q[n] = last /\ \A i \in 1..n : i # n => q[i] \in body
  BY <1>1 DEF Rest
<1>3. QED
  BY <1>1, <1>2 DEF In

(* also after its next one.                                                 *)
LEMMA RestTail ==
  ASSUME NEW body, NEW last, NEW q, Rest(q, body, last)
  PROVE  /\ q # <<>> /\ Tail(q) \in Seq(ShotStep)
         /\ Len(q) = 1 => Head(q) = last /\ Tail(q) = <<>>
         /\ Len(q) # 1 => Head(q) \in body /\ Rest(Tail(q), body, last)
<1>1. PICK n \in 1..7 : n = Len(q)
  BY DEF Rest
<1>2. q \in Seq(ShotStep) /\ q[n] = last /\ \A i \in 1..n : i # n => q[i] \in body
  BY <1>1 DEF Rest
<1>3. q # <<>>
  BY <1>1, EmptySeq
<1>4. PICK r : r = Tail(q)
  OBVIOUS
<1>5. /\ Head(q) = q[1] /\ r \in Seq(ShotStep) /\ Len(r) = n - 1
      /\ \A i \in 1..(n - 1) : r[i] = q[i + 1]
  <2>1. /\ Head(q) = q[1] /\ r \in Seq(ShotStep) /\ Len(r) = Len(q) - 1
        /\ \A i \in 1..Len(r) : r[i] = q[i + 1]
    BY <1>2, <1>3, <1>4, HeadTailProperties
  <2>2. Len(r) = n - 1
    BY <1>1, <2>1
  <2>3. QED
    BY <2>1, <2>2
<1>6. CASE n = 1
  <2>1. Len(r) = 0
    BY <1>5, <1>6
  <2>2. r = <<>>
    BY <1>5, <2>1, EmptySeq
  <2>3. QED
    BY <1>1, <1>2, <1>3, <1>4, <1>5, <1>6, <2>2
<1>7. CASE n # 1
  <2>1. PICK m \in 1..7 : m = n - 1
    BY <1>7
  <2>2. 1 \in 1..n /\ m + 1 = n /\ m \in 1..(n - 1)
    BY <1>7, <2>1
  <2>3. Head(q) \in body
    BY <1>2, <1>5, <1>7, <2>2
  <2>4. r[m] = last
    BY <1>2, <1>5, <2>2
  <2>5. ASSUME NEW i \in 1..m, i # m PROVE r[i] \in body
    <3>1. i + 1 \in 1..n /\ i + 1 # n /\ i \in 1..(n - 1)
      BY <2>1, <2>5
    <3>2. QED
      BY <1>2, <1>5, <3>1
  <2>6. Len(r) = m
    BY <1>5, <2>1
  <2>7. Rest(r, body, last)
    BY <1>5, <2>1, <2>4, <2>5, <2>6 DEF Rest
  <2>8. QED
    BY <1>1, <1>3, <1>4, <1>5, <1>7, <2>3, <2>7
<1>8. QED
  BY <1>6, <1>7

(* So a line goes on until its last step.                                   *)
LEMMA WorkGoesOn ==
  ASSUME NEW q, Working(q), q # <<>>
  PROVE  /\ Working(Tail(q)) /\ Tail(q) \in Seq(ShotStep)
         /\ \A last \in LastStep : /\ In(Tail(q), last) => In(q, last)
                                   /\ In(q, last) /\ Head(q) # last => In(Tail(q), last)
                                   /\ Head(q) = last => Tail(q) = <<>> /\ In(q, last)
<1>1. ASSUME NEW body, NEW end \in LastStep, Rest(q, body, end), body \cap LastStep = {},
             \A r : Rest(r, body, end) => Working(r)
      PROVE  /\ Working(Tail(q)) /\ Tail(q) \in Seq(ShotStep)
             /\ \A last \in LastStep : /\ In(Tail(q), last) => In(q, last)
                                       /\ In(q, last) /\ Head(q) # last => In(Tail(q), last)
                                       /\ Head(q) = last => Tail(q) = <<>> /\ In(q, last)
  <2>1. In(q, end) /\ \A last \in LastStep : In(q, last) => last = end
    BY <1>1, RestHas
  <2>2. CASE Len(q) = 1
    <3>1. Head(q) = end /\ Tail(q) = <<>> /\ Tail(q) \in Seq(ShotStep)
      BY <1>1, <2>2, RestTail
    <3>2. \A last \in LastStep : ~In(Tail(q), last)
      BY <3>1, EmptyHasNothing
    <3>3. QED
      BY <2>1, <3>1, <3>2 DEF Working
  <2>3. CASE Len(q) # 1
    <3>1. Head(q) \in body /\ Rest(Tail(q), body, end) /\ Tail(q) \in Seq(ShotStep)
      BY <1>1, <2>3, RestTail
    <3>2. In(Tail(q), end) /\ \A last \in LastStep : In(Tail(q), last) => last = end
      BY <1>1, <3>1, RestHas
    <3>3. Working(Tail(q))
      BY <1>1, <3>1
    <3>4. Head(q) \notin LastStep
      BY <1>1, <3>1
    <3>5. QED
      BY <2>1, <3>1, <3>2, <3>3, <3>4
  <2>4. QED
    BY <2>2, <2>3
<1>2. CASE Rest(q, {"widen", "shoot", "scroll"}, "restore")
  <2>1. "restore" \in LastStep /\ {"widen", "shoot", "scroll"} \cap LastStep = {}
    BY DEF LastStep
  <2>2. \A r : Rest(r, {"widen", "shoot", "scroll"}, "restore") => Working(r)
    BY DEF Working
  <2>3. QED
    BY <1>1, <1>2, <2>1, <2>2
<1>3. CASE Rest(q, {}, "resize")
  <2>1. "resize" \in LastStep /\ {} \cap LastStep = {}
    BY DEF LastStep
  <2>2. \A r : Rest(r, {}, "resize") => Working(r)
    BY DEF Working
  <2>3. QED
    BY <1>1, <1>3, <2>1, <2>2
<1>4. CASE Rest(q, {"draw", "shoot"}, "undraw")
  <2>1. "undraw" \in LastStep /\ {"draw", "shoot"} \cap LastStep = {}
    BY DEF LastStep
  <2>2. \A r : Rest(r, {"draw", "shoot"}, "undraw") => Working(r)
    BY DEF Working
  <2>3. QED
    BY <1>1, <1>4, <2>1, <2>2
<1>5. CASE Rest(q, {"paint", "shoot"}, "unpaint")
  <2>1. "unpaint" \in LastStep /\ {"paint", "shoot"} \cap LastStep = {}
    BY DEF LastStep
  <2>2. \A r : Rest(r, {"paint", "shoot"}, "unpaint") => Working(r)
    BY DEF Working
  <2>3. QED
    BY <1>1, <1>5, <2>1, <2>2
<1>6. CASE Rest(q, {"hide", "read"}, "unhide")
  <2>1. "unhide" \in LastStep /\ {"hide", "read"} \cap LastStep = {}
    BY DEF LastStep
  <2>2. \A r : Rest(r, {"hide", "read"}, "unhide") => Working(r)
    BY DEF Working
  <2>3. QED
    BY <1>1, <1>6, <2>1, <2>2
<1>7. QED
  BY <1>2, <1>3, <1>4, <1>5, <1>6 DEF Working

(* It has one last step only, and one whenever it has to put something      *)
(* back.                                                                    *)
LEMMA WorkIsOneKind ==
  ASSUME NEW q, Working(q)
  PROVE  /\ \A a, b \in LastStep : In(q, a) /\ In(q, b) => a = b
         /\ In(q, "draw") => In(q, "undraw")
         /\ In(q, "paint") => In(q, "unpaint")
         /\ In(q, "hide") => In(q, "unhide")
         /\ In(q, "widen") \/ In(q, "scroll") => In(q, "restore")
<1>1. CASE q = <<>>
  BY <1>1, EmptyHasNothing
<1>2. CASE Rest(q, {"widen", "shoot", "scroll"}, "restore")
  BY <1>2, RestHas DEF LastStep
<1>3. CASE Rest(q, {}, "resize")
  BY <1>3, RestHas DEF LastStep
<1>4. CASE Rest(q, {"draw", "shoot"}, "undraw")
  BY <1>4, RestHas DEF LastStep
<1>5. CASE Rest(q, {"paint", "shoot"}, "unpaint")
  BY <1>5, RestHas DEF LastStep
<1>6. CASE Rest(q, {"hide", "read"}, "unhide")
  BY <1>6, RestHas DEF LastStep
<1>7. QED
  BY <1>1, <1>2, <1>3, <1>4, <1>5, <1>6 DEF Working

(* The next step is one of the line.                                        *)
LEMMA HeadIsIn ==
  ASSUME NEW q \in Seq(ShotStep), q # <<>>
  PROVE  In(q, Head(q))
<1>1. Head(q) = q[1] /\ 1 \in 1..Len(q)
  BY EmptySeq, HeadTailProperties, LenProperties
<1>2. QED
  BY <1>1 DEF In

(* What a failure leaves to do is one of the lines.                         *)
LEMMA OneStepLeft ==
  /\ Working(<<"restore">>) /\ Working(<<"undraw">>) /\ Working(<<"unpaint">>) /\ Working(<<"unhide">>)
  /\ Working(<<"resize">>)
  /\ In(<<"restore">>, "restore") /\ In(<<"undraw">>, "undraw") /\ In(<<"unpaint">>, "unpaint")
  /\ In(<<"unhide">>, "unhide") /\ In(<<"resize">>, "resize")
<1>1. ASSUME NEW step \in ShotStep
      PROVE  /\ <<step>> \in Seq(ShotStep) /\ Len(<<step>>) = 1 /\ <<step>>[1] = step
  OBVIOUS
<1>2. ASSUME NEW step \in ShotStep, NEW body PROVE Rest(<<step>>, body, step)
  BY <1>1 DEF Rest
<1>3. {"restore", "undraw", "unpaint", "unhide", "resize"} \subseteq ShotStep
  BY DEF ShotStep
<1>4. QED
  BY <1>2, <1>3, RestHas DEF Working

(* The lines that resize,                                                   *)
LEMMA ResizingLines ==
  ASSUME NEW line \in PrettyScreenshotCmd \cup ResponsiveCmd
  PROVE  line \in Seq(ShotStep) /\ Working(line) /\ In(line, "restore")
<1>1. CASE line = <<"widen", "shoot", "restore">>
  <2>1. Len(line) = 3 /\ line[3] = "restore"
    BY <1>1
  <2>2. line \in Seq(ShotStep)
    BY <1>1 DEF ShotStep
  <2>3. ASSUME NEW i \in 1..3, i # 3 PROVE line[i] \in {"widen", "shoot", "scroll"}
    <3>1. line[1] = "widen" /\ line[2] = "shoot"
      BY <1>1
    <3>2. i = 1 \/ i = 2
      BY <2>3
    <3>3. QED
      BY <3>1, <3>2
  <2>4. Rest(line, {"widen", "shoot", "scroll"}, "restore")
    BY <2>1, <2>2, <2>3 DEF Rest
  <2>5. QED
    BY <2>2, <2>4, RestHas DEF Working
<1>2. CASE line = <<"widen", "scroll", "shoot", "restore">>
  <2>1. Len(line) = 4 /\ line[4] = "restore"
    BY <1>2
  <2>2. line \in Seq(ShotStep)
    BY <1>2 DEF ShotStep
  <2>3. ASSUME NEW i \in 1..4, i # 4 PROVE line[i] \in {"widen", "shoot", "scroll"}
    <3>1. line[1] = "widen" /\ line[2] = "scroll" /\ line[3] = "shoot"
      BY <1>2
    <3>2. i = 1 \/ i = 2 \/ i = 3
      BY <2>3
    <3>3. QED
      BY <3>1, <3>2
  <2>4. Rest(line, {"widen", "shoot", "scroll"}, "restore")
    BY <2>1, <2>2, <2>3 DEF Rest
  <2>5. QED
    BY <2>2, <2>4, RestHas DEF Working
<1>3. CASE line = <<"widen", "shoot", "widen", "shoot", "widen", "shoot", "restore">>
  <2>1. Len(line) = 7 /\ line[7] = "restore"
    BY <1>3
  <2>2. line \in Seq(ShotStep)
    BY <1>3 DEF ShotStep
  <2>3. ASSUME NEW i \in 1..7, i # 7 PROVE line[i] \in {"widen", "shoot", "scroll"}
    <3>1. /\ line[1] = "widen" /\ line[2] = "shoot" /\ line[3] = "widen"
          /\ line[4] = "shoot" /\ line[5] = "widen" /\ line[6] = "shoot"
      BY <1>3
    <3>2. i = 1 \/ i = 2 \/ i = 3 \/ i = 4 \/ i = 5 \/ i = 6
      BY <2>3
    <3>3. QED
      BY <3>1, <3>2
  <2>4. Rest(line, {"widen", "shoot", "scroll"}, "restore")
    BY <2>1, <2>2, <2>3 DEF Rest
  <2>5. QED
    BY <2>2, <2>4, RestHas DEF Working
<1>4. QED
  BY <1>1, <1>2, <1>3 DEF PrettyScreenshotCmd, ResponsiveCmd

(* and those that mark.                                                     *)
LEMMA MarkingLines ==
  ASSUME NEW line \in AnnotateCmd \cup HeatmapCmd \cup ScopedReadCmd
  PROVE  line \in Seq(ShotStep) /\ Working(line) /\ ~Resizes(line)
<1>1. CASE line = <<"draw", "shoot", "undraw">>
  <2>1. Len(line) = 3 /\ line[1] = "draw" /\ line[2] = "shoot" /\ line[3] = "undraw"
    BY <1>1
  <2>2. line \in Seq(ShotStep)
    BY <1>1 DEF ShotStep
  <2>3. Rest(line, {"draw", "shoot"}, "undraw")
    BY <2>1, <2>2 DEF Rest
  <2>4. QED
    BY <2>2, <2>3, RestHas DEF Working, Resizes
<1>2. CASE line = <<"paint", "shoot", "unpaint">>
  <2>1. Len(line) = 3 /\ line[1] = "paint" /\ line[2] = "shoot" /\ line[3] = "unpaint"
    BY <1>2
  <2>2. line \in Seq(ShotStep)
    BY <1>2 DEF ShotStep
  <2>3. Rest(line, {"paint", "shoot"}, "unpaint")
    BY <2>1, <2>2 DEF Rest
  <2>4. QED
    BY <2>2, <2>3, RestHas DEF Working, Resizes
<1>3. CASE line = <<"hide", "read", "unhide">>
  <2>1. Len(line) = 3 /\ line[1] = "hide" /\ line[2] = "read" /\ line[3] = "unhide"
    BY <1>3
  <2>2. line \in Seq(ShotStep)
    BY <1>3 DEF ShotStep
  <2>3. Rest(line, {"hide", "read"}, "unhide")
    BY <2>1, <2>2 DEF Rest
  <2>4. QED
    BY <2>2, <2>3, RestHas DEF Working, Resizes
<1>4. QED
  BY <1>1, <1>2, <1>3 DEF AnnotateCmd, HeatmapCmd, ScopedReadCmd

(* One request moves.                                                       *)
LEMMA OneShotMoves ==
  ASSUME ShotTypes, NEW s \in Shot, NEW q \in Seq(ShotStep), Working(q), todo' = [todo EXCEPT ![s] = q]
  PROVE  /\ todo' \in [Shot -> Seq(ShotStep)] /\ \A r \in Shot : Working(todo'[r])
         /\ todo'[s] = q /\ \A r \in Shot \ {s} : todo'[r] = todo[r]
BY DEF ShotTypes

(* One that resizes as before leaves the width to one request.              *)
LEMMA KindStays ==
  ASSUME ShotTypes, OneResizes, NEW s \in Shot, NEW q, todo'[s] = q,
         \A r \in Shot \ {s} : todo'[r] = todo[r],
         Resizes(q) <=> Resizes(todo[s]),
         size' = size \/ Resizes(q),
         UNCHANGED <<tracked, spoiled, noted>>
  PROVE  OneResizes'
<1>1. \A r \in Shot : Resizes(todo'[r]) <=> Resizes(todo[r])
  OBVIOUS
<1>2. SUFFICES ASSUME ~spoiled
               PROVE  /\ \A t, r \in Shot : Resizes(todo'[t]) /\ Resizes(todo'[r]) => t = r
                      /\ \A t \in Shot : Resizes(todo'[t]) => noted[t] = tracked
                      /\ (\A t \in Shot : ~Resizes(todo'[t])) => size' = tracked
  BY DEF OneResizes, Resizes, In
<1>3. /\ \A t, r \in Shot : Resizes(todo[t]) /\ Resizes(todo[r]) => t = r
      /\ \A t \in Shot : Resizes(todo[t]) => noted[t] = tracked
      /\ (\A t \in Shot : ~Resizes(todo[t])) => size = tracked
  BY <1>2 DEF OneResizes
<1>4. QED
  BY <1>1, <1>3

(* No mark is added, and nobody forgets to take one off.                    *)
LEMMA RemoversStay ==
  ASSUME HasRemover, NEW s \in Shot, NEW q, todo'[s] = q,
         \A r \in Shot \ {s} : todo'[r] = todo[r],
         marks' \subseteq marks, littered => littered' \/ "annotation" \notin marks',
         \A last \in {"unhide", "unpaint", "undraw"} : In(todo[s], last) => In(q, last)
  PROVE  HasRemover'
<1>1. \A last \in {"unhide", "unpaint", "undraw"}, r \in Shot : In(todo[r], last) => In(todo'[r], last)
  OBVIOUS
<1>2. \A last \in {"unhide", "unpaint", "undraw"} :
        (\E r \in Shot : In(todo[r], last)) => \E r \in Shot : In(todo'[r], last)
  BY <1>1
<1>3. /\ "hidden" \in marks' => \E r \in Shot : In(todo'[r], "unhide")
      /\ "heatmap" \in marks' => \E r \in Shot : In(todo'[r], "unpaint")
      /\ "annotation" \in marks' /\ ~littered' => \E r \in Shot : In(todo'[r], "undraw")
  BY <1>2 DEF HasRemover
<1>4. QED
  BY <1>3 DEF HasRemover, In

(* A step that only takes the next step off the line.                       *)
LEMMA PopFacts ==
  ASSUME ShotInv, NEW s \in Shot, todo[s] # <<>>, Pops(s)
  PROVE  \E q \in Seq(ShotStep) :
           /\ q = Tail(todo[s]) /\ Working(q) /\ todo' = [todo EXCEPT ![s] = q]
           /\ todo' \in [Shot -> Seq(ShotStep)] /\ \A r \in Shot : Working(todo'[r])
           /\ todo'[s] = q /\ \A r \in Shot \ {s} : todo'[r] = todo[r]
           /\ In(todo[s], Head(todo[s]))
<1>1. Working(todo[s]) /\ todo[s] \in Seq(ShotStep)
  BY DEF ShotInv, ShotTypes
<1>2. PICK q : q = Tail(todo[s])
  OBVIOUS
<1>3. q \in Seq(ShotStep) /\ Working(q)
  BY <1>1, <1>2, WorkGoesOn
<1>4. todo' = [todo EXCEPT ![s] = q]
  BY <1>2 DEF Pops
<1>5. In(todo[s], Head(todo[s]))
  BY <1>1, HeadIsIn
<1>6. QED
  BY <1>2, <1>3, <1>4, <1>5, OneShotMoves DEF ShotInv

(* The page is widened,                                                     *)
LEMMA WidensKeeps ==
  ASSUME ShotInv, NEW s \in Shot, NEW w \in Width, Widens(s, w)
  PROVE  ShotInv'
<1>1. todo[s] # <<>> /\ Head(todo[s]) = "widen" /\ Pops(s)
  BY DEF Widens, NextIs
<1>2. PICK q \in Seq(ShotStep) :
           /\ q = Tail(todo[s]) /\ Working(q) /\ todo' = [todo EXCEPT ![s] = q]
           /\ todo' \in [Shot -> Seq(ShotStep)] /\ \A r \in Shot : Working(todo'[r])
           /\ todo'[s] = q /\ \A r \in Shot \ {s} : todo'[r] = todo[r]
           /\ In(todo[s], Head(todo[s]))
  BY <1>1, PopFacts
<1>3. Working(todo[s])
  BY DEF ShotInv, ShotTypes
<1>4. In(todo[s], "restore") /\ In(q, "restore")
  BY <1>1, <1>2, <1>3, WorkIsOneKind, WorkGoesOn DEF LastStep
<1>5. \A last \in {"unhide", "unpaint", "undraw"} : In(todo[s], last) => In(q, last)
  BY <1>1, <1>2, <1>3, WorkGoesOn DEF LastStep
<1>6. size' = w /\ UNCHANGED <<tracked, marks, spoiled, littered, noted>>
  BY DEF Widens
<1>7. OneResizes'
  BY <1>2, <1>4, <1>6, KindStays DEF ShotInv, Resizes
<1>8. HasRemover'
  <2>1. marks' \subseteq marks /\ (littered => littered' \/ "annotation" \notin marks')
    BY <1>6
  <2>2. HasRemover
    BY DEF ShotInv
  <2>3. todo'[s] = q /\ \A r \in Shot \ {s} : todo'[r] = todo[r]
    BY <1>2
  <2>4. QED
    BY <1>5, <2>1, <2>2, <2>3, RemoversStay
<1>9. ShotTypes'
  BY <1>2, <1>6 DEF ShotInv, ShotTypes
<1>10. QED
  BY <1>7, <1>8, <1>9 DEF ShotInv

(* looked at,                                                               *)
LEMMA LooksKeeps ==
  ASSUME ShotInv, NEW s \in Shot, OnlyLooks(s)
  PROVE  ShotInv'
<1>1. todo[s] # <<>> /\ Head(todo[s]) \in {"scroll", "shoot", "read"} /\ Pops(s)
  BY DEF OnlyLooks, NextIs
<1>2. PICK q \in Seq(ShotStep) :
           /\ q = Tail(todo[s]) /\ Working(q) /\ todo' = [todo EXCEPT ![s] = q]
           /\ todo' \in [Shot -> Seq(ShotStep)] /\ \A r \in Shot : Working(todo'[r])
           /\ todo'[s] = q /\ \A r \in Shot \ {s} : todo'[r] = todo[r]
           /\ In(todo[s], Head(todo[s]))
  BY <1>1, PopFacts
<1>3. Working(todo[s])
  BY DEF ShotInv, ShotTypes
<1>4. \A last \in LastStep : In(q, last) <=> In(todo[s], last)
  <2>1. Head(todo[s]) \notin LastStep
    BY <1>1 DEF LastStep
  <2>2. QED
    BY <1>1, <1>2, <1>3, <2>1, WorkGoesOn
<1>5. UNCHANGED <<size, tracked, marks, spoiled, littered, noted>>
  BY DEF OnlyLooks
<1>6. OneResizes'
  <2>1. Resizes(q) <=> Resizes(todo[s])
    BY <1>4 DEF Resizes, LastStep
  <2>2. QED
    BY <1>2, <1>5, <2>1, KindStays DEF ShotInv
<1>7. HasRemover'
  <2>1. \A last \in {"unhide", "unpaint", "undraw"} : In(todo[s], last) => In(q, last)
    BY <1>4 DEF LastStep
  <2>2. marks' \subseteq marks /\ (littered => littered' \/ "annotation" \notin marks')
    BY <1>5
  <2>3. HasRemover
    BY DEF ShotInv
  <2>4. todo'[s] = q /\ \A r \in Shot \ {s} : todo'[r] = todo[r]
    BY <1>2
  <2>5. QED
    BY <2>1, <2>2, <2>3, <2>4, RemoversStay
<1>8. ShotTypes'
  BY <1>2, <1>5 DEF ShotInv, ShotTypes
<1>9. QED
  BY <1>6, <1>7, <1>8 DEF ShotInv

(* and given its width back.                                                *)
LEMMA RestoresKeeps ==
  ASSUME ShotInv, NEW s \in Shot, Restores(s)
  PROVE  ShotInv'
<1>1. todo[s] # <<>> /\ Head(todo[s]) \in {"restore", "resize"} /\ Pops(s)
  BY DEF Restores, NextIs
<1>2. PICK q \in Seq(ShotStep) :
           /\ q = Tail(todo[s]) /\ Working(q) /\ todo' = [todo EXCEPT ![s] = q]
           /\ todo' \in [Shot -> Seq(ShotStep)] /\ \A r \in Shot : Working(todo'[r])
           /\ todo'[s] = q /\ \A r \in Shot \ {s} : todo'[r] = todo[r]
           /\ In(todo[s], Head(todo[s]))
  BY <1>1, PopFacts
<1>3. Working(todo[s])
  BY DEF ShotInv, ShotTypes
<1>4. q = <<>> /\ ~Resizes(q) /\ Resizes(todo[s])
  BY <1>1, <1>2, <1>3, WorkGoesOn, EmptyHasNothing DEF LastStep, Resizes
<1>5. \A last \in {"unhide", "unpaint", "undraw"} : ~In(todo[s], last)
  BY <1>3, <1>4, WorkIsOneKind DEF LastStep, Resizes
<1>6. size' = noted[s] /\ UNCHANGED <<tracked, marks, spoiled, littered, noted>>
  BY DEF Restores
<1>7. OneResizes'
  <2>1. SUFFICES ASSUME ~spoiled
                 PROVE  /\ \A t, r \in Shot : Resizes(todo'[t]) /\ Resizes(todo'[r]) => t = r
                        /\ \A t \in Shot : Resizes(todo'[t]) => noted[t] = tracked
                        /\ (\A t \in Shot : ~Resizes(todo'[t])) => size' = tracked
    BY <1>6 DEF OneResizes, Resizes, In
  <2>2. /\ \A t, r \in Shot : Resizes(todo[t]) /\ Resizes(todo[r]) => t = r
        /\ \A t \in Shot : Resizes(todo[t]) => noted[t] = tracked
    BY <2>1 DEF ShotInv, OneResizes
  <2>3. \A t \in Shot : ~Resizes(todo'[t])
    BY <1>2, <1>4, <2>2
  <2>4. noted[s] = tracked
    BY <1>4, <2>2
  <2>5. QED
    BY <1>6, <2>3, <2>4
<1>8. HasRemover'
  <2>1. marks' \subseteq marks /\ (littered => littered' \/ "annotation" \notin marks')
    BY <1>6
  <2>2. HasRemover
    BY DEF ShotInv
  <2>3. QED
    BY <1>2, <1>5, <2>1, <2>2, RemoversStay
<1>9. ShotTypes'
  BY <1>2, <1>6 DEF ShotInv, ShotTypes
<1>10. QED
  BY <1>7, <1>8, <1>9 DEF ShotInv

(* A mark comes with a step left that takes it off,                         *)
LEMMA MarksKeeps ==
  ASSUME ShotInv, NEW s \in Shot, Marks(s)
  PROVE  ShotInv'
<1>1. PICK step \in {"draw", "paint", "hide"} : NextIs(s, step) /\ marks' = marks \cup {PutsOn(step)}
  BY DEF Marks
<1>2. todo[s] # <<>> /\ Head(todo[s]) = step /\ Pops(s)
  BY <1>1 DEF Marks, NextIs
<1>3. PICK q \in Seq(ShotStep) :
           /\ q = Tail(todo[s]) /\ Working(q) /\ todo' = [todo EXCEPT ![s] = q]
           /\ todo' \in [Shot -> Seq(ShotStep)] /\ \A r \in Shot : Working(todo'[r])
           /\ todo'[s] = q /\ \A r \in Shot \ {s} : todo'[r] = todo[r]
           /\ In(todo[s], Head(todo[s]))
  BY <1>2, PopFacts
<1>4. Working(todo[s])
  BY DEF ShotInv, ShotTypes
<1>5. \A last \in LastStep : In(q, last) <=> In(todo[s], last)
  <2>1. Head(todo[s]) \notin LastStep
    BY <1>2 DEF LastStep
  <2>2. QED
    BY <1>2, <1>3, <1>4, <2>1, WorkGoesOn
<1>6. UNCHANGED <<size, tracked, spoiled, littered, noted>>
  BY DEF Marks
<1>7. OneResizes'
  <2>1. Resizes(q) <=> Resizes(todo[s])
    BY <1>5 DEF Resizes, LastStep
  <2>2. QED
    BY <1>3, <1>6, <2>1, KindStays DEF ShotInv
<1>8. HasRemover'
  <2>1. \A last \in {"unhide", "unpaint", "undraw"}, r \in Shot : In(todo[r], last) => In(todo'[r], last)
    BY <1>3, <1>5 DEF LastStep
  <2>2. \A last \in {"unhide", "unpaint", "undraw"} :
          (\E r \in Shot : In(todo[r], last)) => \E r \in Shot : In(todo'[r], last)
    BY <2>1
  <2>3. /\ step = "hide" => In(todo'[s], "unhide")
        /\ step = "paint" => In(todo'[s], "unpaint")
        /\ step = "draw" => In(todo'[s], "undraw")
    BY <1>2, <1>3, <1>4, <1>5, WorkIsOneKind DEF LastStep
  <2>4. marks' = marks \cup {PutsOn(step)} /\ PutsOn("hide") = "hidden" /\ PutsOn("paint") = "heatmap"
        /\ PutsOn("draw") = "annotation"
    BY <1>1 DEF PutsOn
  <2>5. /\ "hidden" \in marks' => \E r \in Shot : In(todo'[r], "unhide")
        /\ "heatmap" \in marks' => \E r \in Shot : In(todo'[r], "unpaint")
        /\ "annotation" \in marks' /\ ~littered' => \E r \in Shot : In(todo'[r], "undraw")
    BY <1>1, <1>6, <2>2, <2>3, <2>4 DEF ShotInv, HasRemover
  <2>6. QED
    BY <2>5 DEF HasRemover, In
<1>9. ShotTypes'
  <2>1. marks' \subseteq {"annotation", "heatmap", "hidden"}
    BY <1>1 DEF PutsOn, ShotInv, ShotTypes
  <2>2. QED
    BY <1>3, <1>6, <2>1 DEF ShotInv, ShotTypes
<1>10. QED
  BY <1>7, <1>8, <1>9 DEF ShotInv

(* and all of its kind go at once.                                          *)
LEMMA UnmarksKeeps ==
  ASSUME ShotInv, NEW s \in Shot, Unmarks(s)
  PROVE  ShotInv'
<1>1. PICK step \in {"undraw", "unpaint", "unhide"} : NextIs(s, step) /\ marks' = marks \ {TakesOff(step)}
  BY DEF Unmarks
<1>2. todo[s] # <<>> /\ Head(todo[s]) = step /\ Pops(s)
  BY <1>1 DEF Unmarks, NextIs
<1>3. PICK q \in Seq(ShotStep) :
           /\ q = Tail(todo[s]) /\ Working(q) /\ todo' = [todo EXCEPT ![s] = q]
           /\ todo' \in [Shot -> Seq(ShotStep)] /\ \A r \in Shot : Working(todo'[r])
           /\ todo'[s] = q /\ \A r \in Shot \ {s} : todo'[r] = todo[r]
           /\ In(todo[s], Head(todo[s]))
  BY <1>2, PopFacts
<1>4. Working(todo[s]) /\ step \in LastStep
  BY DEF ShotInv, ShotTypes, LastStep
<1>5. q = <<>> /\ In(todo[s], step) /\ \A last \in LastStep : In(todo[s], last) => last = step
  BY <1>2, <1>3, <1>4, WorkGoesOn, WorkIsOneKind
<1>6. UNCHANGED <<size, tracked, spoiled, littered, noted>>
  BY DEF Unmarks
<1>7. OneResizes'
  <2>1. ~Resizes(q) /\ ~Resizes(todo[s])
    BY <1>5, EmptyHasNothing DEF Resizes, LastStep
  <2>2. QED
    BY <1>3, <1>6, <2>1, KindStays DEF ShotInv
<1>8. HasRemover'
  <2>1. \A last \in {"unhide", "unpaint", "undraw"} \ {step}, r \in Shot :
          In(todo[r], last) => In(todo'[r], last)
    BY <1>3, <1>5 DEF LastStep
  <2>2. \A last \in {"unhide", "unpaint", "undraw"} \ {step} :
          (\E r \in Shot : In(todo[r], last)) => \E r \in Shot : In(todo'[r], last)
    BY <2>1
  <2>3. marks' = marks \ {TakesOff(step)} /\ TakesOff("unhide") = "hidden"
        /\ TakesOff("unpaint") = "heatmap" /\ TakesOff("undraw") = "annotation"
    BY <1>1 DEF TakesOff
  <2>4. /\ "hidden" \in marks' => \E r \in Shot : In(todo'[r], "unhide")
        /\ "heatmap" \in marks' => \E r \in Shot : In(todo'[r], "unpaint")
        /\ "annotation" \in marks' /\ ~littered' => \E r \in Shot : In(todo'[r], "undraw")
    BY <1>1, <1>6, <2>2, <2>3 DEF ShotInv, HasRemover
  <2>5. QED
    BY <2>4 DEF HasRemover, In
<1>9. ShotTypes'
  <2>1. marks' \subseteq {"annotation", "heatmap", "hidden"}
    BY <1>1 DEF ShotInv, ShotTypes
  <2>2. QED
    BY <1>3, <1>6, <2>1 DEF ShotInv, ShotTypes
<1>10. QED
  BY <1>7, <1>8, <1>9 DEF ShotInv

(* A request that gives up its line for a shorter one with the same last    *)
(* step.                                                                    *)
LEMMA LeavesKeeps ==
  ASSUME ShotInv, NEW s \in Shot, NEW q \in Seq(ShotStep), Working(q), todo' = [todo EXCEPT ![s] = q],
         Resizes(q) <=> Resizes(todo[s]),
         In(todo[s], "unhide") => In(q, "unhide"), In(todo[s], "unpaint") => In(q, "unpaint"),
         In(todo[s], "undraw") => In(q, "undraw") \/ littered',
         littered' \in BOOLEAN, littered => littered',
         UNCHANGED <<size, tracked, marks, spoiled, noted>>
  PROVE  ShotInv'
<1>1. /\ todo' \in [Shot -> Seq(ShotStep)] /\ \A r \in Shot : Working(todo'[r])
      /\ todo'[s] = q /\ \A r \in Shot \ {s} : todo'[r] = todo[r]
  BY OneShotMoves DEF ShotInv
<1>2. OneResizes'
  BY <1>1, KindStays DEF ShotInv
<1>3. HasRemover'
  <2>1. \A r \in Shot : /\ In(todo[r], "unhide") => In(todo'[r], "unhide")
                        /\ In(todo[r], "unpaint") => In(todo'[r], "unpaint")
                        /\ In(todo[r], "undraw") => In(todo'[r], "undraw") \/ littered'
    BY <1>1
  <2>2. /\ "hidden" \in marks => \E r \in Shot : In(todo[r], "unhide")
        /\ "heatmap" \in marks => \E r \in Shot : In(todo[r], "unpaint")
        /\ "annotation" \in marks /\ ~littered => \E r \in Shot : In(todo[r], "undraw")
    BY DEF ShotInv, HasRemover
  <2>3. /\ "hidden" \in marks' => \E r \in Shot : In(todo'[r], "unhide")
        /\ "heatmap" \in marks' => \E r \in Shot : In(todo'[r], "unpaint")
        /\ "annotation" \in marks' /\ ~littered' => \E r \in Shot : In(todo'[r], "undraw")
    BY <2>1, <2>2
  <2>4. QED
    BY <2>3 DEF HasRemover, In
<1>4. ShotTypes'
  BY <1>1 DEF ShotInv, ShotTypes
<1>5. QED
  BY <1>2, <1>3, <1>4 DEF ShotInv

(* A scroll target that is missing,                                         *)
LEMMA ScrollMissesKeeps ==
  ASSUME ShotInv, NEW s \in Shot, ScrollMisses(s)
  PROVE  ShotInv'
<1>1. todo[s] # <<>> /\ Head(todo[s]) = "scroll" /\ todo[s] \in Seq(ShotStep) /\ Working(todo[s])
  BY DEF ScrollMisses, NextIs, ShotInv, ShotTypes
<1>2. In(todo[s], "restore")
  BY <1>1, HeadIsIn, WorkIsOneKind
<1>3. \A last \in {"unhide", "unpaint", "undraw"} : ~In(todo[s], last)
  BY <1>1, <1>2, WorkIsOneKind DEF LastStep
<1>4. PICK q : q = <<"restore">>
  OBVIOUS
<1>5. q \in Seq(ShotStep) /\ Working(q) /\ In(q, "restore")
  BY <1>4, OneStepLeft DEF ShotStep
<1>6. littered' \in BOOLEAN /\ (littered => littered')
  BY DEF ScrollMisses, ShotInv, ShotTypes
<1>7. Resizes(q) <=> Resizes(todo[s])
  BY <1>2, <1>5 DEF Resizes
<1>8. todo' = [todo EXCEPT ![s] = q] /\ UNCHANGED <<size, tracked, marks, spoiled, noted>>
  BY <1>4 DEF ScrollMisses
<1>9. QED
  BY <1>3, <1>5, <1>6, <1>7, <1>8, LeavesKeeps

(* a mark or a look that fails,                                             *)
LEMMA FailsMarkingKeeps ==
  ASSUME ShotInv, NEW s \in Shot, FailsMarking(s)
  PROVE  ShotInv'
<1>1. Working(todo[s]) /\ ~Resizes(todo[s])
  BY DEF FailsMarking, ShotInv, ShotTypes, Sizes, Has, Resizes, In
<1>2. PICK q : q = CleansAfter(s)
  OBVIOUS
<1>3. q = IF In(todo[s], "unhide") THEN <<"unhide">>
          ELSE IF In(todo[s], "unpaint") THEN <<"unpaint">> ELSE <<>>
  <2>1. CASE Has(s, "unhide")
    <3>1. ~Has(s, "unpaint")
      BY <1>1, <2>1, WorkIsOneKind DEF LastStep, Has, In
    <3>2. QED
      BY <1>2, <2>1, <3>1 DEF CleansAfter, Has, In
  <2>2. CASE ~Has(s, "unhide") /\ Has(s, "unpaint")
    BY <1>2, <2>2 DEF CleansAfter, Has, In
  <2>3. CASE ~Has(s, "unhide") /\ ~Has(s, "unpaint")
    BY <1>2, <2>3 DEF CleansAfter, Has, In
  <2>4. QED
    BY <2>1, <2>2, <2>3
<1>4. q \in Seq(ShotStep) /\ Working(q)
  BY <1>3, OneStepLeft, EmptySeq DEF Working, ShotStep
<1>5. /\ In(todo[s], "unhide") => In(q, "unhide")
      /\ In(todo[s], "unpaint") => In(q, "unpaint")
  BY <1>1, <1>3, OneStepLeft, WorkIsOneKind DEF LastStep
<1>6. ~Resizes(q)
  <2>1. CASE q = <<>>
    BY <2>1, EmptyHasNothing DEF Resizes
  <2>2. CASE q = <<"unhide">>
    BY <1>4, <2>2, OneStepLeft, WorkIsOneKind DEF Resizes, LastStep
  <2>3. CASE q = <<"unpaint">>
    BY <1>4, <2>3, OneStepLeft, WorkIsOneKind DEF Resizes, LastStep
  <2>4. QED
    BY <1>3, <2>1, <2>2, <2>3
<1>7. littered' = (littered \/ In(todo[s], "undraw")) /\ littered \in BOOLEAN
  BY DEF FailsMarking, Has, In, ShotInv, ShotTypes
<1>8. littered' \in BOOLEAN /\ (littered => littered') /\ (In(todo[s], "undraw") => littered')
  BY <1>7
<1>9. todo' = [todo EXCEPT ![s] = q] /\ UNCHANGED <<size, tracked, marks, spoiled, noted>>
  BY <1>2 DEF FailsMarking
<1>10. QED
  BY <1>1, <1>4, <1>5, <1>6, <1>8, <1>9, LeavesKeeps

(* an annotation that fails as its handler lists,                           *)
LEMMA FailsAsListedKeeps ==
  ASSUME ShotInv, NEW s \in Shot, FailsAsListed(s)
  PROVE  ShotInv'
<1>1. Working(todo[s]) /\ In(todo[s], "undraw")
  BY DEF FailsAsListed, ShotInv, ShotTypes, Has, In
<1>2. PICK q : q = <<"undraw">>
  OBVIOUS
<1>3. q \in Seq(ShotStep) /\ Working(q) /\ In(q, "undraw")
  BY <1>2, OneStepLeft DEF ShotStep
<1>4. ~Resizes(q) /\ ~Resizes(todo[s]) /\ ~In(todo[s], "unhide") /\ ~In(todo[s], "unpaint")
  BY <1>1, <1>3, WorkIsOneKind DEF Resizes, LastStep
<1>5. littered' \in BOOLEAN /\ (littered => littered')
  BY DEF FailsAsListed, ShotInv, ShotTypes
<1>6. todo' = [todo EXCEPT ![s] = q] /\ UNCHANGED <<size, tracked, marks, spoiled, noted>>
  BY <1>2 DEF FailsAsListed
<1>7. QED
  BY <1>3, <1>4, <1>5, <1>6, LeavesKeeps

(* and a resize that does, which spoils the width.                          *)
LEMMA FailsResizingKeeps ==
  ASSUME ShotInv, NEW s \in Shot, FailsResizing(s)
  PROVE  ShotInv'
<1>1. Working(todo[s]) /\ Resizes(todo[s])
  BY DEF FailsResizing, ShotInv, ShotTypes, Sizes, Has, Resizes, In
<1>2. PICK q : q = <<>>
  OBVIOUS
<1>3. q \in Seq(ShotStep) /\ Working(q)
  BY <1>2, EmptySeq DEF Working
<1>4. /\ todo' = [todo EXCEPT ![s] = q] /\ spoiled' = TRUE
      /\ UNCHANGED <<size, tracked, marks, littered, noted>>
  BY <1>2 DEF FailsResizing, Ends
<1>5. /\ todo' \in [Shot -> Seq(ShotStep)] /\ \A r \in Shot : Working(todo'[r])
      /\ todo'[s] = q /\ \A r \in Shot \ {s} : todo'[r] = todo[r]
  BY <1>3, <1>4, OneShotMoves DEF ShotInv
<1>6. \A last \in {"unhide", "unpaint", "undraw"} : In(todo[s], last) => In(q, last)
  BY <1>1, WorkIsOneKind DEF Resizes, LastStep
<1>7. HasRemover'
  <2>1. marks' \subseteq marks /\ (littered => littered' \/ "annotation" \notin marks')
    BY <1>4
  <2>2. HasRemover
    BY DEF ShotInv
  <2>3. QED
    BY <1>5, <1>6, <2>1, <2>2, RemoversStay
<1>8. OneResizes'
  BY <1>4 DEF OneResizes
<1>9. ShotTypes'
  BY <1>4, <1>5 DEF ShotInv, ShotTypes
<1>10. QED
  BY <1>7, <1>8, <1>9 DEF ShotInv

(* Another document has no marks.                                           *)
LEMMA LoadsAnotherKeeps ==
  ASSUME ShotInv, LoadsAnother
  PROVE  ShotInv'
<1>1. marks' = {} /\ littered' = FALSE /\ UNCHANGED <<size, tracked, spoiled, todo, noted>>
  BY DEF LoadsAnother
<1>2. ShotTypes'
  BY <1>1 DEF ShotInv, ShotTypes
<1>3. OneResizes'
  BY <1>1 DEF ShotInv, OneResizes, Resizes, In
<1>4. HasRemover'
  BY <1>1 DEF HasRemover
<1>5. QED
  BY <1>2, <1>3, <1>4 DEF ShotInv

(* A request starts a line.                                                 *)
LEMMA StartFacts ==
  ASSUME ShotInv, NEW s \in Shot, NEW line \in Seq(ShotStep), Working(line), BeginsLine(s, line)
  PROVE  /\ todo' \in [Shot -> Seq(ShotStep)] /\ \A r \in Shot : Working(todo'[r])
         /\ todo'[s] = line /\ \A r \in Shot \ {s} : todo'[r] = todo[r]
         /\ ~Resizes(todo[s]) /\ HasRemover' /\ UNCHANGED <<size, marks, littered>>
<1>1. todo[s] = <<>> /\ todo' = [todo EXCEPT ![s] = line] /\ UNCHANGED <<size, marks, littered>>
  BY DEF BeginsLine
<1>2. /\ todo' \in [Shot -> Seq(ShotStep)] /\ \A r \in Shot : Working(todo'[r])
      /\ todo'[s] = line /\ \A r \in Shot \ {s} : todo'[r] = todo[r]
  BY <1>1, OneShotMoves DEF ShotInv
<1>3. \A step : ~In(todo[s], step)
  BY <1>1, EmptyHasNothing
<1>4. HasRemover'
  <2>1. marks' \subseteq marks /\ (littered => littered' \/ "annotation" \notin marks')
    BY <1>1
  <2>2. HasRemover
    BY DEF ShotInv
  <2>3. QED
    BY <1>2, <1>3, <2>1, <2>2, RemoversStay
<1>5. QED
  BY <1>1, <1>2, <1>3, <1>4 DEF Resizes

(* One that resizes notes the width, and spoils it when another one does    *)
(* too.                                                                     *)
LEMMA StartsResizingKeeps ==
  ASSUME ShotInv, NEW s \in Shot, StartsResizing(s)
  PROVE  ShotInv'
<1>1. PICK line \in PrettyScreenshotCmd \cup ResponsiveCmd : BeginsLine(s, line)
  BY DEF StartsResizing
<1>2. line \in Seq(ShotStep) /\ Working(line) /\ Resizes(line)
  BY ResizingLines DEF Resizes
<1>3. /\ todo' \in [Shot -> Seq(ShotStep)] /\ \A r \in Shot : Working(todo'[r])
      /\ todo'[s] = line /\ \A r \in Shot \ {s} : todo'[r] = todo[r]
      /\ ~Resizes(todo[s]) /\ HasRemover' /\ UNCHANGED <<size, marks, littered>>
  BY <1>1, <1>2, StartFacts
<1>4. /\ noted' = [noted EXCEPT ![s] = size] /\ tracked' = tracked
      /\ spoiled' = (spoiled \/ \E other \in Shot \ {s} : Resizes(todo[other]))
  BY DEF StartsResizing, Sizes, Has, Resizes, In
<1>5. ShotTypes'
  <2>1. noted' \in [Shot -> Width] /\ spoiled' \in BOOLEAN
    BY <1>4 DEF ShotInv, ShotTypes
  <2>2. QED
    BY <1>3, <1>4, <2>1 DEF ShotInv, ShotTypes
<1>6. OneResizes'
  <2>1. SUFFICES ASSUME ~spoiled'
                 PROVE  /\ \A t, r \in Shot : Resizes(todo'[t]) /\ Resizes(todo'[r]) => t = r
                        /\ \A t \in Shot : Resizes(todo'[t]) => noted'[t] = tracked'
                        /\ (\A t \in Shot : ~Resizes(todo'[t])) => size' = tracked'
    BY DEF OneResizes, Resizes, In
  <2>2. ~spoiled /\ \A other \in Shot \ {s} : ~Resizes(todo[other])
    BY <1>4, <2>1
  <2>3. size = tracked
    BY <1>3, <2>2 DEF ShotInv, OneResizes
  <2>4. \A t \in Shot : Resizes(todo'[t]) <=> t = s
    BY <1>2, <1>3, <2>2
  <2>5. noted'[s] = size
    BY <1>4 DEF ShotInv, ShotTypes
  <2>6. QED
    BY <1>4, <2>3, <2>4, <2>5
<1>7. QED
  BY <1>3, <1>5, <1>6 DEF ShotInv

(* setViewport gives the tab another width to keep.                         *)
LEMMA StartsViewportKeeps ==
  ASSUME ShotInv, NEW s \in Shot, NEW w \in Width, StartsViewport(s, w)
  PROVE  ShotInv'
<1>1. PICK line : line = <<"resize">> /\ BeginsLine(s, line)
  BY DEF StartsViewport, ResizeCmd
<1>2. line \in Seq(ShotStep) /\ Working(line) /\ Resizes(line)
  BY <1>1, OneStepLeft DEF Resizes, ShotStep
<1>3. /\ todo' \in [Shot -> Seq(ShotStep)] /\ \A r \in Shot : Working(todo'[r])
      /\ todo'[s] = line /\ \A r \in Shot \ {s} : todo'[r] = todo[r]
      /\ ~Resizes(todo[s]) /\ HasRemover' /\ UNCHANGED <<size, marks, littered>>
  BY <1>1, <1>2, StartFacts
<1>4. /\ noted' = [noted EXCEPT ![s] = w] /\ tracked' = w
      /\ spoiled' = \E other \in Shot \ {s} : Resizes(todo[other])
  BY DEF StartsViewport, Sizes, Has, Resizes, In
<1>5. ShotTypes'
  <2>1. noted' \in [Shot -> Width] /\ spoiled' \in BOOLEAN
    BY <1>4 DEF ShotInv, ShotTypes
  <2>2. QED
    BY <1>3, <1>4, <2>1 DEF ShotInv, ShotTypes
<1>6. OneResizes'
  <2>1. SUFFICES ASSUME ~spoiled'
                 PROVE  /\ \A t, r \in Shot : Resizes(todo'[t]) /\ Resizes(todo'[r]) => t = r
                        /\ \A t \in Shot : Resizes(todo'[t]) => noted'[t] = tracked'
                        /\ (\A t \in Shot : ~Resizes(todo'[t])) => size' = tracked'
    BY DEF OneResizes, Resizes, In
  <2>2. \A other \in Shot \ {s} : ~Resizes(todo[other])
    BY <1>4, <2>1
  <2>3. \A t \in Shot : Resizes(todo'[t]) <=> t = s
    BY <1>2, <1>3, <2>2
  <2>4. noted'[s] = w
    BY <1>4 DEF ShotInv, ShotTypes
  <2>5. QED
    BY <1>4, <2>3, <2>4
<1>7. QED
  BY <1>3, <1>5, <1>6 DEF ShotInv

(* One that marks has marked nothing yet.                                   *)
LEMMA StartsMarkingKeeps ==
  ASSUME ShotInv, NEW s \in Shot, StartsMarking(s)
  PROVE  ShotInv'
<1>1. PICK line \in AnnotateCmd \cup HeatmapCmd \cup ScopedReadCmd : BeginsLine(s, line)
  BY DEF StartsMarking
<1>2. line \in Seq(ShotStep) /\ Working(line) /\ ~Resizes(line)
  BY MarkingLines
<1>3. /\ todo' \in [Shot -> Seq(ShotStep)] /\ \A r \in Shot : Working(todo'[r])
      /\ todo'[s] = line /\ \A r \in Shot \ {s} : todo'[r] = todo[r]
      /\ ~Resizes(todo[s]) /\ HasRemover' /\ UNCHANGED <<size, marks, littered>>
  BY <1>1, <1>2, StartFacts
<1>4. UNCHANGED <<tracked, spoiled, noted>>
  BY DEF StartsMarking
<1>5. ShotTypes'
  BY <1>3, <1>4 DEF ShotInv, ShotTypes
<1>6. OneResizes'
  BY <1>2, <1>3, <1>4, KindStays DEF ShotInv
<1>7. QED
  BY <1>3, <1>5, <1>6 DEF ShotInv

(* No request, no marks.                                                    *)
LEMMA ShotInvInit ==
  ASSUME ShotInit
  PROVE  ShotInv
<1>1. \A s \in Shot : todo[s] = <<>>
  BY DEF ShotInit
<1>2. \A s \in Shot : ~Resizes(todo[s])
  BY <1>1, EmptyHasNothing DEF Resizes
<1>3. ShotTypes
  <2>1. <<>> \in Seq(ShotStep) /\ Working(<<>>)
    BY EmptySeq DEF Working
  <2>2. QED
    BY <2>1 DEF ShotInit, ShotTypes
<1>4. OneResizes
  BY <1>2 DEF ShotInit, OneResizes
<1>5. HasRemover
  BY DEF ShotInit, HasRemover
<1>6. QED
  BY <1>3, <1>4, <1>5 DEF ShotInv

(* Every step keeps the invariant.                                          *)
LEMMA ShotInvNext ==
  ASSUME ShotInv, [ShotNext]_shotVars
  PROVE  ShotInv'
<1>1. ASSUME NEW s \in Shot,
             \/ StartsResizing(s) \/ StartsMarking(s) \/ Restores(s) \/ OnlyLooks(s) \/ ScrollMisses(s)
             \/ Marks(s) \/ Unmarks(s) \/ FailsMarking(s) \/ FailsAsListed(s) \/ FailsResizing(s)
      PROVE  ShotInv'
  BY <1>1, StartsResizingKeeps, StartsMarkingKeeps, RestoresKeeps, LooksKeeps, ScrollMissesKeeps,
     MarksKeeps, UnmarksKeeps, FailsMarkingKeeps, FailsAsListedKeeps, FailsResizingKeeps
<1>2. ASSUME NEW s \in Shot, NEW w \in Width, StartsViewport(s, w) \/ Widens(s, w) PROVE ShotInv'
  BY <1>2, StartsViewportKeeps, WidensKeeps
<1>3. CASE LoadsAnother
  BY <1>3, LoadsAnotherKeeps
<1>4. CASE UNCHANGED shotVars
  <2>1. UNCHANGED <<size, tracked, marks, spoiled, littered, todo, noted>>
    BY <1>4 DEF shotVars
  <2>2. QED
    BY <2>1 DEF ShotInv, ShotTypes, OneResizes, HasRemover, Resizes, In
<1>5. QED
  BY <1>1, <1>2, <1>3, <1>4 DEF ShotNext

(* So the width is given back and the marks come off.                       *)
LEMMA ShotInvSafe ==
  ASSUME ShotInv
  PROVE  ShotsCleanUp
<1>1. \A s \in Shot : Len(todo[s]) <= 7
  <2>1. ASSUME NEW s \in Shot PROVE Len(todo[s]) <= 7
    <3>1. Working(todo[s])
      BY DEF ShotInv, ShotTypes
    <3>2. todo[s] = <<>> \/ Len(todo[s]) \in 1..7
      BY <3>1 DEF Working, Rest
    <3>3. CASE todo[s] = <<>>
      <4>1. Len(todo[s]) = 0
        BY <3>3, EmptySeq
      <4>2. QED
        BY <4>1
    <3>4. CASE Len(todo[s]) \in 1..7
      <4>1. PICK n \in 1..7 : n = Len(todo[s])
        BY <3>4
      <4>2. n <= 7
        OBVIOUS
      <4>3. QED
        BY <4>1, <4>2
    <3>5. QED
      BY <3>2, <3>3, <3>4
  <2>2. QED
    BY <2>1
<1>2. ShotTypeOK
  BY <1>1 DEF ShotInv, ShotTypes, ShotTypeOK
<1>3. WidthIsGivenBack
  BY DEF ShotInv, OneResizes, WidthIsGivenBack, Sizes, Has, Resizes, In
<1>4. MarksComeOff
  BY DEF ShotInv, HasRemover, MarksComeOff, Has, In
<1>5. QED
  BY <1>2, <1>3, <1>4 DEF ShotsCleanUp

(* For any number of overlapping requests and any widths, whichever of      *)
(* their awaited steps fail and whenever the page loads another document:   *)
(* what was put on the page will be taken off by a request that still runs, *)
(* and when none of those that resize runs the page has the width that the  *)
(* manager tracks, unless one failed half way or two overlapped (write-     *)
(* commands.ts, meta-commands.ts, snapshot.ts, content-security.ts).        *)
THEOREM ShotsCleanUpHolds == ShotSpec => []ShotsCleanUp
<1>1. ShotInit => ShotInv
  BY ShotInvInit
<1>2. ShotInv /\ [ShotNext]_shotVars => ShotInv'
  BY ShotInvNext
<1>3. ShotInv => ShotsCleanUp
  BY ShotInvSafe
<1>4. QED
  BY <1>1, <1>2, <1>3, PTL DEF ShotSpec
-----------------------------------------------------------------------------
(* Replacing the browser context: tabs, owners and scale.                   *)
CtxKind == {"none", "useragent", "scale", "handoff"}
CtxOp == [at : Stage, kind : CtxKind, saved : Seq(SavedTab), last : 0..MaxId,
          activeId : 0..MaxId, prevScale : Scale, retried : BOOLEAN]

CtxTypes ==
  /\ table \subseteq Id /\ active \in 0..MaxId /\ nextId \in 2..(MaxId + 1)
  /\ owner \in [Id -> Agent \cup {Anyone}] /\ opener \in [Id -> Agent \cup {Anyone}]
  /\ context \in Context /\ open \subseteq Context /\ made \in Context
  /\ home \in [Id -> 0..MaxContext] /\ asking \in [Agent -> 0..MaxContext]
  /\ scale \in Scale /\ built \in Scale \cup {ScreenScale}
  /\ mode \in {"launched", "headed"} /\ released \subseteq Agent
  /\ op \in CtxOp

(* Ids not handed out have no page and no owner.                            *)
FreshIds == \A i \in Id : i >= nextId => home[i] = 0 /\ owner[i] = Anyone
(* OwnerOpenedTheTab of every id, in the table or not.                      *)
OwnersOpened == \A i \in Id : owner[i] \in {Anyone, opener[i]}
(* A saved tab has an id that was handed out, and its owner opened it.      *)
Keeps(tab) == tab.id < nextId /\ tab.owner \in {Anyone, opener[tab.id]}
SavedOwners == \A k \in 1..Len(op.saved) : Keeps(op.saved[k])

(* The scale the context in use should have.                                *)
DueScale == IF mode = "launched" THEN scale ELSE ScreenScale
(* The stages in which it has that scale; in the others a failure closes it *)
(* or builds another.                                                       *)
ScaleDue == op.at \in {"idle", "promoting"} \/ (op.at = "saving" /\ op.kind = "handoff")
(* What the stage says of the context, its scale and the mode: a headed     *)
(* browser is only there once a handoff has launched it, and stays.         *)
StageAgrees ==
  /\ ScaleDue /\ context \in open => built = DueScale
  /\ op.at \in {"cookies", "restoring", "blank"} => context \in open /\ built = DueScale
  /\ op.at = "fallback" => context \notin open
  /\ mode = "headed" =>
       op.at = "idle" \/ (op.kind = "handoff" /\ op.at \in {"cookies", "restoring", "blank"})
  /\ op.at \in {"closing", "creating", "cleanup", "fallback"} => op.kind # "handoff"
  /\ op.at = "promoting" => op.kind = "handoff"

CtxInv == CtxTypes /\ RegisteredPagesLive /\ FreshIds /\ OwnersOpened /\ SavedOwners /\ StageAgrees

(* The bounds.                                                              *)
LEMMA BoundsAreNat == MaxId \in Nat /\ MaxId >= 1 /\ MaxContext \in Nat /\ MaxContext >= 1
BY ContextBounds

(* A set of ids has a greatest one, so Max picks from the set: an interval  *)
(* m..n is least by inclusion for the greatest m.                           *)
LEMMA HasGreatest ==
  ASSUME NEW n \in Nat, NEW S, S \subseteq 1..n, S # {}
  PROVE  Max(S) \in S
<1> DEFINE Above == {t..n : t \in S}
<1>1. Above \subseteq FiniteSubsetsOf(1..n) /\ Above # {}
  <2>1. IsFiniteSet(1..n)
    BY FS_Interval
  <2>2. FiniteSubsetsOf(1..n) = SUBSET (1..n)
    BY <2>1, FS_FiniteSubsetsOfFinite, Zenon
  <2>3. \A t \in S : t..n \in SUBSET (1..n)
    OBVIOUS
  <2>4. \A t \in S : t..n \in FiniteSubsetsOf(1..n)
    BY <2>2, <2>3, Zenon
  <2> QED BY <2>4, Zenon
<1>2. PICK A \in Above : \A B \in Above : ~(<<B, A>> \in StrictSubsetOrdering(1..n))
  <2> HIDE DEF Above
  <2> QED BY <1>1, FS_StrictSubsetOrderingWellFounded, WFMin
<1>3. PICK m \in S : A = m..n
  BY <1>2
<1>4. ASSUME NEW s \in S, s > m PROVE FALSE
  <2>1. s..n \in SUBSET (1..n) /\ m..n \in SUBSET (1..n)
    OBVIOUS
  <2>2. s..n \subseteq m..n /\ s..n # m..n
    <3>1. s \in Nat /\ m \in Nat /\ m <= n
      OBVIOUS
    <3>2. m \in m..n /\ m \notin s..n
      BY <1>4, <3>1
    <3>3. s..n \subseteq m..n
      BY <1>4, <3>1
    <3> QED BY <3>2, <3>3
  <2>3. <<s..n, m..n>> \in StrictSubsetOrdering(1..n)
    BY <2>1, <2>2 DEF StrictSubsetOrdering
  <2> QED BY <1>2, <1>3, <2>3
<1>5. \A s \in S : m >= s
  BY <1>4
<1> QED BY <1>5 DEF Max

(* And a least one.                                                         *)
LEMMA HasLeast ==
  ASSUME NEW S, S \subseteq Nat, S # {}
  PROVE  Min(S) \in S
<1>1. PICK m \in S : \A s \in S : ~(<<s, m>> \in OpToRel(<, Nat))
  BY NatLessThanWellFounded, WFMin
<1>2. ASSUME NEW s \in S, s < m PROVE FALSE
  <2>1. <<s, m>> \in Nat \X Nat /\ <<s, m>>[1] < <<s, m>>[2]
    BY <1>2
  <2>2. <<s, m>> \in OpToRel(<, Nat)
    BY <2>1 DEF OpToRel
  <2> QED BY <1>1, <2>2
<1>3. \A s \in S : m <= s
  BY <1>2
<1> QED BY <1>3 DEF Min

(* Where a page that closes leaves the manager: at a tab id, or at none.    *)
LEMMA ActiveIsId ==
  ASSUME CtxTypes, NEW S, S \subseteq Id
  PROVE  ActiveAmong(S) \in 0..MaxId
<1>1. CASE S = {}
  BY <1>1, BoundsAreNat DEF ActiveAmong, LastTab, CtxTypes
<1>2. CASE S # {}
  <2>1. Max(S) \in 1..MaxId
    BY <1>2, HasGreatest, BoundsAreNat DEF Id
  <2>2. Max(S) \in 0..MaxId
    BY <2>1, BoundsAreNat
  <2>3. LastTab(S) = Max(S)
    BY <1>2 DEF LastTab
  <2>4. QED
    BY <2>2, <2>3 DEF ActiveAmong, CtxTypes
<1>3. QED
  BY <1>1, <1>2

(* The pages that a context leaves behind live in the others.               *)
LEMMA SurvivorsLive ==
  ASSUME CtxTypes, RegisteredPagesLive, FreshIds, NEW x
  PROVE  /\ Survivors(x) \subseteq Id /\ Dies(x) \in [Id -> 0..MaxContext]
         /\ \A i \in Survivors(x) : Dies(x)[i] \in open \ {x}
         /\ \A i \in Id : i >= nextId => Dies(x)[i] = 0
BY BoundsAreNat DEF CtxTypes, RegisteredPagesLive, FreshIds, Survivors, Dies

(* Types of what PagesGo and RegistersKeeps change.                         *)
Tables ==
  /\ table \subseteq Id /\ nextId \in 2..(MaxId + 1)
  /\ owner \in [Id -> Agent \cup {Anyone}] /\ opener \in [Id -> Agent \cup {Anyone}]
  /\ home \in [Id -> 0..MaxContext] /\ open \subseteq Context

(* A context goes with its pages.                                           *)
LEMMA PagesGo ==
  ASSUME CtxInv, NEW x, open' = open \ {x}, home' = Dies(x), table' = Survivors(x),
         active' = ActiveAmong(Survivors(x)), UNCHANGED <<owner, nextId, opener>>
  PROVE  /\ Tables' /\ active' \in 0..MaxId
         /\ RegisteredPagesLive' /\ FreshIds' /\ OwnersOpened'
         /\ \A tab \in SavedTab : Keeps(tab) => Keeps(tab)'
<1>1. CtxTypes /\ RegisteredPagesLive /\ FreshIds /\ OwnersOpened
  BY DEF CtxInv
<1>2. /\ Survivors(x) \subseteq Id /\ Dies(x) \in [Id -> 0..MaxContext]
      /\ \A i \in Survivors(x) : Dies(x)[i] \in open \ {x}
      /\ \A i \in Id : i >= nextId => Dies(x)[i] = 0
  BY <1>1, SurvivorsLive
<1>3. active' \in 0..MaxId
  BY <1>1, <1>2, ActiveIsId
<1>4. Tables'
  BY <1>1, <1>2 DEF CtxTypes, Tables
<1>5. RegisteredPagesLive'
  BY <1>2 DEF RegisteredPagesLive
<1>6. FreshIds' /\ OwnersOpened'
  BY <1>1, <1>2 DEF FreshIds, OwnersOpened
<1>7. \A tab \in SavedTab : Keeps(tab) => Keeps(tab)'
  BY DEF Keeps
<1>8. QED
  BY <1>3, <1>4, <1>5, <1>6, <1>7

(* A page gets a fresh id, in a context that is open, for the one who       *)
(* opened it or for nobody.                                                 *)
LEMMA RegistersKeeps ==
  ASSUME CtxInv, NEW x \in Context, NEW who, NEW first \in Agent \cup {Anyone}, who \in {Anyone, first},
         Registers(x, who, first), x \in open', open \subseteq open', open' \subseteq Context
  PROVE  /\ Tables' /\ nextId \in 1..MaxId
         /\ RegisteredPagesLive' /\ FreshIds' /\ OwnersOpened'
         /\ \A tab \in SavedTab : Keeps(tab) => Keeps(tab)'
<1>1. /\ CtxTypes /\ RegisteredPagesLive /\ FreshIds /\ OwnersOpened
      /\ MaxId \in Nat /\ MaxContext \in Nat
  BY BoundsAreNat DEF CtxInv
<1>2. nextId \in Id /\ nextId \in Nat /\ nextId \in 2..MaxId /\ nextId' = nextId + 1
  BY <1>1 DEF Registers, CtxTypes, Id
<1>3. x \in 0..MaxContext /\ x # 0
  BY <1>1 DEF Context
<1>4. home' = [home EXCEPT ![nextId] = x] /\ home' \in [Id -> 0..MaxContext]
  BY <1>1, <1>2, <1>3 DEF Registers, CtxTypes
<1>5. opener' = [opener EXCEPT ![nextId] = first] /\ opener' \in [Id -> Agent \cup {Anyone}]
  BY <1>1, <1>2 DEF Registers, CtxTypes
<1>6. /\ owner' \in [Id -> Agent \cup {Anyone}] /\ owner'[nextId] \in {Anyone, first}
      /\ \A i \in Id : i # nextId => owner'[i] = owner[i]
  <2>1. owner[nextId] = Anyone /\ owner \in [Id -> Agent \cup {Anyone}]
    BY <1>1, <1>2 DEF FreshIds, CtxTypes
  <2>2. CASE who = Anyone
    <3>1. owner' = owner
      BY <2>2 DEF Registers
    <3>2. QED
      BY <2>1, <3>1
  <2>3. CASE who # Anyone
    <3>1. owner' = [owner EXCEPT ![nextId] = who] /\ who = first
      BY <2>3 DEF Registers
    <3>2. QED
      BY <1>2, <2>1, <3>1
  <2>4. QED
    BY <2>2, <2>3
<1>7. table' = table \cup {nextId}
  BY DEF Registers
<1>8. Tables'
  <2>1. nextId' \in 2..(MaxId + 1)
    BY <1>1, <1>2
  <2>2. table' \subseteq Id
    BY <1>1, <1>2, <1>7 DEF CtxTypes
  <2>3. QED
    BY <1>4, <1>5, <1>6, <2>1, <2>2 DEF Tables
<1>9. RegisteredPagesLive'
  BY <1>1, <1>2, <1>4, <1>7 DEF RegisteredPagesLive, CtxTypes
<1>10. FreshIds'
  <2>1. ASSUME NEW i \in Id, i >= nextId' PROVE home'[i] = 0 /\ owner'[i] = Anyone
    <3>1. i \in Nat /\ i # nextId /\ i >= nextId
      BY <1>1, <1>2, <2>1 DEF Id
    <3>2. QED
      BY <1>1, <1>4, <1>6, <3>1 DEF FreshIds, CtxTypes
  <2>2. QED
    BY <2>1 DEF FreshIds
<1>11. OwnersOpened'
  <2>1. ASSUME NEW i \in Id PROVE owner'[i] \in {Anyone, opener'[i]}
    <3>1. CASE i = nextId
      BY <1>1, <1>2, <1>5, <1>6, <3>1 DEF CtxTypes
    <3>2. CASE i # nextId
      BY <1>1, <1>5, <1>6, <3>2 DEF OwnersOpened, CtxTypes
    <3>3. QED
      BY <3>1, <3>2
  <2>2. QED
    BY <2>1 DEF OwnersOpened
<1>12. ASSUME NEW tab \in SavedTab, Keeps(tab) PROVE Keeps(tab)'
  <2>1. tab.id < nextId /\ tab.id \in Id /\ tab.id \in Nat
    BY <1>12 DEF Keeps, SavedTab, Id
  <2>2. opener'[tab.id] = opener[tab.id] /\ tab.id < nextId'
    BY <1>1, <1>2, <1>5, <2>1 DEF CtxTypes
  <2>3. QED
    BY <1>12, <2>2 DEF Keeps
<1>13. nextId \in 1..MaxId
  BY <1>2 DEF Id
<1>14. QED
  BY <1>8, <1>9, <1>10, <1>11, <1>12, <1>13

(* The saved tabs stay good as long as the openers of their ids do.         *)
LEMMA SavedStays ==
  ASSUME CtxInv, \A tab \in SavedTab : Keeps(tab) => Keeps(tab)', op'.saved = op.saved
  PROVE  SavedOwners'
<1>1. PICK q \in Seq(SavedTab) : q = op.saved
  BY DEF CtxInv, CtxTypes, CtxOp
<1>2. \A k \in 1..Len(q) : q[k] \in SavedTab /\ Keeps(q[k])
  BY <1>1 DEF CtxInv, SavedOwners
<1>3. \A k \in 1..Len(q) : Keeps(q[k])'
  BY <1>2
<1>4. QED
  BY <1>1, <1>3 DEF SavedOwners

(* There is none.                                                           *)
LEMMA NothingSaved == op'.saved = <<>> => SavedOwners'
BY EmptySeq DEF SavedOwners

(* No replacement,                                                          *)
LEMMA NoOpIsOp == NoOp \in CtxOp
<1>1. <<>> \in Seq(SavedTab)
  BY EmptySeq
<1>2. QED
  BY <1>1, BoundsAreNat DEF NoOp, CtxOp, Stage, CtxKind, Scale

(* one that begins,                                                         *)
LEMMA BeginsIsOp ==
  ASSUME NEW kind \in CtxKind, NEW prev \in Scale, NEW r, r = Begins(kind, prev)
  PROVE  r \in CtxOp /\ r.at = "saving" /\ r.kind = kind /\ r.saved = <<>>
BY NoOpIsOp DEF Begins, NoOp, CtxOp, Stage

(* and one that goes to its next stage.                                     *)
LEMMA GotoIsOp ==
  ASSUME CtxTypes, NEW stage \in Stage, op' = [op EXCEPT !.at = stage]
  PROVE  op' \in CtxOp /\ op'.at = stage /\ op'.kind = op.kind /\ op'.saved = op.saved
BY DEF CtxTypes, CtxOp

(* An agent asks for a tab,                                                 *)
LEMMA NewTabAsksKeeps ==
  ASSUME CtxInv, NEW a \in Agent, NewTabAsks(a)
  PROVE  CtxInv'
<1>1. /\ asking' = [asking EXCEPT ![a] = context]
      /\ UNCHANGED <<table, owner, active, nextId, home, opener>>
      /\ UNCHANGED <<context, open, made, scale, built, mode, op, released>>
  BY DEF NewTabAsks, tabState
<1>2. context \in 0..MaxContext
  BY BoundsAreNat DEF CtxInv, CtxTypes, Context
<1>3. CtxTypes'
  BY <1>1, <1>2 DEF CtxInv, CtxTypes
<1>4. QED
  BY <1>1, <1>3 DEF CtxInv, RegisteredPagesLive, FreshIds, OwnersOpened, SavedOwners, Keeps,
     StageAgrees, ScaleDue, DueScale

(* is told that there will be none,                                         *)
LEMMA NewTabRejectedKeeps ==
  ASSUME CtxInv, NEW a \in Agent, NewTabRejected(a)
  PROVE  CtxInv'
<1>1. /\ asking' = [asking EXCEPT ![a] = 0]
      /\ UNCHANGED <<table, owner, active, nextId, home, opener>>
      /\ UNCHANGED <<context, open, made, scale, built, mode, op, released>>
  BY DEF NewTabRejected, tabState
<1>2. CtxTypes'
  BY <1>1, BoundsAreNat DEF CtxInv, CtxTypes
<1>3. QED
  BY <1>1, <1>2 DEF CtxInv, RegisteredPagesLive, FreshIds, OwnersOpened, SavedOwners, Keeps,
     StageAgrees, ScaleDue, DueScale

(* or gets it in the context it asked.                                      *)
LEMMA NewTabOpensKeeps ==
  ASSUME CtxInv, NEW a \in Agent, NewTabOpens(a)
  PROVE  CtxInv'
<1>1. /\ asking[a] \in open /\ Registers(asking[a], a, a) /\ active' = nextId
      /\ asking' = [asking EXCEPT ![a] = 0]
      /\ UNCHANGED <<context, open, made, scale, built, mode, op, released>>
  BY DEF NewTabOpens
<1>2. asking[a] \in Context /\ open \subseteq Context
  BY <1>1 DEF CtxInv, CtxTypes
<1>3. /\ Tables' /\ nextId \in 1..MaxId /\ RegisteredPagesLive' /\ FreshIds' /\ OwnersOpened'
      /\ \A tab \in SavedTab : Keeps(tab) => Keeps(tab)'
  <2>1. PICK x \in Context : x = asking[a]
    BY <1>2
  <2>2. Registers(x, a, a) /\ x \in open' /\ open \subseteq open' /\ open' \subseteq Context
    BY <1>1, <1>2, <2>1
  <2>3. a \in Agent \cup {Anyone} /\ a \in {Anyone, a}
    OBVIOUS
  <2>4. QED
    BY <2>2, <2>3, RegistersKeeps
<1>4. SavedOwners'
  BY <1>1, <1>3, SavedStays
<1>5. CtxTypes'
  <2>1. active' \in 0..MaxId
    BY <1>1, <1>3, BoundsAreNat
  <2>2. QED
    BY <1>1, <1>3, <2>1, BoundsAreNat DEF CtxInv, CtxTypes, Tables
<1>6. StageAgrees'
  BY <1>1 DEF CtxInv, StageAgrees, ScaleDue, DueScale
<1>7. QED
  BY <1>3, <1>4, <1>5, <1>6 DEF CtxInv

(* Its tabs belong to nobody when it is released.                           *)
LEMMA ReleaseAgentKeeps ==
  ASSUME CtxInv, NEW a \in Agent, ReleaseAgent(a)
  PROVE  CtxInv'
<1>1. /\ owner' = [i \in Id |-> IF owner[i] = a THEN Anyone ELSE owner[i]]
      /\ released' = released \cup {a}
      /\ UNCHANGED <<table, active, nextId, home, opener, context, open, made, scale, built, mode,
                     op, asking>>
  BY DEF ReleaseAgent
<1>2. CtxTypes'
  BY <1>1 DEF CtxInv, CtxTypes
<1>3. FreshIds' /\ OwnersOpened'
  BY <1>1 DEF CtxInv, FreshIds, OwnersOpened
<1>4. \A tab \in SavedTab : Keeps(tab) => Keeps(tab)'
  BY <1>1 DEF Keeps
<1>5. SavedOwners'
  BY <1>1, <1>4, SavedStays
<1>6. RegisteredPagesLive' /\ StageAgrees'
  BY <1>1 DEF CtxInv, RegisteredPagesLive, StageAgrees, ScaleDue, DueScale
<1>7. QED
  BY <1>2, <1>3, <1>5, <1>6 DEF CtxInv

(* A page goes by itself.                                                   *)
LEMMA PageGoneKeeps ==
  ASSUME CtxInv, NEW i \in Id, PageGone(i)
  PROVE  CtxInv'
<1>1. /\ home' = [home EXCEPT ![i] = 0] /\ table' = table \ {i}
      /\ active' = ActiveAmong(table \ {i})
      /\ UNCHANGED <<owner, nextId, opener, context, open, made, scale, built, mode, op, asking,
                     released>>
  BY DEF PageGone
<1>2. CtxTypes /\ RegisteredPagesLive /\ FreshIds /\ OwnersOpened
  BY DEF CtxInv
<1>3. active' \in 0..MaxId
  <2>1. table \ {i} \subseteq Id
    BY <1>2 DEF CtxTypes
  <2>2. QED
    BY <1>1, <1>2, <2>1, ActiveIsId
<1>4. home' \in [Id -> 0..MaxContext] /\ \A j \in Id : home'[j] = IF j = i THEN 0 ELSE home[j]
  BY <1>1, <1>2, BoundsAreNat DEF CtxTypes
<1>5. CtxTypes'
  BY <1>1, <1>2, <1>3, <1>4 DEF CtxTypes
<1>6. RegisteredPagesLive'
  BY <1>1, <1>2, <1>4 DEF RegisteredPagesLive, CtxTypes
<1>7. FreshIds' /\ OwnersOpened'
  BY <1>1, <1>2, <1>4 DEF FreshIds, OwnersOpened
<1>8. SavedOwners' /\ StageAgrees'
  BY <1>1 DEF CtxInv, SavedOwners, Keeps, StageAgrees, ScaleDue, DueScale
<1>9. QED
  BY <1>5, <1>6, <1>7, <1>8 DEF CtxInv

(* A step of the replacement that touches no tab and no context.            *)
LEMMA OnlyOpMoves ==
  ASSUME CtxInv, UNCHANGED <<table, owner, active, nextId, home, opener>>,
         UNCHANGED <<context, open, made, built, mode, asking, released>>,
         op' \in CtxOp, scale' \in Scale, SavedOwners', StageAgrees'
  PROVE  CtxInv'
<1>1. CtxTypes'
  BY DEF CtxInv, CtxTypes
<1>2. RegisteredPagesLive' /\ FreshIds' /\ OwnersOpened'
  BY DEF CtxInv, RegisteredPagesLive, FreshIds, OwnersOpened
<1>3. QED
  BY <1>1, <1>2 DEF CtxInv

(* A replacement begins.                                                    *)
LEMMA BeginsKeeps ==
  ASSUME CtxInv, SetUserAgent \/ (\E s \in Scale : SetDeviceScaleFactor(s)) \/ Handoff
  PROVE  CtxInv'
<1>1. /\ At("idle") /\ mode = "launched" /\ UNCHANGED <<table, owner, active, nextId, home, opener>>
      /\ UNCHANGED <<context, open, made, built, mode, asking, released>>
      /\ scale' \in Scale
      /\ \E kind \in {"useragent", "scale", "handoff"} :
           op' = Begins(kind, scale) /\ (kind = "handoff" => scale' = scale)
  BY DEF SetUserAgent, SetDeviceScaleFactor, Handoff, tabState, CtxInv, CtxTypes
<1>2. PICK kind \in {"useragent", "scale", "handoff"} :
           op' = Begins(kind, scale) /\ (kind = "handoff" => scale' = scale)
  BY <1>1
<1>3. op' \in CtxOp /\ op'.at = "saving" /\ op'.kind = kind /\ op'.saved = <<>>
  <2>1. kind \in CtxKind /\ scale \in Scale
    BY DEF CtxKind, CtxInv, CtxTypes
  <2>2. QED
    BY <1>2, <2>1, BeginsIsOp
<1>4. SavedOwners'
  BY <1>3, NothingSaved
<1>5. StageAgrees'
  BY <1>1, <1>2, <1>3 DEF CtxInv, StageAgrees, ScaleDue, DueScale, At
<1>6. QED
  BY <1>1, <1>3, <1>4, <1>5, OnlyOpMoves

(* It saves a tab with its owner, who has opened it,                        *)
LEMMA SavesPageKeeps ==
  ASSUME CtxInv, SavesPage
  PROVE  CtxInv'
<1>1. PICK i : i = Min({j \in table : j > op.last})
  OBVIOUS
<1>2. i \in table /\ i \in Id /\ i < nextId
  <2>1. {j \in table : j > op.last} \subseteq Nat /\ {j \in table : j > op.last} # {}
    BY BoundsAreNat DEF SavesPage, CtxInv, CtxTypes, Id
  <2>2. i \in table /\ i \in Id
    BY <1>1, <2>1, HasLeast DEF CtxInv, CtxTypes
  <2>3. home[i] \in open /\ home[i] # 0
    BY <2>2, BoundsAreNat DEF CtxInv, RegisteredPagesLive, CtxTypes, Context
  <2>4. ~(i >= nextId)
    BY <2>2, <2>3 DEF CtxInv, FreshIds
  <2>5. QED
    BY <2>2, <2>4, BoundsAreNat DEF Id, CtxInv, CtxTypes
<1>3. PICK tab : tab = [id |-> i, owner |-> owner[i], isActive |-> i = active]
  OBVIOUS
<1>4. tab \in SavedTab /\ Keeps(tab)
  <2>1. owner[i] \in Agent \cup {Anyone} /\ owner[i] \in {Anyone, opener[i]}
    BY <1>2 DEF CtxInv, CtxTypes, OwnersOpened
  <2>2. tab \in SavedTab
    BY <1>2, <1>3, <2>1 DEF SavedTab
  <2>3. tab.id = i /\ tab.owner = owner[i]
    BY <1>3
  <2>4. QED
    BY <1>2, <2>1, <2>2, <2>3 DEF Keeps
<1>5. PICK q \in Seq(SavedTab) : q = op.saved /\ \A k \in 1..Len(q) : Keeps(q[k])
  BY DEF CtxInv, CtxTypes, CtxOp, SavedOwners
<1>6. PICK longer : longer = Append(q, tab)
  OBVIOUS
<1>7. longer \in Seq(SavedTab) /\ \A k \in 1..Len(longer) : Keeps(longer[k])
  <2>1. /\ longer \in Seq(SavedTab) /\ Len(longer) = Len(q) + 1 /\ longer[Len(q) + 1] = tab
        /\ \A k \in 1..Len(q) : longer[k] = q[k]
    BY <1>4, <1>6, AppendProperties
  <2>2. Len(q) \in Nat
    BY LenProperties
  <2>3. \A k \in 1..(Len(q) + 1) : k \in 1..Len(q) \/ k = Len(q) + 1
    BY <2>2
  <2>4. QED
    BY <1>4, <1>5, <2>1, <2>3
<1>8. /\ At("saving") /\ op' = [op EXCEPT !.last = i, !.saved = longer]
      /\ UNCHANGED <<table, owner, active, nextId, home, opener>>
      /\ UNCHANGED <<context, open, made, scale, built, mode, asking, released>>
  BY <1>1, <1>3, <1>5, <1>6 DEF SavesPage, tabState
<1>9. op' \in CtxOp /\ op'.at = "saving" /\ op'.kind = op.kind /\ op'.saved = longer
  <2>1. i \in 0..MaxId
    BY <1>2, BoundsAreNat DEF Id
  <2>2. QED
    BY <1>7, <1>8, <2>1 DEF CtxInv, CtxTypes, CtxOp, At
<1>10. SavedOwners'
  BY <1>7, <1>8, <1>9 DEF SavedOwners, Keeps
<1>11. StageAgrees'
  BY <1>8, <1>9 DEF CtxInv, StageAgrees, ScaleDue, DueScale, At
<1>12. QED
  BY <1>8, <1>9, <1>10, <1>11, OnlyOpMoves DEF CtxInv, CtxTypes

(* and closes the pages it has saved, or keeps them for the headed browser. *)
LEMMA SavedKeeps ==
  ASSUME CtxInv, Saved
  PROVE  CtxInv'
<1>1. PICK stage \in {"promoting", "closing"} : stage = IF op.kind = "handoff" THEN "promoting" ELSE "closing"
  OBVIOUS
<1>2. /\ At("saving") /\ op' = [op EXCEPT !.last = 0, !.at = stage]
      /\ UNCHANGED <<owner, nextId, opener, context, open, made, scale, built, mode, asking,
                     released>>
  BY <1>1 DEF Saved
<1>3. op' \in CtxOp /\ op'.at = stage /\ op'.kind = op.kind /\ op'.saved = op.saved
  <2>1. stage \in Stage
    BY DEF Stage
  <2>2. 0 \in 0..MaxId
    BY BoundsAreNat
  <2>3. QED
    BY <1>2, <2>1, <2>2 DEF CtxInv, CtxTypes, CtxOp
<1>4. /\ table' \subseteq table /\ active' \in 0..MaxId /\ home' \in [Id -> 0..MaxContext]
      /\ \A i \in table' : home'[i] = home[i]
      /\ \A i \in Id : home'[i] \in {0, home[i]}
  <2>1. CtxTypes
    BY DEF CtxInv
  <2>2. CASE op.kind = "handoff"
    BY <2>1, <2>2 DEF Saved, CtxTypes
  <2>3. CASE op.kind # "handoff"
    BY <2>1, <2>3, BoundsAreNat DEF Saved, CtxTypes
  <2>4. QED
    BY <2>2, <2>3
<1>5. CtxTypes'
  BY <1>2, <1>3, <1>4 DEF CtxInv, CtxTypes
<1>6. RegisteredPagesLive' /\ FreshIds' /\ OwnersOpened'
  BY <1>2, <1>4 DEF CtxInv, RegisteredPagesLive, FreshIds, OwnersOpened
<1>7. SavedOwners'
  BY <1>2, <1>3 DEF CtxInv, SavedOwners, Keeps
<1>8. StageAgrees'
  BY <1>1, <1>2, <1>3 DEF CtxInv, StageAgrees, ScaleDue, DueScale, At
<1>9. QED
  BY <1>5, <1>6, <1>7, <1>8 DEF CtxInv

(* It cannot save from a context that is gone,                              *)
LEMMA SaveFailsKeeps ==
  ASSUME CtxInv, SaveFails
  PROVE  CtxInv'
<1>1. /\ At("saving") /\ context \notin open
      /\ UNCHANGED <<table, owner, active, nextId, home, opener>>
      /\ UNCHANGED <<context, open, made, scale, built, mode, asking, released>>
  BY DEF SaveFails, tabState
<1>2. CASE op' = NoOp
  <2>1. op' \in CtxOp /\ op'.at = "idle" /\ op'.saved = <<>>
    BY <1>2, NoOpIsOp DEF NoOp
  <2>2. SavedOwners'
    BY <2>1, NothingSaved
  <2>3. StageAgrees'
    BY <1>1, <2>1 DEF StageAgrees
  <2>4. QED
    BY <1>1, <2>1, <2>2, <2>3, OnlyOpMoves DEF CtxInv, CtxTypes
<1>3. CASE op.kind # "handoff" /\ op' = [op EXCEPT !.at = "cleanup"]
  <2>1. op' \in CtxOp /\ op'.at = "cleanup" /\ op'.saved = op.saved /\ op'.kind = op.kind
    <3>1. "cleanup" \in Stage
      BY DEF Stage
    <3>2. QED
      BY <1>3, <3>1, GotoIsOp DEF CtxInv
  <2>2. SavedOwners'
    BY <1>1, <2>1 DEF CtxInv, SavedOwners, Keeps
  <2>3. StageAgrees'
    BY <1>1, <1>3, <2>1 DEF CtxInv, StageAgrees, ScaleDue, DueScale, At
  <2>4. QED
    BY <1>1, <2>1, <2>2, <2>3, OnlyOpMoves DEF CtxInv, CtxTypes
<1>4. QED
  BY <1>2, <1>3 DEF SaveFails

(* it gets no new context,                                                  *)
LEMMA ContextFailsKeeps ==
  ASSUME CtxInv, ContextFails
  PROVE  CtxInv'
<1>1. /\ At("creating") /\ op' = [op EXCEPT !.at = "cleanup"]
      /\ UNCHANGED <<table, owner, active, nextId, home, opener>>
      /\ UNCHANGED <<context, open, made, scale, built, mode, asking, released>>
  BY DEF ContextFails, Goto, tabState
<1>2. op' \in CtxOp /\ op'.at = "cleanup" /\ op'.saved = op.saved /\ op'.kind = op.kind
  <2>1. "cleanup" \in Stage
    BY DEF Stage
  <2>2. QED
    BY <1>1, <2>1, GotoIsOp DEF CtxInv
<1>3. SavedOwners'
  BY <1>1, <1>2 DEF CtxInv, SavedOwners, Keeps
<1>4. StageAgrees'
  BY <1>1, <1>2 DEF CtxInv, StageAgrees, ScaleDue, DueScale, At
<1>5. QED
  BY <1>1, <1>2, <1>3, <1>4, OnlyOpMoves DEF CtxInv, CtxTypes

(* or no headed browser.                                                    *)
LEMMA HeadedLaunchFailsKeeps ==
  ASSUME CtxInv, HeadedLaunchFails
  PROVE  CtxInv'
<1>1. /\ At("promoting") /\ op' = NoOp
      /\ UNCHANGED <<table, owner, active, nextId, home, opener>>
      /\ UNCHANGED <<context, open, made, scale, built, mode, asking, released>>
  BY DEF HeadedLaunchFails, tabState
<1>2. op' \in CtxOp /\ op'.at = "idle" /\ op'.saved = <<>>
  BY <1>1, NoOpIsOp DEF NoOp
<1>3. SavedOwners'
  BY <1>2, NothingSaved
<1>4. StageAgrees'
  BY <1>1, <1>2 DEF CtxInv, StageAgrees, ScaleDue, DueScale, At
<1>5. QED
  BY <1>1, <1>2, <1>3, <1>4, OnlyOpMoves DEF CtxInv, CtxTypes

(* The old context closes,                                                  *)
LEMMA OldContextClosedKeeps ==
  ASSUME CtxInv, OldContextClosed
  PROVE  CtxInv'
<1>1. /\ At("closing") /\ open' = open \ {context} /\ home' = Dies(context) /\ table' = Survivors(context)
      /\ active' = ActiveAmong(Survivors(context)) /\ op' = [op EXCEPT !.at = "creating"]
      /\ UNCHANGED <<owner, nextId, opener, context, made, scale, built, mode, asking, released>>
  BY DEF OldContextClosed, Goto
<1>2. /\ Tables' /\ active' \in 0..MaxId /\ RegisteredPagesLive' /\ FreshIds' /\ OwnersOpened'
      /\ \A tab \in SavedTab : Keeps(tab) => Keeps(tab)'
  BY <1>1, PagesGo
<1>3. op' \in CtxOp /\ op'.at = "creating" /\ op'.saved = op.saved /\ op'.kind = op.kind
  <2>1. "creating" \in Stage
    BY DEF Stage
  <2>2. QED
    BY <1>1, <2>1, GotoIsOp DEF CtxInv
<1>4. SavedOwners'
  BY <1>2, <1>3, SavedStays
<1>5. CtxTypes'
  BY <1>1, <1>2, <1>3 DEF CtxInv, CtxTypes, Tables
<1>6. StageAgrees'
  BY <1>1, <1>3 DEF CtxInv, StageAgrees, ScaleDue, DueScale, At
<1>7. QED
  BY <1>2, <1>4, <1>5, <1>6 DEF CtxInv

(* and so does the headless browser, later.                                 *)
LEMMA OldBrowserClosesKeeps ==
  ASSUME CtxInv, NEW x \in Context, OldBrowserCloses(x)
  PROVE  CtxInv'
<1>1. /\ At("idle") /\ x # context /\ context \in open
      /\ open' = open \ {x} /\ home' = Dies(x) /\ table' = Survivors(x)
      /\ active' = ActiveAmong(Survivors(x))
      /\ UNCHANGED <<owner, nextId, opener, context, made, scale, built, mode, op, asking,
                     released>>
  BY DEF OldBrowserCloses
<1>2. /\ Tables' /\ active' \in 0..MaxId /\ RegisteredPagesLive' /\ FreshIds' /\ OwnersOpened'
      /\ \A tab \in SavedTab : Keeps(tab) => Keeps(tab)'
  BY <1>1, PagesGo
<1>3. SavedOwners'
  BY <1>1, <1>2, SavedStays
<1>4. CtxTypes'
  BY <1>1, <1>2 DEF CtxInv, CtxTypes, Tables
<1>5. StageAgrees'
  BY <1>1 DEF CtxInv, StageAgrees, ScaleDue, DueScale, At
<1>6. QED
  BY <1>2, <1>3, <1>4, <1>5 DEF CtxInv

(* A restore that fails closes the context of the headed browser, or cleans *)
(* up.                                                                      *)
LEMMA RestoreFailsKeeps ==
  ASSUME CtxInv, RestoreFails
  PROVE  CtxInv'
<1>1. /\ op.at \in {"cookies", "restoring", "blank"}
      /\ UNCHANGED <<owner, nextId, opener, context, made, scale, built, mode, asking, released>>
  BY DEF RestoreFails, At
<1>2. CASE op.kind = "handoff"
  <2>1. /\ open' = open \ {context} /\ home' = Dies(context) /\ table' = Survivors(context)
        /\ active' = ActiveAmong(Survivors(context)) /\ op' = NoOp
    BY <1>2 DEF RestoreFails
  <2>2. /\ Tables' /\ active' \in 0..MaxId /\ RegisteredPagesLive' /\ FreshIds' /\ OwnersOpened'
    BY <1>1, <2>1, PagesGo
  <2>3. op' \in CtxOp /\ op'.at = "idle" /\ op'.saved = <<>>
    BY <2>1, NoOpIsOp DEF NoOp
  <2>4. SavedOwners'
    BY <2>3, NothingSaved
  <2>5. CtxTypes'
    BY <1>1, <2>2, <2>3 DEF CtxInv, CtxTypes, Tables
  <2>6. StageAgrees'
    BY <1>1, <2>1, <2>3 DEF StageAgrees
  <2>7. QED
    BY <2>2, <2>4, <2>5, <2>6 DEF CtxInv
<1>3. CASE op.kind # "handoff"
  <2>1. op' = [op EXCEPT !.at = "cleanup"] /\ UNCHANGED <<open, home, table, active>>
    BY <1>3 DEF RestoreFails, Goto
  <2>2. op' \in CtxOp /\ op'.at = "cleanup" /\ op'.saved = op.saved /\ op'.kind = op.kind
    <3>1. "cleanup" \in Stage
      BY DEF Stage
    <3>2. QED
      BY <2>1, <3>1, GotoIsOp DEF CtxInv
  <2>3. SavedOwners'
    BY <1>1, <2>2 DEF CtxInv, SavedOwners, Keeps
  <2>4. StageAgrees'
    BY <1>1, <1>3, <2>2 DEF CtxInv, StageAgrees, ScaleDue, DueScale
  <2>5. QED
    BY <1>1, <2>1, <2>2, <2>3, <2>4, OnlyOpMoves DEF CtxInv, CtxTypes
<1>4. QED
  BY <1>2, <1>3

(* A new context has no pages yet.                                          *)
LEMMA CreatesKeeps ==
  ASSUME CtxInv, Creates, table' \subseteq table, UNCHANGED <<owner, active, nextId, home, opener>>
  PROVE  /\ Tables' /\ active' \in 0..MaxId /\ RegisteredPagesLive' /\ FreshIds' /\ OwnersOpened'
         /\ made' \in Context /\ context' \in Context /\ context' \in open'
         /\ \A tab \in SavedTab : Keeps(tab) => Keeps(tab)'
<1>1. made + 1 \in Context /\ made' = made + 1 /\ context' = made + 1 /\ open' = open \cup {made + 1}
  BY BoundsAreNat DEF Creates, CtxInv, CtxTypes, Context
<1>2. Tables' /\ active' \in 0..MaxId
  BY <1>1 DEF CtxInv, CtxTypes, Tables
<1>3. RegisteredPagesLive' /\ FreshIds' /\ OwnersOpened'
  BY <1>1 DEF CtxInv, RegisteredPagesLive, FreshIds, OwnersOpened
<1>4. \A tab \in SavedTab : Keeps(tab) => Keeps(tab)'
  BY DEF Keeps
<1>5. QED
  BY <1>1, <1>2, <1>3, <1>4

(* It has the scale it should.                                              *)
LEMMA NewContextKeeps ==
  ASSUME CtxInv, ContextCreated \/ HeadedLaunched
  PROVE  CtxInv'
<1>1. /\ Creates /\ built' \in Scale \cup {ScreenScale} /\ op' = [op EXCEPT !.at = "cookies"]
      /\ mode' \in {"launched", "headed"}
      /\ UNCHANGED <<owner, active, nextId, home, opener, scale, asking, released>>
  BY DEF ContextCreated, HeadedLaunched, Goto, tabState, CtxInv, CtxTypes
<1>2. table' \subseteq table
  BY DEF ContextCreated, HeadedLaunched, tabState
<1>3. /\ Tables' /\ active' \in 0..MaxId /\ RegisteredPagesLive' /\ FreshIds' /\ OwnersOpened'
      /\ made' \in Context /\ context' \in Context /\ context' \in open'
      /\ \A tab \in SavedTab : Keeps(tab) => Keeps(tab)'
  BY <1>1, <1>2, CreatesKeeps
<1>4. op' \in CtxOp /\ op'.at = "cookies" /\ op'.saved = op.saved /\ op'.kind = op.kind
  <2>1. "cookies" \in Stage
    BY DEF Stage
  <2>2. QED
    BY <1>1, <2>1, GotoIsOp DEF CtxInv
<1>5. SavedOwners'
  BY <1>3, <1>4, SavedStays
<1>6. CtxTypes'
  BY <1>1, <1>3, <1>4 DEF CtxInv, CtxTypes, Tables
<1>7. StageAgrees'
  <2>1. CASE ContextCreated
    <3>1. At("creating") /\ built' = scale /\ mode' = mode
      BY <2>1 DEF ContextCreated
    <3>2. mode = "launched"
      BY <3>1 DEF CtxInv, CtxTypes, StageAgrees, At
    <3>3. QED
      BY <1>1, <1>3, <1>4, <3>1, <3>2 DEF StageAgrees, ScaleDue, DueScale
  <2>2. CASE HeadedLaunched
    <3>1. At("promoting") /\ built' = ScreenScale /\ mode' = "headed"
      BY <2>2 DEF HeadedLaunched
    <3>2. op.kind = "handoff"
      BY <3>1 DEF CtxInv, StageAgrees, At
    <3>3. QED
      BY <1>1, <1>3, <1>4, <3>1, <3>2 DEF StageAgrees, ScaleDue, DueScale
  <2>3. QED
    BY <2>1, <2>2
<1>8. QED
  BY <1>3, <1>5, <1>6, <1>7 DEF CtxInv

(* The tabs there are belong to nobody from here on,                        *)
LEMMA CookiesAddedKeeps ==
  ASSUME CtxInv, CookiesAdded
  PROVE  CtxInv'
<1>1. /\ At("cookies") /\ owner' = [i \in Id |-> Anyone] /\ op' = [op EXCEPT !.at = "restoring"]
      /\ UNCHANGED <<table, active, nextId, home, opener, context, open, made, scale, built, mode,
                     asking, released>>
  BY DEF CookiesAdded, Goto
<1>2. op' \in CtxOp /\ op'.at = "restoring" /\ op'.saved = op.saved
  <2>1. "restoring" \in Stage
    BY DEF Stage
  <2>2. QED
    BY <1>1, <2>1, GotoIsOp DEF CtxInv
<1>3. CtxTypes'
  BY <1>1, <1>2 DEF CtxInv, CtxTypes
<1>4. RegisteredPagesLive' /\ FreshIds' /\ OwnersOpened'
  BY <1>1 DEF CtxInv, RegisteredPagesLive, FreshIds, OwnersOpened
<1>5. SavedOwners'
  BY <1>1, <1>2 DEF CtxInv, SavedOwners, Keeps
<1>6. StageAgrees'
  BY <1>1, <1>2 DEF CtxInv, StageAgrees, ScaleDue, DueScale, At
<1>7. QED
  BY <1>3, <1>4, <1>5, <1>6 DEF CtxInv

(* and each one restored belongs to whom it belonged when it was saved.     *)
LEMMA PageRestoredKeeps ==
  ASSUME CtxInv, NEW refused \in BOOLEAN, PageRestored(refused)
  PROVE  CtxInv'
<1>1. PICK q \in Seq(SavedTab) : q = op.saved /\ \A k \in 1..Len(q) : Keeps(q[k])
  BY DEF CtxInv, CtxTypes, CtxOp, SavedOwners
<1>2. At("restoring") /\ q # <<>>
  BY <1>1 DEF PageRestored
<1>3. PICK tab : tab = Head(q)
  OBVIOUS
<1>4. PICK rest : rest = Tail(q)
  OBVIOUS
<1>5. /\ tab = q[1] /\ 1 \in 1..Len(q) /\ rest \in Seq(SavedTab) /\ Len(rest) = Len(q) - 1
      /\ \A k \in 1..Len(rest) : rest[k] = q[k + 1]
  <2>1. /\ tab = q[1] /\ rest \in Seq(SavedTab) /\ Len(rest) = Len(q) - 1
        /\ \A k \in 1..Len(rest) : rest[k] = q[k + 1]
    BY <1>2, <1>3, <1>4, HeadTailProperties
  <2>2. Len(q) \in Nat /\ Len(q) # 0
    BY <1>2, EmptySeq, LenProperties
  <2>3. QED
    BY <2>1, <2>2
<1>6. tab \in SavedTab /\ Keeps(tab)
  BY <1>1, <1>5
<1>7. \A k \in 1..Len(rest) : Keeps(rest[k])
  <2>1. ASSUME NEW k \in 1..Len(rest) PROVE Keeps(rest[k])
    <3>1. k + 1 \in 1..Len(q)
      <4>1. Len(q) \in Nat /\ k \in Nat /\ k <= Len(q) - 1 /\ k >= 1
        BY <1>5, LenProperties
      <4>2. QED
        BY <4>1
    <3>2. QED
      BY <1>1, <1>5, <3>1
  <2>2. QED
    BY <2>1
<1>8. PICK last : last = IF tab.isActive /\ ~refused THEN nextId ELSE op.activeId
  OBVIOUS
<1>9. /\ Registers(context, tab.owner, opener[tab.id])
      /\ op' = [op EXCEPT !.saved = rest, !.activeId = last]
      /\ UNCHANGED <<active, context, open, made, scale, built, mode, asking, released>>
  BY <1>1, <1>3, <1>4, <1>8 DEF PageRestored
<1>10. /\ Tables' /\ nextId \in 1..MaxId /\ RegisteredPagesLive' /\ FreshIds' /\ OwnersOpened'
       /\ \A other \in SavedTab : Keeps(other) => Keeps(other)'
  <2>1. context \in Context /\ context \in open' /\ open \subseteq open' /\ open' \subseteq Context
    BY <1>2, <1>9 DEF CtxInv, CtxTypes, StageAgrees, At
  <2>2. opener[tab.id] \in Agent \cup {Anyone} /\ tab.owner \in {Anyone, opener[tab.id]}
    BY <1>6 DEF Keeps, SavedTab, CtxInv, CtxTypes
  <2>3. QED
    BY <1>9, <2>1, <2>2, RegistersKeeps
<1>11. last \in 0..MaxId
  BY <1>8, <1>10, BoundsAreNat DEF CtxInv, CtxTypes, CtxOp
<1>12. op' \in CtxOp /\ op'.at = op.at /\ op'.kind = op.kind /\ op'.saved = rest
  BY <1>5, <1>9, <1>11 DEF CtxInv, CtxTypes, CtxOp
<1>13. SavedOwners'
  <2>1. \A k \in 1..Len(rest) : rest[k] \in SavedTab
    BY <1>5
  <2>2. \A k \in 1..Len(rest) : Keeps(rest[k])'
    BY <1>7, <1>10, <2>1
  <2>3. QED
    BY <1>12, <2>2 DEF SavedOwners
<1>14. CtxTypes'
  BY <1>9, <1>10, <1>12 DEF CtxInv, CtxTypes, Tables
<1>15. StageAgrees'
  BY <1>9, <1>12 DEF CtxInv, StageAgrees, ScaleDue, DueScale
<1>16. QED
  BY <1>10, <1>13, <1>14, <1>15 DEF CtxInv

(* The restore is over,                                                     *)
LEMMA RestoredKeeps ==
  ASSUME CtxInv, Restored
  PROVE  CtxInv'
<1>1. /\ At("restoring")
      /\ UNCHANGED <<table, owner, nextId, home, opener, context, open, made, scale, built, mode,
                     asking, released>>
  BY DEF Restored
<1>2. /\ op' \in CtxOp /\ (op'.at = "idle" \/ (op'.at = "blank" /\ op'.kind = op.kind))
      /\ op'.saved \in {<<>>, op.saved}
      /\ active' \in 0..MaxId
  <2>1. CASE table = {}
    <3>1. op' = [op EXCEPT !.at = "blank"] /\ active' = active /\ "blank" \in Stage
      BY <2>1 DEF Restored, Goto, Stage
    <3>2. op' \in CtxOp /\ op'.at = "blank" /\ op'.saved = op.saved /\ op'.kind = op.kind
      BY <3>1, GotoIsOp DEF CtxInv
    <3>3. QED
      BY <3>1, <3>2 DEF CtxInv, CtxTypes
  <2>2. CASE table # {}
    <3>1. op' = NoOp /\ active' = IF op.activeId # 0 THEN op.activeId ELSE Min(table)
      BY <2>2 DEF Restored
    <3>2. Min(table) \in Id
      <4>1. table \subseteq Nat /\ table \subseteq Id
        BY BoundsAreNat DEF CtxInv, CtxTypes, Id
      <4>2. QED
        BY <2>2, <4>1, HasLeast
    <3>3. Min(table) \in 0..MaxId
      BY <3>2, BoundsAreNat DEF Id
    <3>4. op.activeId \in 0..MaxId
      BY DEF CtxInv, CtxTypes, CtxOp
    <3>5. op' \in CtxOp /\ op'.at = "idle" /\ op'.saved = <<>>
      BY <3>1, NoOpIsOp DEF NoOp
    <3>6. QED
      BY <3>1, <3>3, <3>4, <3>5
  <2>3. QED
    BY <2>1, <2>2
<1>3. SavedOwners'
  <2>1. CASE op'.saved = <<>>
    BY <2>1, NothingSaved
  <2>2. CASE op'.saved = op.saved
    BY <1>1, <2>2 DEF CtxInv, SavedOwners, Keeps
  <2>3. QED
    BY <1>2, <2>1, <2>2
<1>4. CtxTypes'
  BY <1>1, <1>2 DEF CtxInv, CtxTypes
<1>5. RegisteredPagesLive' /\ FreshIds' /\ OwnersOpened'
  BY <1>1 DEF CtxInv, RegisteredPagesLive, FreshIds, OwnersOpened
<1>6. StageAgrees'
  BY <1>1, <1>2 DEF CtxInv, StageAgrees, ScaleDue, DueScale, At
<1>7. QED
  BY <1>3, <1>4, <1>5, <1>6 DEF CtxInv

(* with a blank tab when there was nothing to restore.                      *)
LEMMA BlankTabKeeps ==
  ASSUME CtxInv, BlankTab
  PROVE  CtxInv'
<1>1. /\ At("blank") /\ context \in open /\ Registers(context, Anyone, Anyone)
      /\ active' = nextId /\ op' = NoOp
      /\ UNCHANGED <<context, open, made, scale, built, mode, asking, released>>
  BY DEF BlankTab
<1>2. /\ Tables' /\ nextId \in 1..MaxId /\ RegisteredPagesLive' /\ FreshIds' /\ OwnersOpened'
  <2>1. context \in Context /\ context \in open' /\ open \subseteq open' /\ open' \subseteq Context
    BY <1>1 DEF CtxInv, CtxTypes
  <2>2. Anyone \in Agent \cup {Anyone} /\ Anyone \in {Anyone, Anyone}
    OBVIOUS
  <2>3. QED
    BY <1>1, <2>1, <2>2, RegistersKeeps
<1>3. op' \in CtxOp /\ op'.at = "idle" /\ op'.saved = <<>>
  BY <1>1, NoOpIsOp DEF NoOp
<1>4. SavedOwners'
  BY <1>3, NothingSaved
<1>5. CtxTypes'
  <2>1. active' \in 0..MaxId
    BY <1>1, <1>2, BoundsAreNat
  <2>2. QED
    BY <1>1, <1>2, <1>3, <2>1 DEF CtxInv, CtxTypes, Tables
<1>6. StageAgrees'
  BY <1>1, <1>3 DEF CtxInv, StageAgrees, ScaleDue, DueScale, At
<1>7. QED
  BY <1>2, <1>4, <1>5, <1>6 DEF CtxInv

(* The clean slate: nothing is left of the context,                         *)
LEMMA FallbackClosesKeeps ==
  ASSUME CtxInv, FallbackCloses
  PROVE  CtxInv'
<1>1. /\ At("cleanup") /\ table' = {} /\ open' = open \ {context} /\ home' = Dies(context)
      /\ active' \in {active, 0} /\ op' = [op EXCEPT !.at = "fallback"]
      /\ UNCHANGED <<owner, nextId, opener, context, made, scale, built, mode, asking, released>>
  BY DEF FallbackCloses, Goto
<1>2. op' \in CtxOp /\ op'.at = "fallback" /\ op'.saved = op.saved /\ op'.kind = op.kind
  <2>1. "fallback" \in Stage
    BY DEF Stage
  <2>2. QED
    BY <1>1, <2>1, GotoIsOp DEF CtxInv
<1>3. home' \in [Id -> 0..MaxContext] /\ \A i \in Id : i >= nextId => home'[i] = 0
  BY <1>1, SurvivorsLive DEF CtxInv
<1>4. CtxTypes'
  BY <1>1, <1>2, <1>3, BoundsAreNat DEF CtxInv, CtxTypes
<1>5. RegisteredPagesLive' /\ FreshIds' /\ OwnersOpened'
  BY <1>1, <1>3 DEF CtxInv, RegisteredPagesLive, FreshIds, OwnersOpened
<1>6. SavedOwners'
  BY <1>1, <1>2 DEF CtxInv, SavedOwners, Keeps
<1>7. StageAgrees'
  BY <1>1, <1>2 DEF CtxInv, StageAgrees, ScaleDue, DueScale, At
<1>8. QED
  BY <1>4, <1>5, <1>6, <1>7 DEF CtxInv

(* and the replacement is over or starts again with the scale before,       *)
LEMMA AfterErrorFacts ==
  ASSUME CtxInv, AfterError
  PROVE  /\ op' \in CtxOp /\ op'.saved = <<>> /\ scale' \in Scale
         /\ \/ op'.at = "idle" /\ scale' = scale
            \/ op'.at = "saving" /\ op'.kind = "scale"
<1>1. CASE op.kind = "scale" /\ ~op.retried
  <2>1. PICK p \in Scale : p = op.prevScale
    BY DEF CtxInv, CtxTypes, CtxOp
  <2>2. PICK b : b = Begins("scale", p)
    OBVIOUS
  <2>3. b \in CtxOp /\ b.at = "saving" /\ b.kind = "scale" /\ b.saved = <<>>
    <3>1. "scale" \in CtxKind
      BY DEF CtxKind
    <3>2. QED
      BY <2>2, <3>1, BeginsIsOp
  <2>4. op' = [b EXCEPT !.retried = TRUE] /\ scale' = p
    BY <1>1, <2>1, <2>2 DEF AfterError
  <2>5. op' \in CtxOp /\ op'.at = b.at /\ op'.kind = b.kind /\ op'.saved = b.saved
    BY <2>3, <2>4 DEF CtxOp
  <2>6. QED
    BY <2>3, <2>4, <2>5
<1>2. CASE ~(op.kind = "scale" /\ ~op.retried)
  <2>1. op' = NoOp /\ scale' = scale
    BY <1>2 DEF AfterError
  <2>2. op' \in CtxOp /\ op'.at = "idle" /\ op'.saved = <<>>
    BY <2>1, NoOpIsOp DEF NoOp
  <2>3. QED
    BY <2>1, <2>2 DEF CtxInv, CtxTypes
<1>3. QED
  BY <1>1, <1>2

(* without a new context                                                    *)
LEMMA FallbackFailsKeeps ==
  ASSUME CtxInv, FallbackFails
  PROVE  CtxInv'
<1>1. /\ At("fallback") /\ AfterError
      /\ UNCHANGED <<table, owner, active, nextId, home, opener>>
      /\ UNCHANGED <<context, open, made, built, mode, asking, released>>
  BY DEF FallbackFails, tabState
<1>2. /\ op' \in CtxOp /\ op'.saved = <<>> /\ scale' \in Scale
      /\ \/ op'.at = "idle" /\ scale' = scale
         \/ op'.at = "saving" /\ op'.kind = "scale"
  BY <1>1, AfterErrorFacts
<1>3. SavedOwners'
  BY <1>2, NothingSaved
<1>4. StageAgrees'
  BY <1>1, <1>2 DEF CtxInv, StageAgrees, ScaleDue, DueScale, At
<1>5. QED
  BY <1>1, <1>2, <1>3, <1>4, OnlyOpMoves

(* or with one.                                                             *)
LEMMA FallbackOpensKeeps ==
  ASSUME CtxInv, FallbackOpens
  PROVE  CtxInv'
<1>1. At("fallback") /\ Creates /\ AfterError /\ built' = scale /\ UNCHANGED <<owner, mode, asking, released>>
  BY DEF FallbackOpens
<1>2. /\ op' \in CtxOp /\ op'.saved = <<>> /\ scale' \in Scale
      /\ \/ op'.at = "idle" /\ scale' = scale
         \/ op'.at = "saving" /\ op'.kind = "scale"
  BY <1>1, AfterErrorFacts
<1>3. SavedOwners'
  BY <1>2, NothingSaved
<1>4. made + 1 \in Context /\ made' = made + 1 /\ context' = made + 1 /\ open' = open \cup {made + 1}
  BY <1>1, BoundsAreNat DEF Creates, CtxInv, CtxTypes, Context
<1>5. Tables' /\ active' \in 0..MaxId /\ RegisteredPagesLive' /\ FreshIds' /\ OwnersOpened'
  <2>1. CASE UNCHANGED <<table, home, opener, nextId, active>>
    <3>1. table' \subseteq table /\ UNCHANGED <<owner, active, nextId, home, opener>>
      BY <1>1, <2>1
    <3>2. QED
      BY <1>1, <3>1, CreatesKeeps
  <2>2. CASE /\ nextId <= MaxId
             /\ table' = table \cup {nextId} /\ home' = [home EXCEPT ![nextId] = made + 1]
             /\ opener' = [opener EXCEPT ![nextId] = Anyone]
             /\ nextId' = nextId + 1 /\ active' = nextId
    <3>1. PICK x \in Context : x = made + 1
      BY <1>4
    <3>2. Registers(x, Anyone, Anyone)
      BY <1>1, <2>2, <3>1 DEF Registers
    <3>3. x \in open' /\ open \subseteq open' /\ open' \subseteq Context
      BY <1>4, <3>1 DEF CtxInv, CtxTypes
    <3>4. Anyone \in Agent \cup {Anyone} /\ Anyone \in {Anyone, Anyone}
      OBVIOUS
    <3>5. /\ Tables' /\ nextId \in 1..MaxId /\ RegisteredPagesLive' /\ FreshIds' /\ OwnersOpened'
      BY <3>2, <3>3, <3>4, RegistersKeeps
    <3>6. active' \in 0..MaxId
      BY <2>2, <3>5, BoundsAreNat
    <3>7. QED
      BY <3>5, <3>6
  <2>3. QED
    BY <2>1, <2>2 DEF FallbackOpens
<1>6. CtxTypes'
  BY <1>1, <1>2, <1>4, <1>5 DEF CtxInv, CtxTypes, Tables
<1>7. StageAgrees'
  <2>1. mode = "launched" /\ mode' = "launched"
    BY <1>1 DEF CtxInv, CtxTypes, StageAgrees, At
  <2>2. QED
    BY <1>1, <1>2, <2>1 DEF StageAgrees, ScaleDue, DueScale
<1>8. QED
  BY <1>3, <1>5, <1>6, <1>7 DEF CtxInv

(* launch() has made a context with a tab.                                  *)
LEMMA CtxInvInit ==
  ASSUME CtxInit
  PROVE  CtxInv
<1>1. /\ table = {1} /\ active = 1 /\ nextId = 2
      /\ owner = [i \in Id |-> Anyone] /\ opener = [i \in Id |-> Anyone]
      /\ context = 1 /\ open = {1} /\ made = 1
      /\ home = [i \in Id |-> IF i = 1 THEN 1 ELSE 0]
      /\ scale = 1 /\ built = 1
      /\ mode = "launched" /\ op = NoOp
      /\ asking = [a \in Agent |-> 0] /\ released = {}
  BY DEF CtxInit
<1>2. op \in CtxOp /\ op.saved = <<>> /\ op.at = "idle"
  BY <1>1, NoOpIsOp DEF NoOp
<1>3. 1 \in Id /\ 1 \in Context /\ 1 \in 0..MaxContext /\ 0 \in 0..MaxContext /\ 2 \in 2..(MaxId + 1) /\ 1 \in 0..MaxId
  BY BoundsAreNat DEF Id, Context
<1>4. CtxTypes
  BY <1>1, <1>2, <1>3 DEF CtxTypes, Scale
<1>5. RegisteredPagesLive /\ FreshIds /\ OwnersOpened
  BY <1>1, <1>3 DEF RegisteredPagesLive, FreshIds, OwnersOpened, Id
<1>6. SavedOwners
  BY <1>2, EmptySeq DEF SavedOwners
<1>7. StageAgrees
  BY <1>1, <1>2 DEF StageAgrees, DueScale
<1>8. QED
  BY <1>4, <1>5, <1>6, <1>7 DEF CtxInv

(* Every step keeps the invariant.                                          *)
LEMMA CtxInvNext ==
  ASSUME CtxInv, [CtxNext]_ctxVars
  PROVE  CtxInv'
<1>1. CASE Replacement
  <2>1. ASSUME NEW refused \in BOOLEAN, PageRestored(refused) PROVE CtxInv'
    BY <2>1, PageRestoredKeeps
  <2>2. QED
    BY <1>1, <2>1, SavesPageKeeps, SavedKeeps, SaveFailsKeeps, OldContextClosedKeeps,
       NewContextKeeps,
       ContextFailsKeeps, HeadedLaunchFailsKeeps, CookiesAddedKeeps, RestoredKeeps, RestoreFailsKeeps,
       BlankTabKeeps, FallbackClosesKeeps, FallbackOpensKeeps, FallbackFailsKeeps DEF Replacement
<1>2. CASE SetUserAgent \/ (\E s \in Scale : SetDeviceScaleFactor(s)) \/ Handoff
  BY <1>2, BeginsKeeps
<1>3. ASSUME NEW a \in Agent, NewTabAsks(a) \/ NewTabOpens(a) \/ NewTabRejected(a) \/ ReleaseAgent(a)
      PROVE  CtxInv'
  BY <1>3, NewTabAsksKeeps, NewTabOpensKeeps, NewTabRejectedKeeps, ReleaseAgentKeeps
<1>4. ASSUME NEW i \in Id, PageGone(i) PROVE CtxInv'
  BY <1>4, PageGoneKeeps
<1>5. ASSUME NEW x \in Context, OldBrowserCloses(x) PROVE CtxInv'
  BY <1>5, OldBrowserClosesKeeps
<1>6. CASE UNCHANGED ctxVars
  <2>1. /\ UNCHANGED <<table, owner, active, nextId, home, opener>>
        /\ UNCHANGED <<context, open, made, scale, built, mode, op, asking, released>>
    BY <1>6 DEF ctxVars
  <2>2. op' \in CtxOp /\ scale' \in Scale
    BY <2>1 DEF CtxInv, CtxTypes
  <2>3. SavedOwners' /\ StageAgrees'
    BY <2>1 DEF CtxInv, SavedOwners, Keeps, StageAgrees, ScaleDue, DueScale
  <2>4. QED
    BY <2>1, <2>2, <2>3, OnlyOpMoves
<1>7. QED
  BY <1>1, <1>2, <1>3, <1>4, <1>5, <1>6 DEF CtxNext

(* So a tab that can be named lives, belongs to whom opened it, and the     *)
(* context has the scale it should.                                         *)
LEMMA CtxInvSafe ==
  ASSUME CtxInv
  PROVE  ContextSafe
<1>1. CtxTypeOK
  BY DEF CtxInv, CtxTypes, CtxTypeOK, CtxOp
<1>2. OwnerOpenedTheTab
  BY DEF CtxInv, CtxTypes, OwnersOpened, OwnerOpenedTheTab
<1>3. ScaleMatchesContext
  BY DEF CtxInv, StageAgrees, ScaleDue, DueScale, ScaleMatchesContext, At
<1>4. QED
  BY <1>1, <1>2, <1>3 DEF CtxInv, ContextSafe

(* For any number of agents, tabs and contexts, however a replacement of    *)
(* the browser context overlaps with tabs that open, agents that are        *)
(* released and pages that go, and whichever of its awaits fail: a tab id   *)
(* in the table stands for a page of an open context, an agent owns no tab  *)
(* but those it opened, although restored tabs have new ids, and between    *)
(* replacements a headless context has the recorded device scale and a      *)
(* headed one, which a handoff launches without a scale, its screen's       *)
(* (browser-manager.ts).                                                    *)
THEOREM ContextSafeHolds == CtxSpec => []ContextSafe
<1>1. CtxInit => CtxInv
  BY CtxInvInit
<1>2. CtxInv /\ [CtxNext]_ctxVars => CtxInv'
  BY CtxInvNext
<1>3. CtxInv => ContextSafe
  BY CtxInvSafe
<1>4. QED
  BY <1>1, <1>2, <1>3, PTL DEF CtxSpec
=============================================================================
