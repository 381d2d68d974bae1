------------------------------ MODULE PageShots ------------------------------
(***************************************************************************)
(* Commands that change a page for a while and put it back: prettyscreen-  *)
(* shot (write-commands.ts) and responsive (meta-commands.ts) widen it,    *)
(* annotated and heatmap snapshots (snapshot.ts) draw boxes over it, and a *)
(* scoped read (server.ts, content-security.ts) marks its hidden elements. *)
(* One tab; requests overlap, any awaited step of theirs may fail, and the *)
(* page may load another document at any time, which drops the marks but   *)
(* keeps the width.  Removing marks fails only where they are gone.        *)
(***************************************************************************)
EXTENDS Naturals, Sequences

CONSTANTS Shot,   \* requests in flight at once
          Width   \* widths of the page

ASSUME WidthsExist == Width # {}

VARIABLES size,     \* the width of the page
          tracked,  \* currentViewport of the browser manager
          marks,    \* what the commands have put on the page
          spoiled,  \* history: a failure or an overlap has left another width
          littered, \* history: an error that annotate rethrows has left boxes
          todo,     \* todo[s]: steps request s has still to take
          noted     \* noted[s]: originalViewport, or the width asked for

shotVars == <<size, tracked, marks, spoiled, littered, todo, noted>>

(* Variants named ...Without..., ...Only... are plausible mistakes in the   *)
(* definition that follows them; no specification uses them.                *)

PrettyScreenshotCmd == { <<"widen", "shoot", "restore">>, <<"widen", "scroll", "shoot", "restore">> }
ResponsiveCmd == { <<"widen", "shoot", "widen", "shoot", "widen", "shoot", "restore">> }
ResizeCmd == { <<"resize">> }
AnnotateCmd == { <<"draw", "shoot", "undraw">> }
HeatmapCmd == { <<"paint", "shoot", "unpaint">> }
ScopedReadCmd == { <<"hide", "read", "unhide">> }

Has(s, step) == \E i \in 1..Len(todo[s]) : todo[s][i] = step
Sizes(s) == Has(s, "restore") \/ Has(s, "resize")
NextIs(s, step) == todo[s] # <<>> /\ Head(todo[s]) = step
Pops(s) == todo' = [todo EXCEPT ![s] = Tail(@)]
Ends(s) == todo' = [todo EXCEPT ![s] = <<>>]

ShotInit ==
  /\ size \in Width /\ tracked = size
  /\ marks = {} /\ spoiled = FALSE /\ littered = FALSE
  /\ todo = [s \in Shot |-> <<>>] /\ noted = [s \in Shot |-> size]
-----------------------------------------------------------------------------
BeginsLine(s, line) ==
  /\ todo[s] = <<>>
  /\ todo' = [todo EXCEPT ![s] = line]
  /\ UNCHANGED <<size, marks, littered>>

(* The width to go back to is read in the call                              *)
StartsResizing(s) ==
  /\ \E line \in PrettyScreenshotCmd \cup ResponsiveCmd : BeginsLine(s, line)
  /\ noted' = [noted EXCEPT ![s] = size]
  /\ spoiled' = (spoiled \/ \E other \in Shot \ {s} : Sizes(other))
  /\ UNCHANGED tracked

(* setViewport notes the size before it asks the page                       *)
StartsViewport(s, w) ==
  /\ \E line \in ResizeCmd : BeginsLine(s, line)
  /\ noted' = [noted EXCEPT ![s] = w]
  /\ tracked' = w
  /\ spoiled' = \E other \in Shot \ {s} : Sizes(other)

StartsMarking(s) ==
  /\ \E line \in AnnotateCmd \cup HeatmapCmd \cup ScopedReadCmd : BeginsLine(s, line)
  /\ UNCHANGED <<tracked, spoiled, noted>>

Widens(s, w) ==
  /\ NextIs(s, "widen") /\ Pops(s)
  /\ size' = w
  /\ UNCHANGED <<tracked, marks, spoiled, littered, noted>>

Restores(s) ==
  /\ NextIs(s, "restore") \/ NextIs(s, "resize")
  /\ Pops(s)
  /\ size' = noted[s]
  /\ UNCHANGED <<tracked, marks, spoiled, littered, noted>>

(* Steps that only look: scroll, screenshot and size guard, the read itself *)
OnlyLooks(s) ==
  /\ \E step \in {"scroll", "shoot", "read"} : NextIs(s, step)
  /\ Pops(s)
  /\ UNCHANGED <<size, tracked, marks, spoiled, littered, noted>>

(* --scroll-to finds nothing: the width goes back before the error          *)
ScrollMissesWithoutRestore(s) ==
  /\ NextIs(s, "scroll") /\ Ends(s)
  /\ UNCHANGED <<size, tracked, marks, spoiled, littered, noted>>

ScrollMisses(s) ==
  /\ NextIs(s, "scroll")
  /\ todo' = [todo EXCEPT ![s] = <<"restore">>]
  /\ UNCHANGED <<size, tracked, marks, spoiled, littered, noted>>

PutsOn(step) == CASE step = "draw" -> "annotation" [] step = "paint" -> "heatmap" [] step = "hide" -> "hidden"

Marks(s) ==
  /\ \E step \in {"draw", "paint", "hide"} : NextIs(s, step) /\ marks' = marks \cup {PutsOn(step)}
  /\ Pops(s)
  /\ UNCHANGED <<size, tracked, spoiled, littered, noted>>

TakesOff(step) == CASE step = "undraw" -> "annotation" [] step = "unpaint" -> "heatmap" [] step = "unhide" -> "hidden"

(* Every overlay or mark of the kind comes off, other requests' included    *)
Unmarks(s) ==
  /\ \E step \in {"undraw", "unpaint", "unhide"} : NextIs(s, step) /\ marks' = marks \ {TakesOff(step)}
  /\ Pops(s)
  /\ UNCHANGED <<size, tracked, spoiled, littered, noted>>

(* A step fails.  A scoped read and a heatmap always clean up; annotate only *)
(* after the errors it lists, the others it rethrows.                        *)
CleansAfterWithoutFinally(s) == IF Has(s, "unpaint") THEN <<"unpaint">> ELSE <<>>

CleansAfter(s) ==
  CASE Has(s, "unhide")  -> <<"unhide">>
    [] Has(s, "unpaint") -> <<"unpaint">>
    [] OTHER             -> <<>>

FailsMarking(s) ==
  /\ \E step \in {"draw", "paint", "hide", "shoot", "read"} : NextIs(s, step)
  /\ ~Sizes(s)
  /\ todo' = [todo EXCEPT ![s] = CleansAfter(s)]
  /\ littered' = (littered \/ Has(s, "undraw"))
  /\ UNCHANGED <<size, tracked, marks, spoiled, noted>>

FailsAsListed(s) ==
  /\ Has(s, "undraw") /\ ~NextIs(s, "undraw")
  /\ todo' = [todo EXCEPT ![s] = <<"undraw">>]
  /\ UNCHANGED <<size, tracked, marks, spoiled, littered, noted>>

FailsResizing(s) ==
  /\ Sizes(s) /\ Ends(s)
  /\ spoiled' = TRUE
  /\ UNCHANGED <<size, tracked, marks, littered, noted>>

LoadsAnother ==
  /\ marks' = {} /\ littered' = FALSE
  /\ UNCHANGED <<size, tracked, spoiled, todo, noted>>

ShotNext ==
  \/ \E s \in Shot :
       \/ StartsResizing(s) \/ StartsMarking(s) \/ Restores(s) \/ OnlyLooks(s) \/ ScrollMisses(s)
       \/ Marks(s) \/ Unmarks(s) \/ FailsMarking(s) \/ FailsAsListed(s) \/ FailsResizing(s)
       \/ \E w \in Width : StartsViewport(s, w) \/ Widens(s, w)
  \/ LoadsAnother

ShotSpec == ShotInit /\ [][ShotNext]_shotVars
-----------------------------------------------------------------------------
ShotTypeOK ==
  /\ size \in Width /\ tracked \in Width /\ noted \in [Shot -> Width]
  /\ marks \subseteq {"annotation", "heatmap", "hidden"}
  /\ \A s \in Shot : Len(todo[s]) <= 7

(* When no command that resizes is running, the page has the width the       *)
(* manager tracks ("source of truth since setViewport + launchContext keep   *)
(* it in sync"), unless such a command has failed half way, other than by a  *)
(* missed --scroll-to, or two of them have overlapped.                       *)
WidthIsGivenBack == (\A s \in Shot : ~Sizes(s)) /\ ~spoiled => size = tracked

(* Whatever a command has put on the page, a running command will take off,  *)
(* failed or not, but for an annotated snapshot that fails in a way its      *)
(* handler does not list.                                                    *)
MarksComeOff ==
  /\ "hidden" \in marks => \E s \in Shot : Has(s, "unhide")
  /\ "heatmap" \in marks => \E s \in Shot : Has(s, "unpaint")
  /\ "annotation" \in marks /\ ~littered => \E s \in Shot : Has(s, "undraw")

(* A command that changes a page for a while leaves it as it was, failed or *)
(* not.                                                                     *)
ShotsCleanUp ==
  ShotTypeOK /\ WidthIsGivenBack /\ MarksComeOff
=============================================================================
