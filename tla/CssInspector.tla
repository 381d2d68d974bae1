---------------------------- MODULE CssInspector ----------------------------
(***************************************************************************)
(* Style changes and their history: modifyStyle, undoModification and      *)
(* resetModifications of cdp-inspector.ts, as the style command and the    *)
(* /inspector routes call them.  One property of the elements of the       *)
(* active page: an element has a value of its own (inline) or that of the  *)
(* style-sheet rule, which matches a set of elements.  The history is one  *)
(* for the whole process; it is capped and knows nothing of documents.     *)
(***************************************************************************)
EXTENDS Integers, Sequences, SequencesExt

CONSTANTS Elem,    \* elements, each with its selector
          Matched, \* those the rule matches
          Value,   \* values asked for
          CssReq,      \* requests in flight at once
          HistCap, \* MOD_HISTORY_CAP (code: 200)
          MaxMods  \* bound: modifications pushed

ASSUME InspectorAssumption ==
  Matched \subseteq Elem /\ HistCap \in Nat \ {0} /\ MaxMods \in Nat

VARIABLES rule,    \* the value in the rule
          inline,  \* inline[e]
          hist,    \* modificationHistory
          pushed,  \* bound: modifications made so far
          req,      \* the requests
          base,    \* history: what the elements looked like when hist was last empty
          evicted, \* history: an entry has been dropped from the history since
          spread,  \* history: a rule was changed that other elements show since
          muddled  \* history: values unknown, documents or requests mixed since

cssVars == <<rule, inline, hist, pushed, req, base, evicted, spread, muddled>>
pageStyle == <<rule, inline>>
account == <<base, evicted, spread, muddled>>

(* Variants named ...After, ...First, ...Late are plausible mistakes in the *)
(* definition that follows them; no specification uses them.                *)

NoValue == "none"
PlainValue == "plain"   \* what an element shows without either
FirstRule == "sheet"    \* what the site's style sheet says

LookUnder(r, i, e) == CASE i[e] # NoValue -> i[e]
                        [] i[e] = NoValue /\ e \in Matched /\ r # NoValue -> r
                        [] OTHER -> PlainValue
Look(e) == LookUnder(rule, inline, e)
Looks == [e \in Elem |-> Look(e)]
Inlined(e, v) == [inline EXCEPT ![e] = v]

NoReq == [kind |-> "none", elem |-> CHOOSE e \in Elem : TRUE, val |-> NoValue, old |-> NoValue, idx |-> 0, how |-> "inline"]
IsBusy(o) == req[o] # NoReq
Alone(o) == \A other \in CssReq \ {o} : ~IsBusy(other)

CssInit ==
  /\ rule = FirstRule /\ inline = [e \in Elem |-> NoValue]
  /\ hist = <<>> /\ pushed = 0
  /\ req = [o \in CssReq |-> NoReq]
  /\ base = Looks
  /\ evicted = FALSE /\ spread = FALSE /\ muddled = FALSE

(* A history that is empty again starts a new account                        *)
Settles(o, h, ev, sp, mu) ==
  LET fresh == h = <<>> /\ Alone(o)
  IN /\ hist' = h
     /\ base' = IF fresh THEN [e \in Elem |-> LookUnder(rule', inline', e)] ELSE base
     /\ evicted' = (ev /\ ~fresh)
     /\ spread' = (sp /\ ~fresh)
     /\ muddled' = (mu /\ ~fresh)
     /\ req' = [req EXCEPT ![o] = NoReq]
-----------------------------------------------------------------------------
(* The cap of pushModification                                              *)
CappedOneLate(h) == IF Len(h) > HistCap + 1 THEN Tail(h) ELSE h

Capped(h) == IF Len(h) > HistCap THEN Tail(h) ELSE h

StartsOp(o, kind, e, v, i, how) ==
  /\ ~IsBusy(o)
  /\ req' = [req EXCEPT ![o] = [kind |-> kind, elem |-> e, val |-> v, old |-> NoValue, idx |-> i, how |-> how]]
  /\ muddled' = (muddled \/ ~Alone(o))
  /\ UNCHANGED <<pageStyle, hist, pushed, base, evicted, spread>>

StartsModify(o) ==
  \E e \in Elem, v \in Value : StartsOp(o, "inspect", e, v, 0, "inline")

(* inspectElement reads the value now shown; without a CDP session, and for *)
(* a property outside the key ones, the old value stays unknown             *)
Inspects(o, known) ==
  /\ req[o].kind = "inspect"
  /\ req' = [req EXCEPT ![o].kind = "set", ![o].old = IF known THEN Look(req[o].elem) ELSE NoValue]
  /\ UNCHANGED <<pageStyle, hist, pushed, account>>

(* setStyleTexts changes the rule for every element it matches              *)
SetsRule(o) ==
  LET e == req[o].elem  v == req[o].val
      seen == {x \in Matched : inline[x] = NoValue}
  IN /\ req[o].kind = "set" /\ e \in Matched /\ rule # NoValue
     /\ rule' = v /\ UNCHANGED inline
     /\ pushed < MaxMods /\ pushed' = pushed + 1
     /\ Settles(o, Capped(Append(hist, [elem |-> e, old |-> req[o].old, new |-> v, how |-> "rule"])),
                evicted \/ Len(hist) = HistCap,
                spread \/ seen # {e},
                muddled \/ req[o].old = NoValue)

(* no such rule, or CDP refused: the element's own style                    *)
SetsInlineAfter(o) ==
  LET e == req[o].elem  v == req[o].val
  IN /\ req[o].kind = "set"
     /\ inline' = Inlined(e, v) /\ UNCHANGED rule
     /\ pushed < MaxMods /\ pushed' = pushed + 1
     /\ Settles(o, Capped(Append(hist, [elem |-> e, old |-> v, new |-> v, how |-> "inline"])),
                evicted \/ Len(hist) = HistCap,
                spread,
                muddled \/ req[o].old = NoValue)

SetsInline(o) ==
  LET e == req[o].elem  v == req[o].val
  IN /\ req[o].kind = "set"
     /\ inline' = Inlined(e, v) /\ UNCHANGED rule
     /\ pushed < MaxMods /\ pushed' = pushed + 1
     /\ Settles(o, Capped(Append(hist, [elem |-> e, old |-> req[o].old, new |-> v, how |-> "inline"])),
                evicted \/ Len(hist) = HistCap,
                spread,
                muddled \/ req[o].old = NoValue)

-----------------------------------------------------------------------------
(* undo of the last entry or of one by its index, which is taken in the call *)
StartsUndo(o) == \E i \in 1..Len(hist) : StartsOp(o, "undo", hist[i].elem, hist[i].old, i, hist[i].how)

LeavesEntry(i, h) == IF i <= Len(h) THEN RemoveAt(h, i) ELSE h
UndoneLater(o) == \E j \in (req[o].idx + 1)..Len(hist) : hist[j].elem = req[o].elem

(* A change of the rule is undone by modifyStyle, whose own entry is popped *)
(* again; at the cap it has pushed out the oldest one.                      *)
Repopped == IF Len(hist) = HistCap THEN Tail(hist) ELSE hist

UndoesByRule(o) ==
  LET e == req[o].elem
      seen == {x \in Matched : inline[x] = NoValue}
  IN /\ req[o].kind = "undo" /\ req[o].how = "rule" /\ rule # NoValue
     /\ rule' = req[o].val /\ UNCHANGED <<inline, pushed>>
     /\ Settles(o, LeavesEntry(req[o].idx, Repopped), evicted \/ Len(hist) = HistCap,
                spread \/ seen # {e}, muddled \/ UndoneLater(o))

(* a change of the element itself, or the rule could not be changed back    *)
UndoesInline(o, h) ==
  /\ req[o].kind = "undo"
  /\ h # hist => req[o].how = "rule"
  /\ inline' = Inlined(req[o].elem, req[o].val) /\ UNCHANGED <<rule, pushed>>
  /\ Settles(o, LeavesEntry(req[o].idx, h), evicted \/ h # hist, spread, muddled \/ UndoneLater(o))
-----------------------------------------------------------------------------
(* reset: from the newest entry to the oldest, each by the inline style,    *)
(* then the history is emptied                                              *)
StartsReset(o) == hist # <<>> /\ StartsOp(o, "reset", hist[1].elem, NoValue, Len(hist), "inline")

ResetsOneOldestFirst(o) ==
  LET i == req[o].idx  j == Len(hist) + 1 - i
  IN /\ req[o].kind = "reset" /\ i > 0
     /\ req' = [req EXCEPT ![o].idx = i - 1]
     /\ IF j \in 1..Len(hist) THEN inline' = Inlined(hist[j].elem, hist[j].old) ELSE UNCHANGED inline
     /\ UNCHANGED <<rule, hist, pushed, account>>

ResetsOne(o) ==
  LET i == req[o].idx
  IN /\ req[o].kind = "reset" /\ i > 0
     /\ req' = [req EXCEPT ![o].idx = i - 1]
     /\ IF i <= Len(hist) THEN inline' = Inlined(hist[i].elem, hist[i].old) ELSE UNCHANGED inline
     /\ UNCHANGED <<rule, hist, pushed, account>>

ResetEnds(o) ==
  /\ req[o].kind = "reset" /\ req[o].idx = 0
  /\ UNCHANGED <<pageStyle, pushed>>
  /\ Settles(o, <<>>, evicted, spread, muddled)

(* An error the handler does not list, before anything is set                *)
FailsOp(o) ==
  /\ IsBusy(o)
  /\ req' = [req EXCEPT ![o] = NoReq]
  /\ UNCHANGED <<pageStyle, hist, pushed, account>>

(* The active page is another document from now on                          *)
OtherDocument ==
  /\ rule' = FirstRule /\ inline' = [e \in Elem |-> NoValue]
  /\ muddled' = (hist # <<>> \/ \E o \in CssReq : IsBusy(o))
  /\ base' = [e \in Elem |-> LookUnder(rule', inline', e)]
  /\ UNCHANGED <<hist, pushed, req, evicted, spread>>

CssNext ==
  \/ \E o \in CssReq :
       \/ StartsModify(o) \/ \E known \in BOOLEAN : Inspects(o, known)
       \/ SetsRule(o) \/ SetsInline(o)
       \/ StartsUndo(o) \/ UndoesByRule(o) \/ \E h \in {hist, Repopped} : UndoesInline(o, h)
       \/ StartsReset(o) \/ ResetsOne(o) \/ ResetEnds(o) \/ FailsOp(o)
  \/ OtherDocument

CssSpec == CssInit /\ [][CssNext]_cssVars
-----------------------------------------------------------------------------
CssTypeOK ==
  /\ Len(hist) <= HistCap /\ pushed \in 0..MaxMods
  /\ rule \in Value \cup {NoValue, PlainValue, FirstRule}
  /\ \A e \in Elem : inline[e] \in Value \cup {NoValue, PlainValue, FirstRule}

OldestOf(e) ==
  LET mine == {i \in 1..Len(hist) : hist[i].elem = e}
  IN IF mine = {} THEN Look(e) ELSE hist[CHOOSE i \in mine : \A j \in mine : i <= j].old

(* The oldest entry of an element remembers what it looked like before the   *)
(* first change, and an element without one still looks so, through undos in *)
(* any order that leaves no later change standing.                           *)
HistoryRewinds ==
  (\A o \in CssReq : ~IsBusy(o)) /\ ~evicted /\ ~spread /\ ~muddled =>
    \A e \in Elem : OldestOf(e) = base[e]

IsReset(o) == req[o].kind = "reset" /\ req[o].idx = 0 /\ hist # <<>> /\ hist' = <<>>

(* A reset gives every element its first look back, when the history is      *)
(* complete and each change was seen by its own element only.                *)
ResetRestores ==
  [][\A o \in CssReq : IsReset(o) /\ ~evicted /\ ~spread /\ ~muddled => Looks = base]_cssVars

(* The history of style changes leads back to what the page looked like, by *)
(* undos or by a reset.                                                     *)
StylesCorrect ==
  [](CssTypeOK /\ HistoryRewinds) /\ ResetRestores
=============================================================================
