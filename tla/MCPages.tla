------------------------------ MODULE MCPages ------------------------------
(* Page commands and shots share no state, so a behaviour picks one of      *)
(* them at the start, its focus, and the others stay as they begin.         *)
(* Page commands are looked at twice: two requests at once in one tab whose *)
(* page navigates, with two load-htmls; and one request while others switch *)
(* between two tabs, one of which navigates or loses its iframe by itself.  *)
EXTENDS PageCommands, PageShots, TLC

VARIABLE focus  \* what is under study

allVars == <<focus, pageVars, shotVars>>

OneTab == 1

KeepsItsFrame == doc'[OneTab] = doc[OneTab] => inner'[OneTab] = inner[OneTab]

AtMostOne == \A c, d \in Cmd : c # d => cmd'[c].todo = <<>> \/ cmd'[d].todo = <<>>

PagesInit ==
  /\ focus \in {"overlap", "switching", "shots"}
  /\ PageInit /\ ShotInit
  /\ focus # "switching" => activeTabId = OneTab
  /\ focus # "shots" => size = CHOOSE w \in Width : TRUE

Runs(f) ==
  /\ focus = f /\ UNCHANGED focus
  /\ IF f \in {"overlap", "switching"} THEN TRUE ELSE UNCHANGED pageVars
  /\ IF f = "shots"  THEN TRUE ELSE UNCHANGED shotVars

PagesNext ==
  \/ Runs("overlap") /\ PageNext /\ activeTabId' = OneTab /\ KeepsItsFrame
  \/ Runs("switching") /\ PageNext /\ loads' = 0 /\ AtMostOne
  \/ Runs("shots") /\ ShotNext

PagesSpec == PagesInit /\ [][PagesNext]_allVars

Interchangeable == Permutations(Cmd) \cup Permutations(Shot)
=============================================================================
