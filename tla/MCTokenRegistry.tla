--------------------------- MODULE MCTokenRegistry ---------------------------
(* The registry, what a grant allows, its rate limiter and the stores of     *)
(* cookies and leases share no state, so they are checked side by side: a    *)
(* behaviour picks one of them at the start, its focus, and the others stay  *)
(* as they begin.  Four token strings: two pairings of a client, each        *)
(* exchanged once; two grants over a host and one below it; maps of two      *)
(* entries, so that each overflows.                                          *)
EXTENDS TokenRegistry, AccessLimits, TLC

CONSTANTS a, b  \* labels of host names

Hosts == {<<a>>, <<a, b>>}

Symmetry == Permutations(Key) \cup Permutations(Client) \cup Permutations(Cap)

VARIABLE focus  \* the part under study

accessVars == <<focus, vars, grantVars, rateVars, storeVars>>

AccessInit ==
  /\ focus \in {"registry", "grants", "rate", "stores"}
  /\ Init /\ GrantInit /\ RateInit /\ StoresInit
  /\ focus # "rate" => limit = 0

Runs(f) ==
  /\ focus = f /\ UNCHANGED focus
  /\ IF f = "registry" THEN TRUE ELSE UNCHANGED vars
  /\ IF f = "grants"   THEN TRUE ELSE UNCHANGED grantVars
  /\ IF f = "rate"     THEN TRUE ELSE UNCHANGED rateVars
  /\ IF f = "stores"   THEN TRUE ELSE UNCHANGED storeVars

AccessNext ==
  \/ Runs("registry") /\ Next
  \/ Runs("grants")   /\ GrantNext
  \/ Runs("rate")     /\ RateNext
  \/ Runs("stores")   /\ StoresNext

AccessSpec == AccessInit /\ [][AccessNext]_accessVars
=============================================================================
