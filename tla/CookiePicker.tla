---------------------------- MODULE CookiePicker ----------------------------
(***************************************************************************)
(* The cookie picker (cookie-picker-routes.ts) and the reading of another  *)
(* browser's cookies (cookie-import-browser.ts).  An import asks for the   *)
(* key, reads the database, may have to ask a headless run of that browser *)
(* instead, gives the cookies to the daemon's context and notes for which  *)
(* sites; a removal goes through its sites one by one.  Meanwhile the      *)
(* context may be replaced (BrowserContext has the replacement itself).    *)
(* Which cookies can be decrypted is data, chosen freely; the other        *)
(* browser and the password stores are external.                           *)
(***************************************************************************)
EXTENDS Naturals, Sequences, SequencesExt, FiniteSets

CONSTANTS Job,    \* requests to /import and /remove
          Site, Platform,
          MaxContexts

VARIABLES platform,
          job,       \* per request: where it is, its sites, those under way, lookups left,
                     \* its context, and the sites whose cookies changed under its clearing
          keyCached, \* keyCache spares the lookup, which it does on Windows only
          chromes,   \* jobs whose headless Chrome runs
          context, jar, \* the context, and the sites whose imported cookies it has
          saving, carried, \* a replacement is under way, with these
          answered,  \* jobs for which Chromium's answer is on its way, in order
          imported,  \* importedDomains
          blurred    \* history: sites whose cookies changed while others were cleared or saved

pickerVars == <<platform, job, keyCached, chromes, context, jar, saving, carried, answered, imported, blurred>>
chromium == <<context, jar, saving, carried, answered, blurred>>

NewJob == [at |-> "new", sites |-> {}, now |-> {}, tries |-> 0, context |-> 1, changed |-> {}]

PickerInit ==
  /\ platform \in Platform /\ job = [j \in Job |-> NewJob] /\ keyCached = FALSE /\ chromes = {}
  /\ context = 1 /\ jar = {} /\ saving = FALSE /\ carried = {} /\ answered = <<>>
  /\ imported = {} /\ blurred = {}

Is(j, at) == job[j].at = at
GoesTo(j, at) == job' = [job EXCEPT ![j].at = at]
SomeSites == (SUBSET Site) \ {{}}
-----------------------------------------------------------------------------
(* The key.  Variants named ...Without... or ...First are plausible         *)
(* mistakes in the definition that follows them; no specification uses them. *)

(* POST /import, up to the first await of importCookies                     *)
Import(j, sites) ==
  /\ Is(j, "new")
  /\ job' = [job EXCEPT ![j] = [NewJob EXCEPT !.sites = sites,
                                  !.at = IF platform = "win32" /\ keyCached THEN "reading" ELSE "lookup",
                                  !.tries = IF platform = "linux" THEN 3 ELSE 1]]
  /\ UNCHANGED <<platform, keyCached, chromes, imported, chromium>>

(* security, secret-tool or powershell prints the password or key           *)
LookupAnswers(j) ==
  /\ Is(j, "lookup") /\ GoesTo(j, "reading") /\ keyCached' = (platform = "win32")
  /\ UNCHANGED <<platform, chromes, imported, chromium>>

(* It fails, or is killed when its time is over.  Linux has other names to  *)
(* try, and a fixed key without any; macOS and Windows give up.             *)
LookupFails(j) ==
  /\ Is(j, "lookup")
  /\ job' = [job EXCEPT ![j].tries = @ - 1,
               ![j].at = IF job[j].tries > 1 THEN "lookup" ELSE IF platform = "linux" THEN "reading" ELSE "over"]
  /\ UNCHANGED <<platform, keyCached, chromes, imported, chromium>>
-----------------------------------------------------------------------------
(* addCookies is called on the context of the active page                   *)
AddsListingFirst(j, found) ==
  /\ job' = [job EXCEPT ![j].at = "adding", ![j].now = found, ![j].context = context]
  /\ imported' = imported \cup found

Adds(j, found) ==
  /\ job' = [job EXCEPT ![j].at = "adding", ![j].now = found, ![j].context = context]
  /\ UNCHANGED imported

(* A database that is locked and cannot be copied either, or is corrupt     *)
DatabaseFails(j) ==
  /\ Is(j, "reading") /\ GoesTo(j, "over")
  /\ UNCHANGED <<platform, keyCached, chromes, imported, chromium>>

(* Sites of which a cookie can be decrypted                                 *)
Decrypted(j) == {found \in SomeSites : found \subseteq job[j].sites}

(* hasV20Cookies: cookies that only the browser itself can read             *)
NeedsBrowser(j) == platform = "win32" /\ GoesTo(j, "probing") /\ UNCHANGED imported

FindsNothing(j) == GoesTo(j, "over") /\ UNCHANGED imported

(* The rest of importCookies.  A request that finds no active page fails    *)
(* like one that finds no cookies.                                          *)
ReadsDatabase(j) ==
  /\ Is(j, "reading")
  /\ FindsNothing(j) \/ NeedsBrowser(j) \/ \E found \in Decrypted(j) : Adds(j, found)
  /\ UNCHANGED <<platform, keyCached, chromes, chromium>>

(* isBrowserRunning, then the launch                                        *)
ChromeIsLaunched(j) ==
  /\ Is(j, "probing")
  /\ \/ GoesTo(j, "over") /\ UNCHANGED chromes
     \/ GoesTo(j, "polling") /\ chromes' = chromes \cup {j}
  /\ UNCHANGED <<platform, keyCached, imported, chromium>>

PageAppears(j) ==
  /\ Is(j, "polling") /\ j \in chromes /\ GoesTo(j, "extracting")
  /\ UNCHANGED <<platform, keyCached, chromes, imported, chromium>>

PollDeadlineWithoutKill(j) ==
  /\ Is(j, "polling") /\ GoesTo(j, "over")
  /\ UNCHANGED <<platform, keyCached, chromes, imported, chromium>>

PollDeadline(j) ==
  /\ Is(j, "polling") /\ GoesTo(j, "over") /\ chromes' = chromes \ {j}
  /\ UNCHANGED <<platform, keyCached, imported, chromium>>

(* extractCookiesViaCdp and the finally of its caller                       *)
Extracts(j) ==
  /\ Is(j, "extracting") /\ j \in chromes /\ chromes' = chromes \ {j}
  /\ FindsNothing(j) \/ \E found \in Decrypted(j) : Adds(j, found)
  /\ UNCHANGED <<platform, keyCached, chromium>>

(* Its timer, an error of the socket or of the protocol                     *)
ExtractionFails(j) ==
  /\ Is(j, "extracting") /\ GoesTo(j, "over") /\ chromes' = chromes \ {j}
  /\ UNCHANGED <<platform, keyCached, imported, chromium>>

ChromeDies(j) ==
  /\ j \in chromes /\ chromes' = chromes \ {j}
  /\ UNCHANGED <<platform, job, keyCached, imported, chromium>>
-----------------------------------------------------------------------------
(* The context                                                              *)

(* Every clearing that is under way has seen, or not, that `sites` changed  *)
TakesEffect(j, at, sites, now) ==
  job' = [i \in Job |->
            IF i = j THEN [job[i] EXCEPT !.at = at, !.now = now]
            ELSE IF Is(i, "clearing") THEN [job[i] EXCEPT !.changed = @ \cup sites] ELSE job[i]]

Here(j) == job[j].context = context
Blurs(sites) == blurred' = blurred \cup sites

CookiesArrive(j) ==
  /\ Is(j, "adding") /\ Here(j)
  /\ jar' = jar \cup job[j].now /\ TakesEffect(j, "added", job[j].now, job[j].now)
  /\ answered' = Append(answered, j) /\ Blurs(IF saving THEN job[j].now ELSE {})
  /\ UNCHANGED <<platform, keyCached, chromes, context, saving, carried, imported>>

(* The library reads all cookies, clears them and puts back the others, so  *)
(* that what changed in between may be undone                               *)
CookiesGo(j) ==
  /\ Is(j, "clearing") /\ Here(j)
  /\ \E s \in job[j].sites : \E kept \in SUBSET job[j].changed :
       /\ jar' = (jar \ ({s} \cup job[j].changed)) \cup kept
       /\ TakesEffect(j, "cleared", {s}, {s})
       /\ Blurs(job[j].changed \cup IF saving THEN {s} ELSE {})
  /\ answered' = Append(answered, j)
  /\ UNCHANGED <<platform, keyCached, chromes, context, saving, carried, imported>>

NextAnswer(j) == answered # <<>> /\ Head(answered) = j /\ answered' = Tail(answered)

Records(j) ==
  /\ Is(j, "added") /\ NextAnswer(j)
  /\ imported' = imported \cup job[j].now /\ GoesTo(j, "over")
  /\ UNCHANGED <<platform, keyCached, chromes, context, jar, saving, carried, blurred>>

(* POST /remove                                                             *)
Removal(j, sites) ==
  /\ Is(j, "new")
  /\ job' = [job EXCEPT ![j] = [NewJob EXCEPT !.at = "clearing", !.sites = sites, !.context = context]]
  /\ UNCHANGED <<platform, keyCached, chromes, imported, chromium>>

Unlists(j) ==
  /\ Is(j, "cleared") /\ NextAnswer(j)
  /\ imported' = imported \ job[j].now
  /\ LET left == job[j].sites \ job[j].now IN
     job' = [job EXCEPT ![j].sites = left, ![j].changed = {}, ![j].at = IF left = {} THEN "over" ELSE "clearing"]
  /\ UNCHANGED <<platform, keyCached, chromes, context, jar, saving, carried, blurred>>

(* The context of a call is closed, before or after the call took effect;   *)
(* an answer that is on its way is lost with it                             *)
LosesAnswer(j) ==
  \E i \in DOMAIN answered : answered[i] = j /\ answered' = RemoveAt(answered, i)

CallFails(j) ==
  /\ ~Here(j) /\ GoesTo(j, "over")
  /\ \/ job[j].at \in {"adding", "clearing"} /\ UNCHANGED <<answered, blurred>>
     \/ job[j].at \in {"added", "cleared"} /\ LosesAnswer(j) /\ Blurs(job[j].now)
  /\ UNCHANGED <<platform, keyCached, chromes, context, jar, saving, carried, imported>>

(* saveState, and later the new context with what it saved                  *)
ContextIsSaved ==
  /\ ~saving /\ context < MaxContexts /\ saving' = TRUE /\ carried' = jar
  /\ UNCHANGED <<platform, job, keyCached, chromes, context, jar, answered, imported, blurred>>

ContextIsReplaced ==
  /\ saving /\ saving' = FALSE /\ context' = context + 1 /\ jar' = carried /\ carried' = {}
  /\ UNCHANGED <<platform, job, keyCached, chromes, answered, imported, blurred>>

ImportStep(j) ==
  \/ LookupAnswers(j) \/ LookupFails(j) \/ DatabaseFails(j) \/ ReadsDatabase(j)
  \/ ChromeIsLaunched(j) \/ PageAppears(j) \/ PollDeadline(j) \/ Extracts(j) \/ ExtractionFails(j) \/ ChromeDies(j)

PickerNext ==
  \/ \E j \in Job, sites \in SomeSites : Import(j, sites) \/ Removal(j, sites)
  \/ \E j \in Job : \/ ImportStep(j) \/ CookiesArrive(j) \/ Records(j)
                    \/ CookiesGo(j) \/ Unlists(j) \/ CallFails(j)
  \/ ContextIsSaved \/ ContextIsReplaced
-----------------------------------------------------------------------------
PickerSpec == PickerInit /\ [][PickerNext]_pickerVars

PickerTypeOK ==
  /\ \A j \in Job : job[j].now \subseteq Site /\ job[j].sites \subseteq Site /\ job[j].context \in 1..context
  /\ chromes \subseteq Job /\ jar \cup carried \cup imported \cup blurred \subseteq Site

(* "Chrome is always killed": the headless Chrome that an import runs on    *)
(* the user's own profile does not outlive it.                              *)
ChromeGoesWithImport == \A j \in chromes : job[j].at \in {"polling", "extracting"}

(* What /imported lists is what the context has, but for calls whose answer *)
(* is still to come, and unless the site's cookies changed while others     *)
(* were cleared or the context was being replaced.                          *)
ListIsTrue ==
  \A s \in Site \ blurred : (s \in jar) # (s \in imported) =>
    \E j \in Job : job[j].at \in {"added", "cleared"} /\ s \in job[j].now

(* The picker lists what it has imported and leaves no Chrome behind.       *)
PickerCorrect ==
  PickerTypeOK /\ ChromeGoesWithImport /\ ListIsTrue
=============================================================================
