------------------------------- MODULE Consent -------------------------------
(***************************************************************************)
(* Consent to tracking, in the pages one browser has open: the choice is   *)
(* kept in localStorage, read once by each page and then held in its       *)
(* memory; trackers start when it allows them, and are told what the       *)
(* customer does.                                                          *)
(*                                                                         *)
(* gtag stands for Microsoft Clarity as well, and fbq for the Pinterest    *)
(* tag, which are started by the same rule.                                *)
(***************************************************************************)
EXTENDS Integers, FiniteSets

CONSTANT Pages  \* the page loads there may be, in any tab

VARIABLES
  stored,      \* localStorage "cookie-consent"
  memory,      \* per page: the choice as its store holds it
  open,        \* pages that have been loaded; one left alone may be closed
  asked,       \* per page: scripts that have been asked for
  running,     \* per page: scripts that have run
  sdk,         \* per page: PostHog not initialised, on, or its consent revoked
  learnq,      \* per page: window._learnq holds events nobody has read
  told,        \* per page: categories whose trackers have been told something
  agreed,      \* categories the customer has ever switched on
  optedOut,    \* the customer has opted out at some time
  before,      \* pages that were loaded before the first opt-out
  overwritten  \* one of them, which did not know of it, has written since

choices == <<stored, memory>>
page    == <<asked, running, sdk, learnq, told>>
history == <<agreed, optedOut, before, overwritten>>
vars    == <<choices, open, page, history>>

----------------------------------------------------------------------------
Categories == {"analytics", "marketing"}

(* CookieConsentStore: preferences, hasDecided and doNotSellOptedOut. *)
Choices == [allowed : SUBSET Categories, decided : BOOLEAN, doNotSell : BOOLEAN]

Fresh == [allowed |-> {}, decided |-> FALSE, doNotSell |-> FALSE]

Scripts == {"gtag", "fbq", "klaviyo"}

Category(s) == IF s = "gtag" THEN "analytics" ELSE "marketing"

TypeOK ==
  /\ stored  \in Choices
  /\ memory  \in [Pages -> Choices]
  /\ open    \subseteq Pages
  /\ asked   \in [Pages -> SUBSET Scripts]
  /\ running \in [Pages -> SUBSET Scripts]
  /\ sdk     \in [Pages -> {"off", "on", "revoked"}]
  /\ learnq  \in [Pages -> BOOLEAN]
  /\ told    \in [Pages -> SUBSET Categories]
  /\ agreed  \subseteq Categories
  /\ optedOut \in BOOLEAN /\ overwritten \in BOOLEAN
  /\ before  \subseteq open
  /\ \A p \in Pages : asked[p] \cap running[p] = {}
  /\ \A p \in Pages : learnq[p] => "klaviyo" \notin running[p]

Init ==
  /\ stored = Fresh /\ memory = [p \in Pages |-> Fresh] /\ open = {}
  /\ asked = [p \in Pages |-> {}] /\ running = [p \in Pages |-> {}]
  /\ sdk = [p \in Pages |-> "off"] /\ learnq = [p \in Pages |-> FALSE]
  /\ told = [p \in Pages |-> {}]
  /\ agreed = {} /\ optedOut = FALSE /\ before = {} /\ overwritten = FALSE

----------------------------------------------------------------------------
(* What the components of the layout do when the choice of a page changes. *)

(* Mutant: one consent is taken for both. *)
Wants_Any(c) == {s \in Scripts : c.allowed # {}}

Wants(c) == {s \in Scripts : Category(s) \in c.allowed}

(* Mutant: a script that is there is asked for again. *)
Ask_Again(p, c) == asked' = [asked EXCEPT ![p] = @ \cup Wants(c)]

(* GoogleAnalytics, FacebookPixel, Klaviyo: a script is asked for once; it *)
(* comes later, and is not called off.                                     *)
Ask(p, c) == asked' = [asked EXCEPT ![p] = @ \cup (Wants(c) \ running[p])]

(* The effects of PostHogAnalytics: init or opt_in_capturing, and the page *)
(* view that follows; opt_out_capturing and reset if there is anything to  *)
(* stop, and the component's own page views end.                           *)
PostHogEffect(p, c) ==
  /\ sdk' = [sdk EXCEPT ![p] = CASE "analytics" \in c.allowed -> "on"
                                 [] @ = "off" -> "off"
                                 [] OTHER -> "revoked"]
  /\ told' = [told EXCEPT ![p] = @ \cup (c.allowed \cap {"analytics"})]

(* A choice reaches the store of a page, and so its components. *)
Hold(p, c) ==
  /\ memory' = [memory EXCEPT ![p] = c]
  /\ Ask(p, c)
  /\ PostHogEffect(p, c)

----------------------------------------------------------------------------
(* The store.  Whatever is set, persist writes the whole choice as the     *)
(* page has it.                                                            *)

Unaware(p) == p \in before /\ ~memory[p].doNotSell

Set(p, c) ==
  /\ Hold(p, c)
  /\ stored' = c
  /\ overwritten' = (overwritten \/ (Unaware(p) /\ ~c.doNotSell))
  /\ UNCHANGED <<open, running, learnq>>

(* Mutant: the opt-out does not stand in the way. *)
Decided_Unguarded(p, allowed) == [memory[p] EXCEPT !.decided = TRUE, !.allowed = allowed]

(* acceptAll and savePreferences: after an opt-out, nothing is allowed. *)
Decided(p, allowed) ==
  [memory[p] EXCEPT !.decided = TRUE,
                    !.allowed = IF memory[p].doNotSell THEN {} ELSE allowed]

(* The buttons of the banner, which shows until something is decided:      *)
(* accept all, reject all, or what the switches say.                       *)
Decide(p, allowed) ==
  /\ p \in open /\ ~memory[p].decided
  /\ Set(p, Decided(p, allowed))
  /\ agreed' = agreed \cup allowed
  /\ UNCHANGED <<optedOut, before>>

(* The footer's button: the banner shows again, nothing else changes. *)
CookiePreferencesButton(p) ==
  /\ p \in open
  /\ Set(p, [memory[p] EXCEPT !.decided = FALSE])
  /\ UNCHANGED <<agreed, optedOut, before>>

OptOut == [allowed |-> {}, decided |-> TRUE, doNotSell |-> TRUE]

(* The opt-out is made on page p while the pages of "others" are there. *)
NoteOptOut(others) ==
  /\ optedOut' = TRUE
  /\ before' = IF optedOut THEN before ELSE others

DoNotSellLink(p) ==
  /\ p \in open
  /\ Set(p, OptOut)
  /\ NoteOptOut(open)
  /\ UNCHANGED agreed

----------------------------------------------------------------------------
(* A page is loaded.  The trackers of a product or an order page speak     *)
(* first, and only Klaviyo's queue listens; CookieBanner reads the choice  *)
(* from localStorage; GpcHonorer opts out if the browser says so.          *)
OpenPage(p, speaks, gpc) ==
  /\ p \notin open
  /\ open' = open \cup {p}
  /\ learnq' = [learnq EXCEPT ![p] = speaks]
  /\ IF gpc /\ ~stored.doNotSell
       THEN Hold(p, OptOut) /\ stored' = OptOut /\ NoteOptOut(open)
       ELSE Hold(p, stored) /\ UNCHANGED <<stored, optedOut, before>>
  /\ UNCHANGED <<running, agreed, overwritten>>

(* The script arrives and runs.  The pixel counts a page view, Klaviyo     *)
(* reads what has been queued.                                             *)
ScriptRuns(p, s) ==
  /\ s \in asked[p]
  /\ asked' = [asked EXCEPT ![p] = @ \ {s}]
  /\ running' = [running EXCEPT ![p] = @ \cup {s}]
  /\ told' = [told EXCEPT ![p] =
       IF s = "fbq" \/ (s = "klaviyo" /\ learnq[p]) THEN @ \cup {"marketing"} ELSE @]
  /\ learnq' = [learnq EXCEPT ![p] = @ /\ s # "klaviyo"]
  /\ UNCHANGED <<choices, open, sdk, history>>

(* gtag, fbq and the capture of lib/analytics do nothing when their script *)
(* is not there, and speak to it while it is.                              *)
Hearing(p, posthog) ==
  {Category(s) : s \in running[p]} \cup (IF posthog THEN {"analytics"} ELSE {})

(* The customer looks at a product, puts it into the cart, starts the      *)
(* checkout, orders, or signs in: all trackers are told, and Klaviyo's     *)
(* queue keeps the event until somebody reads it.  The code only asks      *)
(* whether PostHog is loaded; whether it still listens after an opt-out    *)
(* that is followed by a reset is for the library to say, and left open.   *)
Track(p) ==
  /\ p \in open
  /\ \E posthog \in {sdk[p] = "on", sdk[p] # "off"} :
       told' = [told EXCEPT ![p] = @ \cup Hearing(p, posthog)]
  /\ learnq' = [learnq EXCEPT ![p] = "klaviyo" \notin running[p]]
  /\ UNCHANGED <<choices, open, asked, running, sdk, history>>

(* The customer goes to another page without loading it: PostHog and       *)
(* Google Analytics count a page view while the consent stands.            *)
Navigate(p) ==
  /\ p \in open
  /\ told' = [told EXCEPT ![p] =
       IF sdk[p] = "on" \/ ("gtag" \in running[p] /\ "analytics" \in memory[p].allowed)
         THEN @ \cup {"analytics"} ELSE @]
  /\ UNCHANGED <<choices, open, asked, running, sdk, learnq, history>>

PageStep(p) ==
  \/ \E speaks, gpc \in BOOLEAN : OpenPage(p, speaks, gpc)
  \/ \E allowed \in SUBSET Categories : Decide(p, allowed)
  \/ CookiePreferencesButton(p)
  \/ DoNotSellLink(p)
  \/ \E s \in Scripts : ScriptRuns(p, s)
  \/ Track(p)
  \/ Navigate(p)

Next == \E p \in Pages : PageStep(p)

Spec == Init /\ [][Next]_vars

----------------------------------------------------------------------------
(* Consent comes first: no tracker of a category is loaded, initialised or *)
(* told of anything before the customer has switched that category on, in  *)
(* this page or in another one.  Nothing is claimed of a consent that is   *)
(* withdrawn: scripts that run go on running.                              *)
TrackersNeedConsent ==
  \A p \in Pages :
    /\ told[p] \cup {Category(s) : s \in running[p]} \subseteq agreed
    /\ sdk[p] # "off" => "analytics" \in agreed

(* An opt-out is for good: a page loaded after it loads no tracker and     *)
(* tells none anything, whatever is clicked in it, unless a page that is   *)
(* older than the opt-out has written its own choice over it.              *)
OptOutHolds ==
  optedOut /\ ~overwritten =>
    /\ stored.doNotSell /\ stored.allowed = {}
    /\ \A p \in open \ before : asked[p] = {} /\ running[p] = {} /\ told[p] = {}
=============================================================================
