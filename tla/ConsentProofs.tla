---------------------------- MODULE ConsentProofs ----------------------------
(***************************************************************************)
(* The properties of the two consents, to tracking and to the newsletter:  *)
(* those of Consent, for any number of pages, and those of Newsletter, for *)
(* any number of submissions, links and failures.                          *)
(***************************************************************************)
EXTENDS Consent, TLAPS

LEMMA CategoryType == \A s \in Scripts : Category(s) \in Categories
  BY SMT DEF Scripts, Category, Categories

(* What a page writes is a choice. *)
LEMMA ChoiceTypes ==
  ASSUME TypeOK, NEW p \in Pages
  PROVE  /\ memory[p] \in Choices /\ OptOut \in Choices
         /\ \A allowed \in SUBSET Categories : Decided(p, allowed) \in Choices
         /\ [memory[p] EXCEPT !.decided = FALSE] \in Choices
  <1>1. memory[p] \in Choices
    BY SMT DEF TypeOK
  <1>2. OptOut \in Choices
    BY SMT DEF Choices, OptOut
  <1>3. ASSUME NEW allowed \in SUBSET Categories
        PROVE  Decided(p, allowed) \in Choices
    <2> DEFINE kept == IF memory[p].doNotSell THEN {} ELSE allowed
    <2>1. kept \in SUBSET Categories
      BY SMT
    <2> HIDE DEF kept
    <2>2. [memory[p] EXCEPT !.decided = TRUE, !.allowed = kept] \in Choices
      BY <1>1, <2>1, Zenon DEF Choices
    <2> QED BY <2>2 DEF Decided, kept
  <1>4. [memory[p] EXCEPT !.decided = FALSE] \in Choices
    BY <1>1, Zenon DEF Choices
  <1> QED BY <1>1, <1>2, <1>3, <1>4

(* Holding a choice keeps the types of what a page consists of. *)
LEMMA HoldTypes ==
  ASSUME TypeOK, NEW p \in Pages, NEW c \in Choices, Hold(p, c), running' = running
  PROVE  /\ memory' \in [Pages -> Choices]
         /\ asked' \in [Pages -> SUBSET Scripts]
         /\ sdk' \in [Pages -> {"off", "on", "revoked"}]
         /\ told' \in [Pages -> SUBSET Categories]
         /\ \A q \in Pages : asked'[q] \cap running'[q] = {}
  <1>1. Wants(c) \subseteq Scripts /\ c.allowed \subseteq Categories
    BY SMT DEF Wants, Choices
  <1>2. memory' \in [Pages -> Choices]
    BY SMT DEF TypeOK, Hold
  <1>3. /\ asked' \in [Pages -> SUBSET Scripts]
        /\ \A q \in Pages : asked'[q] \cap running'[q] = {}
    BY <1>1, SMT DEF TypeOK, Hold, Ask
  <1>4. /\ sdk' \in [Pages -> {"off", "on", "revoked"}]
        /\ told' \in [Pages -> SUBSET Categories]
    BY <1>1, SMT DEF TypeOK, Hold, PostHogEffect
  <1> QED BY <1>2, <1>3, <1>4

LEMMA SetTypes ==
  ASSUME TypeOK, NEW p \in Pages, NEW c \in Choices, Set(p, c),
         agreed' \subseteq Categories, optedOut' \in BOOLEAN, before' \subseteq open
  PROVE  TypeOK'
  <1>1. Hold(p, c) /\ running' = running
    BY DEF Set
  <1>2. overwritten' \in BOOLEAN
    BY SMT DEF Set
  <1>3. /\ stored' \in Choices /\ open' \subseteq Pages /\ before' \subseteq open'
        /\ running' \in [Pages -> SUBSET Scripts] /\ learnq' \in [Pages -> BOOLEAN]
        /\ \A q \in Pages : learnq'[q] => "klaviyo" \notin running'[q]
    BY SMT DEF TypeOK, Set
  <1> QED BY <1>1, <1>2, <1>3, HoldTypes DEF TypeOK

(* Nothing happens in a page before it is loaded. *)
Blank(p) == asked[p] = {} /\ running[p] = {} /\ told[p] = {} /\ sdk[p] = "off"

Untouched == \A p \in Pages \ open : Blank(p)

LEMMA InitTypes == Init => TypeOK /\ Untouched
  <1> SUFFICES ASSUME Init PROVE TypeOK /\ Untouched
    OBVIOUS
  <1>1. Fresh \in Choices
    BY SMT DEF Fresh, Choices, Categories
  <1>2. learnq \in [Pages -> BOOLEAN] /\ \A p \in Pages : ~learnq[p]
    BY Zenon DEF Init
  <1>3. optedOut \in BOOLEAN /\ overwritten \in BOOLEAN
    BY Zenon DEF Init
  <1>4. TypeOK
    BY <1>1, <1>2, <1>3, SMT DEF Init, TypeOK
  <1> QED BY <1>4, SMT DEF Init, Untouched, Blank

LEMMA OpenTypes ==
  ASSUME TypeOK, Untouched, NEW p \in Pages, NEW speaks \in BOOLEAN, NEW gpc \in BOOLEAN,
         OpenPage(p, speaks, gpc)
  PROVE  TypeOK'
  <1>1. /\ open' \subseteq Pages /\ open \subseteq open' /\ running' = running
        /\ agreed' \subseteq Categories /\ overwritten' \in BOOLEAN
    BY SMT DEF TypeOK, OpenPage
  <1>2. learnq' \in [Pages -> BOOLEAN]
    BY Zenon DEF TypeOK, OpenPage
  <1>3. PICK c \in Choices : Hold(p, c)
    BY ChoiceTypes DEF TypeOK, OpenPage
  <1>4. /\ stored' \in Choices /\ optedOut' \in BOOLEAN /\ before' \subseteq open
    BY ChoiceTypes DEF TypeOK, OpenPage, NoteOptOut
  <1>5. \A q \in Pages : learnq'[q] => "klaviyo" \notin running'[q]
    <2> SUFFICES ASSUME NEW q \in Pages, learnq'[q]
                 PROVE  "klaviyo" \notin running'[q]
      OBVIOUS
    <2>1. CASE q = p
      BY <1>1, <2>1, SMT DEF Untouched, Blank, OpenPage
    <2>2. CASE q # p
      <3>1. learnq'[q] = learnq[q]
        BY <2>2, Zenon DEF TypeOK, OpenPage
      <3> QED BY <1>1, <3>1 DEF TypeOK
    <2> QED BY <2>1, <2>2
  <1> QED BY <1>1, <1>2, <1>3, <1>4, <1>5, HoldTypes DEF TypeOK

LEMMA ScriptTypes ==
  ASSUME TypeOK, NEW p \in Pages, NEW s \in Scripts, ScriptRuns(p, s)
  PROVE  TypeOK'
  <1>1. UNCHANGED <<stored, memory, open, sdk, agreed, optedOut, before, overwritten>>
    BY DEF ScriptRuns, choices, history
  <1>2. /\ asked' \in [Pages -> SUBSET Scripts] /\ running' \in [Pages -> SUBSET Scripts]
        /\ \A q \in Pages : asked'[q] \cap running'[q] = {}
    BY SMT DEF TypeOK, ScriptRuns
  <1>3. told' \in [Pages -> SUBSET Categories]
    BY SMT DEF TypeOK, ScriptRuns, Categories
  <1>4. learnq' \in [Pages -> BOOLEAN]
    BY Zenon DEF TypeOK, ScriptRuns
  <1>5. \A q \in Pages : learnq'[q] => "klaviyo" \notin running'[q]
    <2> SUFFICES ASSUME NEW q \in Pages, learnq'[q]
                 PROVE  "klaviyo" \notin running'[q]
      OBVIOUS
    <2>1. CASE q = p
      <3>1. learnq[p] /\ s # "klaviyo"
        BY <2>1, Zenon DEF TypeOK, ScriptRuns
      <3> QED BY <2>1, <3>1, SMT DEF TypeOK, ScriptRuns
    <2>2. CASE q # p
      <3>1. learnq'[q] = learnq[q] /\ running'[q] = running[q]
        BY <2>2, Zenon DEF TypeOK, ScriptRuns
      <3> QED BY <3>1 DEF TypeOK
    <2> QED BY <2>1, <2>2
  <1> QED BY <1>1, <1>2, <1>3, <1>4, <1>5 DEF TypeOK

LEMMA TrackTypes ==
  ASSUME TypeOK, NEW p \in Pages, Track(p) \/ Navigate(p)
  PROVE  TypeOK'
  <1>1. UNCHANGED <<stored, memory, open, asked, running, sdk, agreed, optedOut, before, overwritten>>
    BY DEF Track, Navigate, choices, history
  <1>2. ASSUME NEW posthog
        PROVE  Hearing(p, posthog) \subseteq Categories
    BY CategoryType, SMT DEF TypeOK, Hearing, Categories
  <1>3. told' \in [Pages -> SUBSET Categories]
    <2>1. CASE Track(p)
      <3>1. PICK posthog : told' = [told EXCEPT ![p] = @ \cup Hearing(p, posthog)]
        BY <2>1, Zenon DEF Track
      <3> QED BY <1>2, <3>1 DEF TypeOK
    <2>2. CASE Navigate(p)
      BY <2>2, SMT DEF TypeOK, Navigate, Categories
    <2> QED BY <2>1, <2>2
  <1>4. learnq' \in [Pages -> BOOLEAN]
    BY Zenon DEF TypeOK, Track, Navigate
  <1>5. \A q \in Pages : learnq'[q] => "klaviyo" \notin running'[q]
    BY <1>1, Zenon DEF TypeOK, Track, Navigate
  <1> QED BY <1>1, <1>3, <1>4, <1>5 DEF TypeOK

(* Only a page that is open is asked, runs, hears or holds anything. *)
LEMMA HoldUntouched ==
  ASSUME TypeOK, Untouched, NEW p \in open', NEW c, Hold(p, c), running' = running,
         open \subseteq open'
  PROVE  Untouched'
  <1> SUFFICES ASSUME NEW q \in Pages \ open' PROVE Blank(q)'
    BY DEF Untouched
  <1>1. q # p /\ Blank(q)
    BY DEF Untouched
  <1>2. asked'[q] = asked[q] /\ sdk'[q] = sdk[q] /\ told'[q] = told[q]
    BY <1>1, SMT DEF TypeOK, Hold, Ask, PostHogEffect
  <1> QED BY <1>1, <1>2 DEF Blank

LEMMA TypeStep == TypeOK /\ Untouched /\ [Next]_vars => TypeOK' /\ Untouched'
  <1> SUFFICES ASSUME TypeOK, Untouched, [Next]_vars
               PROVE  TypeOK' /\ Untouched'
    OBVIOUS
  <1>1. CASE UNCHANGED vars
    <2>1. TypeOK'
      BY <1>1 DEF TypeOK, vars, choices, page, history
    <2>2. Untouched'
      BY <1>1 DEF Untouched, Blank, vars, choices, page, history
    <2> QED BY <2>1, <2>2
  <1>2. ASSUME NEW p \in Pages, PageStep(p)
        PROVE  TypeOK' /\ Untouched'
    <2>1. ASSUME NEW speaks \in BOOLEAN, NEW gpc \in BOOLEAN, OpenPage(p, speaks, gpc)
          PROVE  TypeOK' /\ Untouched'
      <3>1. PICK c : Hold(p, c)
        BY <2>1 DEF OpenPage
      <3>2. p \in open' /\ open \subseteq open' /\ running' = running
        BY <2>1 DEF OpenPage
      <3> QED BY <2>1, <3>1, <3>2, OpenTypes, HoldUntouched
    <2>2. ASSUME NEW allowed \in SUBSET Categories, Decide(p, allowed)
          PROVE  TypeOK' /\ Untouched'
      <3>1. /\ Set(p, Decided(p, allowed)) /\ Decided(p, allowed) \in Choices
            /\ agreed' \subseteq Categories /\ optedOut' \in BOOLEAN /\ before' \subseteq open
        BY <2>2, ChoiceTypes DEF Decide, TypeOK
      <3>2. Hold(p, Decided(p, allowed)) /\ p \in open' /\ open' = open /\ running' = running
        BY <2>2, <3>1 DEF Set, Decide
      <3> QED BY <3>1, <3>2, SetTypes, HoldUntouched
    <2>3. CASE CookiePreferencesButton(p)
      <3> DEFINE c == [memory[p] EXCEPT !.decided = FALSE]
      <3>1. /\ Set(p, c) /\ c \in Choices
            /\ agreed' \subseteq Categories /\ optedOut' \in BOOLEAN /\ before' \subseteq open
        BY <2>3, ChoiceTypes DEF CookiePreferencesButton, TypeOK
      <3> HIDE DEF c
      <3>2. Hold(p, c) /\ p \in open' /\ open' = open /\ running' = running
        BY <2>3, <3>1 DEF Set, CookiePreferencesButton
      <3> QED BY <3>1, <3>2, SetTypes, HoldUntouched
    <2>4. CASE DoNotSellLink(p)
      <3>1. /\ Set(p, OptOut) /\ OptOut \in Choices
            /\ agreed' \subseteq Categories /\ optedOut' \in BOOLEAN /\ before' \subseteq open
        BY <2>4, ChoiceTypes DEF DoNotSellLink, NoteOptOut, TypeOK
      <3>2. Hold(p, OptOut) /\ p \in open' /\ open' = open /\ running' = running
        BY <2>4, <3>1 DEF Set, DoNotSellLink
      <3> QED BY <3>1, <3>2, SetTypes, HoldUntouched
    <2>5. ASSUME NEW s \in Scripts, ScriptRuns(p, s)
          PROVE  TypeOK' /\ Untouched'
      <3>1. p \in open
        BY <2>5 DEF Untouched, Blank, ScriptRuns
      <3>2. Untouched'
        BY <2>5, <3>1, SMT DEF Untouched, Blank, ScriptRuns, TypeOK
      <3> QED BY <2>5, <3>2, ScriptTypes
    <2>6. CASE Track(p) \/ Navigate(p)
      <3>1. Untouched'
        BY <2>6, SMT DEF Untouched, Blank, Track, Navigate, TypeOK
      <3> QED BY <2>6, <3>1, TrackTypes
    <2> QED BY <1>2, <2>1, <2>2, <2>3, <2>4, <2>5, <2>6 DEF PageStep
  <1> QED BY <1>1, <1>2 DEF Next

LEMMA TypesAndBlanks == Spec => [](TypeOK /\ Untouched)
  BY InitTypes, TypeStep, PTL DEF Spec

(* TypeOK for any number of pages: a script is not asked for where it runs *)
(* already, and Klaviyo's queue is read while its script is there          *)
(* (cookie-consent.store.ts, components/analytics).                        *)
THEOREM ConsentTypes == Spec => []TypeOK
  BY TypesAndBlanks, PTL

----------------------------------------------------------------------------
(* Whatever a choice allows, wherever it is held, has been switched on by  *)
(* the customer; scripts on their way have been too.                       *)
AgreedTo ==
  /\ stored.allowed \subseteq agreed
  /\ \A p \in Pages :
       /\ memory[p].allowed \subseteq agreed
       /\ told[p] \subseteq agreed
       /\ \A s \in asked[p] \cup running[p] : Category(s) \in agreed
       /\ sdk[p] # "off" => "analytics" \in agreed

LEMMA HoldAgreed ==
  ASSUME TypeOK, AgreedTo, NEW p \in Pages, NEW c \in Choices, Hold(p, c),
         running' = running, c.allowed \subseteq agreed', agreed \subseteq agreed',
         stored'.allowed \subseteq agreed'
  PROVE  AgreedTo'
  <1> SUFFICES ASSUME NEW q \in Pages
               PROVE  /\ memory'[q].allowed \subseteq agreed'
                      /\ told'[q] \subseteq agreed'
                      /\ \A s \in asked'[q] \cup running'[q] : Category(s) \in agreed'
                      /\ sdk'[q] # "off" => "analytics" \in agreed'
    BY DEF AgreedTo
  <1>1. CASE q # p
    <2>1. /\ memory'[q] = memory[q] /\ told'[q] = told[q] /\ asked'[q] = asked[q]
          /\ running'[q] = running[q] /\ sdk'[q] = sdk[q]
      BY <1>1, SMT DEF TypeOK, Hold, Ask, PostHogEffect
    <2> QED BY <2>1 DEF AgreedTo
  <1>2. CASE q = p
    <2>1. memory'[p] = c
      BY SMT DEF TypeOK, Hold
    <2>2. told'[p] = told[p] \cup (c.allowed \cap {"analytics"})
      BY SMT DEF TypeOK, Hold, PostHogEffect
    <2>3. asked'[p] = asked[p] \cup (Wants(c) \ running[p])
      BY SMT DEF TypeOK, Hold, Ask
    <2>4. sdk'[p] # "off" => sdk[p] # "off" \/ "analytics" \in c.allowed
      BY SMT DEF TypeOK, Hold, PostHogEffect
    <2>5. \A s \in Wants(c) : Category(s) \in c.allowed
      BY DEF Wants
    <2> QED BY <1>2, <2>1, <2>2, <2>3, <2>4, <2>5 DEF AgreedTo
  <1> QED BY <1>1, <1>2

LEMMA AgreedStep == TypeOK /\ AgreedTo /\ [Next]_vars => AgreedTo'
  <1> SUFFICES ASSUME TypeOK, AgreedTo, [Next]_vars PROVE AgreedTo'
    OBVIOUS
  <1>1. CASE UNCHANGED vars
    BY <1>1 DEF AgreedTo, vars, choices, page, history
  <1>2. ASSUME NEW p \in Pages, PageStep(p)
        PROVE  AgreedTo'
    <2>1. ASSUME NEW speaks \in BOOLEAN, NEW gpc \in BOOLEAN, OpenPage(p, speaks, gpc)
          PROVE  AgreedTo'
      <3>1. PICK c \in Choices : /\ Hold(p, c) /\ c.allowed \subseteq stored.allowed
                                 /\ stored' \in {stored, c}
        BY <2>1, ChoiceTypes DEF OpenPage, OptOut, TypeOK
      <3>2. running' = running /\ agreed' = agreed
        BY <2>1 DEF OpenPage
      <3>3. c.allowed \subseteq agreed /\ stored.allowed \subseteq agreed
        BY <3>1 DEF AgreedTo
      <3> QED BY <3>1, <3>2, <3>3, HoldAgreed
    <2>2. ASSUME NEW allowed \in SUBSET Categories, Decide(p, allowed)
          PROVE  AgreedTo'
      <3> DEFINE c == Decided(p, allowed)
      <3>1. c \in Choices
        BY ChoiceTypes
      <3>2. c.allowed \subseteq allowed
        BY SMT DEF Decided, TypeOK, Choices
      <3> HIDE DEF c
      <3>3. Hold(p, c) /\ running' = running /\ stored' = c /\ agreed' = agreed \cup allowed
        BY <2>2 DEF Decide, Set, c
      <3> QED BY <3>1, <3>2, <3>3, HoldAgreed
    <2>3. CASE CookiePreferencesButton(p)
      <3> DEFINE c == [memory[p] EXCEPT !.decided = FALSE]
      <3>1. c \in Choices
        BY ChoiceTypes
      <3>2. c.allowed = memory[p].allowed
        BY SMT DEF TypeOK, Choices
      <3> HIDE DEF c
      <3>3. Hold(p, c) /\ running' = running /\ stored' = c /\ agreed' = agreed
        BY <2>3 DEF CookiePreferencesButton, Set, c
      <3> QED BY <3>1, <3>2, <3>3, HoldAgreed DEF AgreedTo
    <2>4. CASE DoNotSellLink(p)
      <3>1. /\ Hold(p, OptOut) /\ running' = running /\ stored' = OptOut /\ agreed' = agreed
            /\ OptOut.allowed = {}
        BY <2>4 DEF DoNotSellLink, Set, OptOut
      <3> QED BY <3>1, HoldAgreed, ChoiceTypes
    <2>5. ASSUME NEW s \in Scripts, ScriptRuns(p, s)
          PROVE  AgreedTo'
      <3>1. UNCHANGED <<stored, memory, sdk, agreed>>
        BY <2>5 DEF ScriptRuns, choices, history
      <3>2. Category(s) \in agreed /\ ("marketing" \in agreed \/ s = "gtag")
        BY <2>5, SMT DEF ScriptRuns, AgreedTo, Category, Scripts
      <3>3. ASSUME NEW q \in Pages
            PROVE  /\ told'[q] \subseteq agreed
                   /\ \A r \in asked'[q] \cup running'[q] : Category(r) \in agreed
        <4>1. told'[q] \subseteq agreed
          BY <2>5, <3>2, SMT DEF ScriptRuns, AgreedTo, TypeOK
        <4>2. asked'[q] \cup running'[q] \subseteq asked[q] \cup running[q] \cup {s}
          BY <2>5, SMT DEF ScriptRuns, TypeOK
        <4> QED BY <4>1, <4>2, <3>2 DEF AgreedTo
      <3> QED BY <3>1, <3>3 DEF AgreedTo
    <2>6. CASE Track(p) \/ Navigate(p)
      <3>1. UNCHANGED <<stored, memory, asked, running, sdk, agreed>>
        BY <2>6 DEF Track, Navigate, choices, history
      <3>2. \A posthog \in {sdk[p] = "on", sdk[p] # "off"} : Hearing(p, posthog) \subseteq agreed
        <4> SUFFICES ASSUME NEW posthog \in {sdk[p] = "on", sdk[p] # "off"}
                     PROVE  Hearing(p, posthog) \subseteq agreed
          OBVIOUS
        <4>1. posthog => sdk[p] # "off"
          OBVIOUS
        <4> QED BY <4>1 DEF Hearing, AgreedTo
      <3>3. "gtag" \in running[p] \/ sdk[p] = "on" => "analytics" \in agreed
        BY SMT DEF AgreedTo, Category
      <3>4. \A q \in Pages : told'[q] \subseteq agreed
        BY <2>6, <3>2, <3>3, SMT DEF Track, Navigate, AgreedTo, TypeOK
      <3> QED BY <3>1, <3>4 DEF AgreedTo
    <2> QED BY <1>2, <2>1, <2>2, <2>3, <2>4, <2>5, <2>6 DEF PageStep
  <1> QED BY <1>1, <1>2 DEF Next

(* No tracker is loaded, initialised or told of anything before the        *)
(* customer has switched its category on, in any number of pages           *)
(* (components/analytics, lib/analytics).                                  *)
THEOREM ConsentComesFirst == Spec => []TrackersNeedConsent
  <1>1. Init => AgreedTo
    BY SMT DEF Init, AgreedTo, Fresh
  <1>2. AgreedTo => TrackersNeedConsent
    BY DEF AgreedTo, TrackersNeedConsent
  <1> QED BY <1>1, <1>2, AgreedStep, TypesAndBlanks, PTL DEF Spec

----------------------------------------------------------------------------
(* A choice that is opted out allows nothing. *)
Closed(c) == c.doNotSell => c.allowed = {}

(* The strengthening of OptOutHolds: the pages that came after the opt-out *)
(* know of it, so that what they write keeps it.                           *)
OptOutInv ==
  /\ Closed(stored)
  /\ \A p \in Pages : Closed(memory[p])
  /\ optedOut /\ ~overwritten =>
       /\ stored.doNotSell
       /\ \A p \in open \ before : memory[p].doNotSell /\ Blank(p)

(* A page that holds a closed choice and is silent stays silent. *)
LEMMA HoldSilent ==
  ASSUME TypeOK, NEW p \in Pages, NEW c \in Choices, Hold(p, c), running' = running,
         Closed(c)
  PROVE  /\ memory'[p] = c
         /\ \A q \in Pages \ {p} : memory'[q] = memory[q] /\ (Blank(q) => Blank(q)')
         /\ \A q \in Pages : Closed(memory[q]) => Closed(memory'[q])
         /\ c.doNotSell /\ Blank(p) => Blank(p)'
  <1>1. memory'[p] = c /\ \A q \in Pages \ {p} : memory'[q] = memory[q]
    BY SMT DEF TypeOK, Hold
  <1>2. \A q \in Pages \ {p} : Blank(q) => Blank(q)'
    BY SMT DEF TypeOK, Hold, Ask, PostHogEffect, Blank
  <1>3. ASSUME c.doNotSell, Blank(p) PROVE Blank(p)'
    <2>1. c.allowed = {} /\ Wants(c) = {}
      BY <1>3 DEF Closed, Wants
    <2>2. asked'[p] = {} /\ running'[p] = {}
      BY <1>3, <2>1, SMT DEF TypeOK, Hold, Ask, Blank
    <2>3. told'[p] = {} /\ sdk'[p] = "off"
      BY <1>3, <2>1, SMT DEF TypeOK, Hold, PostHogEffect, Blank
    <2> QED BY <2>2, <2>3 DEF Blank
  <1>4. \A q \in Pages : Closed(memory[q]) => Closed(memory'[q])
    <2> TAKE q \in Pages
    <2>1. CASE q = p
      BY <1>1, <2>1
    <2>2. CASE q # p
      BY <1>1, <2>2
    <2> QED BY <2>1, <2>2
  <1> QED BY <1>1, <1>2, <1>3, <1>4

(* A page that is open sets a choice that does not take an opt-out back. *)
LEMMA SetKeeps ==
  ASSUME TypeOK, OptOutInv, NEW p \in open, NEW c \in Choices, Set(p, c), Closed(c),
         memory[p].doNotSell => c.doNotSell,
         \/ optedOut' = optedOut /\ before' = before
         \/ c.doNotSell /\ NoteOptOut(open)
  PROVE  OptOutInv'
  <1>1. p \in Pages /\ Hold(p, c) /\ running' = running /\ stored' = c /\ open' = open
    BY DEF TypeOK, Set
  <1>2. Closed(stored') /\ \A q \in Pages : Closed(memory'[q])
    BY <1>1, HoldSilent DEF OptOutInv
  <1>3. ASSUME optedOut', ~overwritten'
        PROVE  /\ stored'.doNotSell
               /\ \A q \in open' \ before' : memory'[q].doNotSell /\ Blank(q)'
    <2>1. ~overwritten /\ (Unaware(p) => c.doNotSell)
      BY <1>3 DEF Set
    <2>2. CASE ~optedOut
      <3>1. c.doNotSell /\ before' = open
        BY <1>3, <2>2 DEF NoteOptOut
      <3> QED BY <1>1, <3>1
    <2>3. CASE optedOut
      <3>1. before' = before
        BY <2>3 DEF NoteOptOut
      <3>2. \A q \in open \ before : memory[q].doNotSell /\ Blank(q)
        BY <2>1, <2>3 DEF OptOutInv
      <3>3. c.doNotSell
        BY <2>1, <3>2 DEF Unaware
      <3>4. ASSUME NEW q \in open \ before PROVE memory'[q].doNotSell /\ Blank(q)'
        <4>1. q \in Pages
          BY DEF TypeOK
        <4>2. CASE q = p
          BY <1>1, <3>2, <3>3, <4>2, HoldSilent
        <4>3. CASE q # p
          BY <1>1, <3>2, <4>1, <4>3, HoldSilent
        <4> QED BY <4>2, <4>3
      <3> QED BY <1>1, <3>1, <3>3, <3>4
    <2> QED BY <2>2, <2>3
  <1> QED BY <1>2, <1>3 DEF OptOutInv, Blank

LEMMA OpenKeeps ==
  ASSUME TypeOK, Untouched, OptOutInv, NEW p \in Pages, NEW speaks \in BOOLEAN,
         NEW gpc \in BOOLEAN, OpenPage(p, speaks, gpc)
  PROVE  OptOutInv'
  <1>1. PICK c \in Choices :
          /\ Hold(p, c) /\ stored' = c
          /\ \/ c = stored /\ UNCHANGED <<optedOut, before>>
             \/ c = OptOut /\ NoteOptOut(open)
    BY ChoiceTypes DEF OpenPage, TypeOK
  <1>2. /\ running' = running /\ open' = open \cup {p} /\ p \notin open
        /\ overwritten' = overwritten /\ open \subseteq Pages
    BY DEF OpenPage, TypeOK
  <1>3. Closed(c) /\ (stored.doNotSell => c.doNotSell)
    BY <1>1, SMT DEF OptOutInv, Closed, OptOut
  <1>4. Closed(stored') /\ \A q \in Pages : Closed(memory'[q])
    BY <1>1, <1>2, <1>3, HoldSilent DEF OptOutInv
  <1>5. Blank(p)
    BY <1>2 DEF Untouched, Blank, Blank
  <1>6. ASSUME optedOut', ~overwritten'
        PROVE  /\ stored'.doNotSell
               /\ \A q \in open' \ before' : memory'[q].doNotSell /\ Blank(q)'
    <2>1. c.doNotSell
      <3>1. CASE optedOut
        BY <1>2, <1>3, <1>6, <3>1 DEF OptOutInv
      <3>2. CASE ~optedOut
        <4>1. c = OptOut
          BY <1>1, <1>6, <3>2, Zenon
        <4>2. OptOut.doNotSell
          BY DEF OptOut
        <4> QED BY <4>1, <4>2
      <3> QED BY <3>1, <3>2
    <2>2. memory'[p].doNotSell /\ Blank(p)'
      BY <1>1, <1>2, <1>3, <1>5, <2>1, HoldSilent
    <2>3. ASSUME NEW q \in open \ before' PROVE memory'[q].doNotSell /\ Blank(q)'
      <3>1. optedOut /\ q \in open \ before
        BY <1>1, <1>6, <2>3 DEF NoteOptOut
      <3>2. memory[q].doNotSell /\ Blank(q)
        BY <1>2, <1>6, <3>1 DEF OptOutInv
      <3>3. q \in Pages \ {p}
        BY <1>2, <3>1
      <3> QED BY <1>1, <1>2, <1>3, <3>2, <3>3, HoldSilent
    <2> QED BY <1>1, <1>2, <2>1, <2>2, <2>3
  <1> QED BY <1>4, <1>6 DEF OptOutInv, Blank

LEMMA OptOutStep == TypeOK /\ Untouched /\ OptOutInv /\ [Next]_vars => OptOutInv'
  <1> SUFFICES ASSUME TypeOK, Untouched, OptOutInv, [Next]_vars PROVE OptOutInv'
    OBVIOUS
  <1>1. CASE UNCHANGED vars
    BY <1>1 DEF OptOutInv, Closed, Blank, vars, choices, page, history
  <1>2. ASSUME NEW p \in Pages, PageStep(p)
        PROVE  OptOutInv'
    <2>1. ASSUME NEW speaks \in BOOLEAN, NEW gpc \in BOOLEAN, OpenPage(p, speaks, gpc)
          PROVE  OptOutInv'
      BY <2>1, OpenKeeps
    <2>2. ASSUME NEW allowed \in SUBSET Categories, Decide(p, allowed)
          PROVE  OptOutInv'
      <3> DEFINE c == Decided(p, allowed)
      <3>1. c \in Choices
        BY ChoiceTypes
      <3>2. c.doNotSell = memory[p].doNotSell /\ Closed(c)
        BY SMT DEF Decided, TypeOK, Choices, Closed
      <3> HIDE DEF c
      <3>3. Set(p, c) /\ p \in open /\ optedOut' = optedOut /\ before' = before
        BY <2>2 DEF Decide, c
      <3> QED BY <3>1, <3>2, <3>3, SetKeeps
    <2>3. CASE CookiePreferencesButton(p)
      <3> DEFINE c == [memory[p] EXCEPT !.decided = FALSE]
      <3>1. c \in Choices
        BY ChoiceTypes
      <3>2. c.doNotSell = memory[p].doNotSell /\ c.allowed = memory[p].allowed
        BY SMT DEF TypeOK, Choices
      <3> HIDE DEF c
      <3>3. Set(p, c) /\ p \in open /\ optedOut' = optedOut /\ before' = before
        BY <2>3 DEF CookiePreferencesButton, c
      <3>4. Closed(c)
        BY <3>2 DEF OptOutInv, Closed
      <3> QED BY <3>1, <3>2, <3>3, <3>4, SetKeeps
    <2>4. CASE DoNotSellLink(p)
      <3>1. /\ Set(p, OptOut) /\ p \in open /\ NoteOptOut(open)
            /\ OptOut.doNotSell /\ Closed(OptOut)
        BY <2>4 DEF DoNotSellLink, OptOut, Closed
      <3> QED BY <3>1, SetKeeps, ChoiceTypes
    <2>5. ASSUME NEW s \in Scripts, ScriptRuns(p, s)
          PROVE  OptOutInv'
      <3>1. UNCHANGED <<stored, memory, open, optedOut, before, overwritten>>
        BY <2>5 DEF ScriptRuns, choices, history
      <3>2. ~Blank(p) /\ \A q \in Pages \ {p} : Blank(q) => Blank(q)'
        BY <2>5, SMT DEF ScriptRuns, Blank, TypeOK
      <3>3. open \subseteq Pages
        BY DEF TypeOK
      <3> QED BY <3>1, <3>2, <3>3 DEF OptOutInv, Closed
    <2>6. CASE Track(p) \/ Navigate(p)
      <3>1. UNCHANGED <<stored, memory, open, optedOut, before, overwritten>>
        BY <2>6 DEF Track, Navigate, choices, history
      <3>2. Blank(p) => \A posthog \in {sdk[p] = "on", sdk[p] # "off"} : Hearing(p, posthog) = {}
        BY DEF Blank, Hearing
      <3>3. \A q \in Pages : Blank(q) => Blank(q)'
        BY <2>6, <3>2, SMT DEF Track, Navigate, Blank, TypeOK
      <3>4. open \subseteq Pages
        BY DEF TypeOK
      <3> QED BY <3>1, <3>3, <3>4 DEF OptOutInv, Closed
    <2> QED BY <1>2, <2>1, <2>2, <2>3, <2>4, <2>5, <2>6 DEF PageStep
  <1> QED BY <1>1, <1>2 DEF Next

(* A page that is loaded after an opt-out loads no tracker and tells none  *)
(* anything, unless an older page has written its choice over the opt-out  *)
(* (cookie-consent.store.ts, gpc-honorer.tsx).                             *)
THEOREM OptOutIsForGood == Spec => []OptOutHolds
  <1>1. Init => OptOutInv
    BY SMT DEF Init, OptOutInv, Closed, Fresh
  <1>2. OptOutInv => OptOutHolds
    BY DEF OptOutInv, OptOutHolds, Closed, Blank
  <1> QED BY <1>1, <1>2, OptOutStep, TypesAndBlanks, PTL DEF Spec

----------------------------------------------------------------------------
(* The newsletter.                                                         *)

CONSTANTS MaxRows, MaxRequests, MaxFailures

VARIABLES submitted, status, expired, mailed, klaviyo, jobs, requests, failures, refused,
          covered, raced

N == INSTANCE Newsletter

(* Rows that have not been created wait for it, and handlers know of rows  *)
(* that have been.                                                         *)
RowsExist ==
  /\ \A r \in N!Rows : r > submitted => status[r] = "PENDING"
  /\ \A j \in jobs : IF N!IsConfirming(j) THEN j.row <= submitted
                     ELSE j.rows \subseteq 1..submitted /\ j.seen <= submitted

RowsInv == N!TypeOK /\ RowsExist

(* Unless they have raced, confirmations and unsubscriptions are not in    *)
(* flight together, and what a handler has read of a row still stands, or  *)
(* the row is newer.                                                       *)
Apart ==
  raced \/ /\ \A j, k \in jobs : N!IsConfirming(j) = N!IsConfirming(k)
           /\ \A j \in jobs :
                /\ j.op = "confirm" => status[j.row] # "UNSUBSCRIBED"
                /\ j.op = "subscribe" => status[j.row] = "CONFIRMED"
                /\ j.op = "unsubscribe" =>
                     \A r \in 1..submitted : \/ r \in j.rows
                                             \/ status[r] = "UNSUBSCRIBED"
                                             \/ r > j.seen /\ status[r] = "PENDING"

(* The strengthening of KlaviyoMirrorsConsent: while handlers are in       *)
(* flight, one of them will tell Klaviyo what it does not know yet.        *)
MirrorInv ==
  \/ refused \/ raced
  \/ /\ klaviyo => N!InStatus("CONFIRMED") # {} \/ \E j \in jobs : j.op = "suppress"
     /\ N!InStatus("CONFIRMED") # {} => klaviyo \/ \E j \in jobs : j.op = "subscribe"
     /\ \A j \in jobs : j.op = "suppress" => N!InStatus("CONFIRMED") = {}
     /\ \A j \in jobs : j.op = "unsubscribe" /\ N!InStatus("CONFIRMED") # {} => j.hadConfirmed

LEMMA KindsOfJobs ==
  ASSUME N!TypeOK, NEW j \in jobs
  PROVE  /\ j \in N!Confirming \cup N!Unsubscribing
         /\ N!IsConfirming(j) => j \in N!Confirming
         /\ ~N!IsConfirming(j) => j \in N!Unsubscribing
         /\ N!IsConfirming(j) <=> j.op \in {"confirm", "subscribe"}
         /\ ~N!IsConfirming(j) <=> j.op \in {"unsubscribe", "suppress"}
  BY DEF N!TypeOK, N!Confirming, N!Unsubscribing, N!IsConfirming

(* Steps that start no handler, or start one that is well made.            *)
LEMMA StartKeepsTypes ==
  ASSUME MaxRows \in Nat, MaxRequests \in Nat,
         RowsInv, NEW j, N!Start(j), j.n = requests + 1, j \in N!Confirming \cup N!Unsubscribing,
         IF N!IsConfirming(j) THEN j.row <= submitted
         ELSE j.rows \subseteq 1..submitted /\ j.seen <= submitted,
         UNCHANGED <<N!consent, klaviyo, failures, refused, covered>>
  PROVE  RowsInv'
  <1>1. N!TypeOK'
    BY DEF RowsInv, N!TypeOK, N!Start, N!consent
  <1>2. RowsExist'
    BY DEF RowsInv, RowsExist, N!Start, N!consent, N!IsConfirming
  <1> QED BY <1>1, <1>2 DEF RowsInv

LEMMA RowsAreInductive ==
  ASSUME MaxRows \in Nat, MaxRequests \in Nat, MaxFailures \in Nat
  PROVE  /\ N!Init => RowsInv
         /\ RowsInv /\ [N!Next]_N!vars => RowsInv'
  <1>1. N!Init => RowsInv
    <2> SUFFICES ASSUME N!Init PROVE RowsInv
      OBVIOUS
    <2>1. klaviyo \in BOOLEAN /\ refused \in BOOLEAN /\ raced \in BOOLEAN
      BY Zenon DEF N!Init
    <2>2. status \in [N!Rows -> N!Statuses] /\ \A r \in N!Rows : status[r] = "PENDING"
      BY DEF N!Init, N!Statuses
    <2> QED BY <2>1, <2>2 DEF N!Init, RowsInv, N!TypeOK, RowsExist
  <1>2. ASSUME RowsInv, N!NewsletterForm
        PROVE  RowsInv'
    <2>1. PICK arrives \in BOOLEAN : N!Subscribe(arrives)
      BY <1>2 DEF N!NewsletterForm
    <2>2. N!TypeOK'
      BY <1>2, <2>1 DEF RowsInv, N!TypeOK, N!Subscribe, N!history
    <2>3. RowsExist'
      BY <1>2, <2>1, KindsOfJobs DEF RowsInv, RowsExist, N!Subscribe, N!TypeOK, N!IsConfirming,
         N!Confirming, N!Unsubscribing, N!Rows
    <2> QED BY <2>2, <2>3 DEF RowsInv
  <1>3. ASSUME RowsInv, NEW r \in N!Rows, N!LinkExpires(r)
        PROVE  RowsInv'
    BY <1>3 DEF RowsInv, N!TypeOK, RowsExist, N!LinkExpires, N!history, N!IsConfirming
  <1>4. ASSUME RowsInv, NEW r \in N!Rows, N!ConfirmRead(r)
        PROVE  RowsInv'
    <2> DEFINE j == [n |-> requests + 1, op |-> "confirm", row |-> r]
    <2>1. requests + 1 \in 1..MaxRequests /\ r <= submitted
      BY <1>4 DEF N!ConfirmRead, N!Start, RowsInv, N!TypeOK, N!Candidates, N!InStatus
    <2>2. j \in N!Confirming /\ j.n = requests + 1 /\ j.row = r /\ N!IsConfirming(j)
      BY <2>1 DEF N!Confirming, N!IsConfirming
    <2>3. N!Start(j) /\ UNCHANGED <<N!consent, klaviyo, failures, refused, covered>>
      BY <1>4 DEF N!ConfirmRead
    <2> HIDE DEF j
    <2> QED BY <1>4, <2>1, <2>2, <2>3, StartKeepsTypes
  <1>5. ASSUME RowsInv, N!UnsubscribeRead
        PROVE  RowsInv'
    <2> DEFINE j == [n |-> requests + 1, op |-> "unsubscribe", rows |-> N!ActiveRows,
                     hadConfirmed |-> N!HadConfirmed(N!ActiveRows), seen |-> submitted]
    <2>1. /\ requests + 1 \in 1..MaxRequests /\ N!ActiveRows \subseteq 1..submitted
          /\ N!ActiveRows \subseteq N!Rows
      BY <1>5 DEF N!UnsubscribeRead, N!Start, RowsInv, N!TypeOK, N!ActiveRows, N!InStatus, N!Rows
    <2>2. /\ N!HadConfirmed(N!ActiveRows) \in BOOLEAN /\ submitted \in 0..MaxRows
          /\ submitted <= submitted
      BY <1>5 DEF N!HadConfirmed, RowsInv, N!TypeOK
    <2>3. /\ j \in N!Unsubscribing /\ j.n = requests + 1 /\ j.rows = N!ActiveRows
          /\ j.seen = submitted /\ ~N!IsConfirming(j)
      BY <2>1, <2>2 DEF N!Unsubscribing, N!IsConfirming
    <2>4. N!Start(j) /\ UNCHANGED <<N!consent, klaviyo, failures, refused, covered>>
      BY <1>5 DEF N!UnsubscribeRead
    <2> HIDE DEF j
    <2> QED BY <1>5, <2>1, <2>2, <2>3, <2>4, StartKeepsTypes
  <1>6. ASSUME RowsInv, NEW j \in jobs, N!ConfirmWrite(j)
        PROVE  RowsInv'
    <2> DEFINE n == [j EXCEPT !.op = "subscribe"]
    <2>1. j \in N!Confirming /\ j.row \in N!Rows /\ j.row <= submitted /\ N!IsConfirming(j)
      BY <1>6, KindsOfJobs DEF N!ConfirmWrite, N!IsConfirming, RowsInv, RowsExist, N!Confirming
    <2>2. n \in N!Confirming /\ n.row = j.row /\ N!IsConfirming(n)
      BY <2>1 DEF N!Confirming, N!IsConfirming
    <2>3. jobs' = (jobs \ {j}) \cup {n}
      BY <1>6 DEF N!ConfirmWrite, N!Continue
    <2> HIDE DEF n
    <2>4. N!TypeOK'
      BY <1>6, <2>1, <2>2, <2>3 DEF RowsInv, N!TypeOK, N!ConfirmWrite, N!history, N!Statuses
    <2>5. RowsExist'
      BY <1>6, <2>1, <2>2, <2>3 DEF RowsInv, N!TypeOK, RowsExist, N!ConfirmWrite, N!IsConfirming,
         N!Rows
    <2> QED BY <2>4, <2>5 DEF RowsInv
  <1>7. ASSUME RowsInv, NEW j \in jobs, N!UnsubscribeWrite(j)
        PROVE  RowsInv'
    <2> DEFINE n == [j EXCEPT !.op = "suppress"]
    <2>1. /\ j \in N!Unsubscribing /\ j.rows \subseteq 1..submitted /\ j.seen <= submitted
          /\ ~N!IsConfirming(j) /\ j.seen \in Nat
      BY <1>7, KindsOfJobs DEF N!UnsubscribeWrite, N!IsConfirming, RowsInv, RowsExist,
         N!Unsubscribing
    <2>2. n \in N!Unsubscribing /\ n.rows = j.rows /\ n.seen = j.seen /\ ~N!IsConfirming(n)
      BY <2>1 DEF N!Unsubscribing, N!IsConfirming
    <2>3. jobs' = (jobs \ {j}) \cup {n} \/ jobs' = jobs \ {j}
      BY <1>7 DEF N!UnsubscribeWrite, N!Continue, N!Finish
    <2> HIDE DEF n
    <2>4. jobs' \subseteq N!Confirming \cup N!Unsubscribing
      BY <1>7, <2>2, <2>3 DEF RowsInv, N!TypeOK
    <2>5. status' \in [N!Rows -> N!Statuses] /\ covered' \subseteq 1..submitted'
      BY <1>7, <2>1 DEF N!UnsubscribeWrite, N!Statuses, RowsInv, N!TypeOK
    <2>6. N!TypeOK'
      BY <1>7, <2>4, <2>5 DEF RowsInv, N!TypeOK, N!UnsubscribeWrite
    <2>7. \A r \in N!Rows : r > submitted' => status'[r] = "PENDING"
      BY <1>7, <2>1 DEF RowsInv, N!TypeOK, RowsExist, N!UnsubscribeWrite, N!Rows
    <2>8. \A k \in jobs' : IF N!IsConfirming(k) THEN k.row <= submitted'
                           ELSE k.rows \subseteq 1..submitted' /\ k.seen <= submitted'
      BY <1>7, <2>1, <2>2, <2>3 DEF RowsInv, RowsExist, N!UnsubscribeWrite
    <2> QED BY <2>6, <2>7, <2>8 DEF RowsInv, RowsExist, N!IsConfirming
  <1>8. ASSUME RowsInv, NEW j \in jobs, N!SubscribeEmail(j) \/ N!UnsubscribeEmail(j) \/ N!HandlerFails(j)
        PROVE  RowsInv'
    <2>1. jobs' = jobs \ {j} /\ UNCHANGED <<N!consent, covered, requests, raced>>
      BY <1>8 DEF N!SubscribeEmail, N!UnsubscribeEmail, N!HandlerFails, N!Finish, N!history
    <2>2. klaviyo' \in BOOLEAN
      BY <1>8, Zenon DEF RowsInv, N!TypeOK, N!SubscribeEmail, N!UnsubscribeEmail, N!HandlerFails
    <2>3. refused' \in BOOLEAN
      BY <1>8 DEF RowsInv, N!TypeOK, N!SubscribeEmail, N!UnsubscribeEmail, N!HandlerFails,
         N!history
    <2>4. failures' \in 0..MaxFailures
      BY <1>8 DEF RowsInv, N!TypeOK, N!SubscribeEmail, N!UnsubscribeEmail, N!HandlerFails
    <2>5. N!TypeOK'
      BY <1>8, <2>1, <2>2, <2>3, <2>4 DEF RowsInv, N!TypeOK, N!consent
    <2>6. RowsExist'
      BY <1>8, <2>1 DEF RowsInv, RowsExist, N!consent, N!IsConfirming
    <2> QED BY <2>5, <2>6 DEF RowsInv
  <1>9. RowsInv /\ UNCHANGED N!vars => RowsInv'
    BY DEF RowsInv, N!TypeOK, RowsExist, N!vars, N!consent, N!history, N!IsConfirming
  <1> QED BY <1>1, <1>2, <1>3, <1>4, <1>5, <1>6, <1>7, <1>8, <1>9 DEF N!Next, N!Handler

(* TypeOK of Newsletter: what unsubscribing covers, and what handlers hold *)
(* while they wait, are rows that have been created                        *)
(* (newsletter.service.ts).                                                *)
THEOREM NewsletterTypes ==
  ASSUME MaxRows \in Nat, MaxRequests \in Nat, MaxFailures \in Nat
  PROVE  N!Spec => []N!TypeOK
  <1>1. RowsInv => N!TypeOK
    BY DEF RowsInv
  <1> QED BY <1>1, RowsAreInductive, PTL DEF N!Spec

LEMMA ApartIsInductive ==
  ASSUME MaxRows \in Nat, MaxRequests \in Nat, MaxFailures \in Nat
  PROVE  /\ N!Init => Apart
         /\ RowsInv /\ Apart /\ [N!Next]_N!vars => Apart'
  <1> USE DEF Apart
  <1>1. N!Init => Apart
    BY DEF N!Init
  <1>2. ASSUME RowsInv, Apart, N!NewsletterForm
        PROVE  Apart'
    <2>1. PICK arrives \in BOOLEAN : N!Subscribe(arrives)
      BY <1>2 DEF N!NewsletterForm
    <2>2. /\ jobs' = jobs /\ status' = status /\ raced' = raced /\ submitted' = submitted + 1
          /\ submitted + 1 \in N!Rows /\ submitted \in Nat
      BY <1>2, <2>1 DEF N!Subscribe, N!history, RowsInv, N!TypeOK, N!Rows
    <2>3. status[submitted + 1] = "PENDING"
      BY <1>2, <2>2 DEF RowsInv, RowsExist
    <2>4. \A j \in jobs : j.op = "unsubscribe" => j.seen <= submitted /\ j.seen \in Nat
      BY <1>2, KindsOfJobs DEF RowsInv, RowsExist, N!IsConfirming, N!Unsubscribing
    <2>5. \A r \in 1..submitted' : r \in 1..submitted \/ r = submitted + 1
      BY <2>2
    <2> QED BY <1>2, <2>2, <2>3, <2>4, <2>5 DEF N!IsConfirming
  <1>3. ASSUME RowsInv, Apart, NEW r \in N!Rows, N!LinkExpires(r)
        PROVE  Apart'
    BY <1>3 DEF N!LinkExpires, N!history, N!IsConfirming
  <1>4. ASSUME RowsInv, Apart, NEW r \in N!Rows, N!ConfirmRead(r)
        PROVE  Apart'
    <2> DEFINE j == [n |-> requests + 1, op |-> "confirm", row |-> r]
    <2>1. j.op = "confirm" /\ j.row = r /\ status[r] = "PENDING" /\ N!IsConfirming(j)
      BY <1>4 DEF N!ConfirmRead, N!Candidates, N!InStatus, N!IsConfirming
    <2>2. /\ jobs' = jobs \cup {j} /\ raced' = (raced \/ \E k \in jobs : N!IsConfirming(k) # N!IsConfirming(j))
          /\ status' = status /\ submitted' = submitted
      BY <1>4 DEF N!ConfirmRead, N!Start, N!consent
    <2> HIDE DEF j
    <2> QED BY <1>4, <2>1, <2>2 DEF N!IsConfirming
  <1>5. ASSUME RowsInv, Apart, N!UnsubscribeRead
        PROVE  Apart'
    <2> DEFINE j == [n |-> requests + 1, op |-> "unsubscribe", rows |-> N!ActiveRows,
                     hadConfirmed |-> N!HadConfirmed(N!ActiveRows), seen |-> submitted]
    <2>1. j.op = "unsubscribe" /\ j.rows = N!ActiveRows /\ ~N!IsConfirming(j)
      BY DEF N!IsConfirming
    <2>2. /\ jobs' = jobs \cup {j} /\ raced' = (raced \/ \E k \in jobs : N!IsConfirming(k) # N!IsConfirming(j))
          /\ status' = status /\ submitted' = submitted
      BY <1>5 DEF N!UnsubscribeRead, N!Start, N!consent
    <2>3. \A r \in 1..submitted : r \in j.rows \/ status[r] = "UNSUBSCRIBED"
      BY <1>5, <2>1 DEF N!ActiveRows, N!InStatus, RowsInv, N!TypeOK, N!Statuses, N!Rows
    <2> HIDE DEF j
    <2> QED BY <1>5, <2>1, <2>2, <2>3 DEF N!IsConfirming
  <1>6. ASSUME RowsInv, Apart, NEW j \in jobs, N!ConfirmWrite(j)
        PROVE  Apart'
    <2> DEFINE n == [j EXCEPT !.op = "subscribe"]
    <2>1. j \in N!Confirming /\ j.row \in N!Rows /\ N!IsConfirming(j)
      BY <1>6, KindsOfJobs DEF N!ConfirmWrite, N!IsConfirming, RowsInv, N!Confirming
    <2>2. n.op = "subscribe" /\ n.row = j.row /\ N!IsConfirming(n)
      BY <2>1 DEF N!Confirming, N!IsConfirming
    <2>3. jobs' = (jobs \ {j}) \cup {n} /\ raced' = raced /\ submitted' = submitted
      BY <1>6 DEF N!ConfirmWrite, N!Continue, N!history
    <2> HIDE DEF n
    <2>4. /\ status'[j.row] = "CONFIRMED"
          /\ \A r \in N!Rows : r # j.row => status'[r] = status[r]
      BY <1>6, <2>1 DEF N!ConfirmWrite, RowsInv, N!TypeOK
    <2>5. ASSUME ~raced, NEW k \in jobs
          PROVE  N!IsConfirming(k) /\ k.row \in N!Rows
      BY <1>6, <2>1, <2>5, KindsOfJobs DEF RowsInv, N!Confirming
    <2> QED BY <1>6, <2>1, <2>2, <2>3, <2>4, <2>5 DEF N!IsConfirming
  <1>7. ASSUME RowsInv, Apart, NEW j \in jobs, N!UnsubscribeWrite(j)
        PROVE  Apart'
    <2> DEFINE n == [j EXCEPT !.op = "suppress"]
    <2>1. j \in N!Unsubscribing /\ ~N!IsConfirming(j)
      BY <1>7, KindsOfJobs DEF N!UnsubscribeWrite, N!IsConfirming, RowsInv
    <2>2. n.op = "suppress" /\ ~N!IsConfirming(n)
      BY <2>1 DEF N!Unsubscribing, N!IsConfirming
    <2>3. /\ jobs' = (jobs \ {j}) \cup {n} \/ jobs' = jobs \ {j}
          /\ raced' = raced /\ submitted' = submitted /\ submitted \in 0..MaxRows
      BY <1>7 DEF N!UnsubscribeWrite, N!Continue, N!Finish, RowsInv, N!TypeOK
    <2> HIDE DEF n
    <2>4. \A r \in 1..submitted : status'[r] = "UNSUBSCRIBED" \/ status'[r] = status[r]
      BY <1>7, <2>3 DEF N!UnsubscribeWrite, N!Rows
    <2> QED BY <1>7, <2>1, <2>2, <2>3, <2>4 DEF N!IsConfirming
  <1>8. ASSUME RowsInv, Apart, NEW j \in jobs, N!SubscribeEmail(j) \/ N!UnsubscribeEmail(j) \/ N!HandlerFails(j)
        PROVE  Apart'
    <2>1. jobs' = jobs \ {j} /\ status' = status /\ submitted' = submitted /\ raced' = raced
      BY <1>8 DEF N!SubscribeEmail, N!UnsubscribeEmail, N!HandlerFails, N!Finish, N!history,
         N!consent
    <2> QED BY <1>8, <2>1 DEF N!IsConfirming
  <1>9. Apart /\ UNCHANGED N!vars => Apart'
    BY DEF N!vars, N!consent, N!history, N!IsConfirming
  <1> QED BY <1>1, <1>2, <1>3, <1>4, <1>5, <1>6, <1>7, <1>8, <1>9 DEF N!Next, N!Handler

(* Of the rows there were when an unsubscription was asked for, pending    *)
(* ones too, none is confirmed later by a link mailed before, unless a     *)
(* confirmation overlapped the unsubscription (confirm and unsubscribe,    *)
(* newsletter.service.ts).                                                 *)
THEOREM UnsubscribedForGood ==
  ASSUME MaxRows \in Nat, MaxRequests \in Nat, MaxFailures \in Nat
  PROVE  N!Spec => []N!UnsubscribedStays
  <1> USE DEF N!UnsubscribedStays
  <1>1. N!Init => N!UnsubscribedStays
    BY DEF N!Init
  <1>2. ASSUME RowsInv, Apart, N!UnsubscribedStays, [N!Next]_N!vars
        PROVE  N!UnsubscribedStays'
    <2>1. ASSUME NEW j \in jobs, N!ConfirmWrite(j)
          PROVE  N!UnsubscribedStays'
      <3>1. j \in N!Confirming /\ j.row \in N!Rows /\ j.op = "confirm"
        BY <1>2, <2>1, KindsOfJobs DEF N!ConfirmWrite, N!IsConfirming, RowsInv, N!Confirming
      <3>2. \A r \in N!Rows : r # j.row => status'[r] = status[r]
        BY <1>2, <2>1 DEF N!ConfirmWrite, RowsInv, N!TypeOK
      <3>3. j.row \in covered => raced
        BY <1>2, <3>1 DEF Apart
      <3>4. covered' = covered /\ raced' = raced /\ covered \subseteq N!Rows
        BY <1>2, <2>1 DEF N!ConfirmWrite, N!history, RowsInv, N!TypeOK, N!Rows
      <3> QED BY <1>2, <3>2, <3>3, <3>4
    <2>2. ASSUME NEW j \in jobs, N!UnsubscribeWrite(j)
          PROVE  N!UnsubscribedStays'
      <3>1. j \in N!Unsubscribing /\ j.op = "unsubscribe" /\ j.seen \in Nat /\ j.seen <= submitted
        BY <1>2, <2>2, KindsOfJobs DEF N!UnsubscribeWrite, N!IsConfirming, RowsInv, RowsExist,
           N!Unsubscribing
      <3>2. /\ covered' = covered \cup 1..j.seen /\ raced' = raced /\ covered \subseteq N!Rows
            /\ 1..j.seen \subseteq 1..submitted
            /\ 1..submitted \subseteq N!Rows
        BY <1>2, <2>2, <3>1 DEF N!UnsubscribeWrite, RowsInv, N!TypeOK, N!Rows
      <3>3. \A r \in N!Rows : status'[r] = IF r \in j.rows THEN "UNSUBSCRIBED" ELSE status[r]
        BY <2>2 DEF N!UnsubscribeWrite
      <3>4. \A r \in 1..j.seen : raced \/ r \in j.rows \/ status[r] = "UNSUBSCRIBED"
        BY <1>2, <3>1, <3>2 DEF Apart
      <3> QED BY <1>2, <3>2, <3>3, <3>4
    <2>3. ASSUME NEW j \in jobs, N!SubscribeEmail(j) \/ N!UnsubscribeEmail(j) \/ N!HandlerFails(j)
          PROVE  N!UnsubscribedStays'
      BY <1>2, <2>3 DEF N!SubscribeEmail, N!UnsubscribeEmail, N!HandlerFails, N!history, N!consent
    <2>4. ASSUME (\E r \in N!Rows : N!LinkExpires(r) \/ N!ConfirmRead(r)) \/ N!NewsletterForm
                   \/ N!UnsubscribeRead \/ UNCHANGED N!vars
          PROVE  N!UnsubscribedStays'
      <3>1. UNCHANGED <<status, covered>>
        BY <2>4 DEF N!LinkExpires, N!ConfirmRead, N!NewsletterForm, N!Subscribe,
           N!UnsubscribeRead, N!consent,
           N!history, N!vars
      <3>2. raced => raced'
        BY <2>4, Zenon DEF N!LinkExpires, N!ConfirmRead, N!NewsletterForm, N!Subscribe,
           N!UnsubscribeRead,
           N!Start, N!history, N!vars
      <3> QED BY <1>2, <3>1, <3>2
    <2> QED BY <1>2, <2>1, <2>2, <2>3, <2>4 DEF N!Next, N!Handler
  <1> QED BY <1>1, <1>2, RowsAreInductive, ApartIsInductive, PTL DEF N!Spec

LEMMA MirrorsIsInductive ==
  ASSUME MaxRows \in Nat, MaxRequests \in Nat, MaxFailures \in Nat
  PROVE  /\ N!Init => MirrorInv
         /\ RowsInv /\ Apart /\ MirrorInv /\ [N!Next]_N!vars => MirrorInv'
  <1> USE DEF MirrorInv
  <1> DEFINE Confirmed == N!InStatus("CONFIRMED")
  <1>1. N!Init => MirrorInv
    BY DEF N!Init, N!InStatus
  <1>2. ASSUME RowsInv, MirrorInv, N!NewsletterForm
        PROVE  MirrorInv'
    <2>1. PICK arrives \in BOOLEAN : N!Subscribe(arrives)
      BY <1>2 DEF N!NewsletterForm
    <2>2. /\ jobs' = jobs /\ status' = status /\ submitted' = submitted + 1
          /\ submitted + 1 \in N!Rows /\ submitted \in Nat
          /\ UNCHANGED <<klaviyo, refused, raced>>
      BY <1>2, <2>1 DEF N!Subscribe, N!history, RowsInv, N!TypeOK, N!Rows
    <2>3. status[submitted + 1] = "PENDING"
      BY <1>2, <2>2 DEF RowsInv, RowsExist
    <2>4. Confirmed' = Confirmed
      BY <2>2, <2>3 DEF N!InStatus
    <2> QED BY <1>2, <2>2, <2>4
  <1>3. ASSUME MirrorInv, (\E r \in N!Rows : N!LinkExpires(r)) \/ UNCHANGED N!vars
        PROVE  MirrorInv'
    BY <1>3 DEF N!LinkExpires, N!history, N!consent, N!InStatus, N!vars
  <1>4. ASSUME MirrorInv, NEW r \in N!Rows, N!ConfirmRead(r)
        PROVE  MirrorInv'
    <2> DEFINE j == [n |-> requests + 1, op |-> "confirm", row |-> r]
    <2>1. j.op = "confirm"
      OBVIOUS
    <2>2. jobs' = jobs \cup {j} /\ UNCHANGED <<N!consent, klaviyo, refused>>
      BY <1>4 DEF N!ConfirmRead, N!Start
    <2>3. raced => raced'
      BY <1>4, Zenon DEF N!ConfirmRead, N!Start
    <2>4. Confirmed' = Confirmed
      BY <2>2 DEF N!InStatus, N!consent
    <2> HIDE DEF j, Confirmed
    <2> QED BY <1>4, <2>1, <2>2, <2>3, <2>4 DEF Confirmed
  <1>5. ASSUME MirrorInv, N!UnsubscribeRead
        PROVE  MirrorInv'
    <2> DEFINE j == [n |-> requests + 1, op |-> "unsubscribe", rows |-> N!ActiveRows,
                     hadConfirmed |-> N!HadConfirmed(N!ActiveRows), seen |-> submitted]
    <2>1. j.op = "unsubscribe" /\ (Confirmed # {} => j.hadConfirmed)
      BY DEF N!ActiveRows, N!HadConfirmed, N!InStatus
    <2>2. jobs' = jobs \cup {j} /\ UNCHANGED <<N!consent, klaviyo, refused>>
      BY <1>5 DEF N!UnsubscribeRead, N!Start
    <2>3. raced => raced'
      BY <1>5, Zenon DEF N!UnsubscribeRead, N!Start
    <2>4. Confirmed' = Confirmed
      BY <2>2 DEF N!InStatus, N!consent
    <2> HIDE DEF j, Confirmed
    <2> QED BY <1>5, <2>1, <2>2, <2>3, <2>4 DEF Confirmed
  <1>6. ASSUME RowsInv, Apart, MirrorInv, NEW j \in jobs, N!ConfirmWrite(j), ~raced
        PROVE  MirrorInv'
    <2> DEFINE n == [j EXCEPT !.op = "subscribe"]
    <2>1. /\ j \in N!Confirming /\ j.row \in 1..submitted /\ j.row \in N!Rows /\ N!IsConfirming(j)
          /\ j.op = "confirm"
      BY <1>6, KindsOfJobs DEF N!ConfirmWrite, N!IsConfirming, RowsInv, RowsExist, N!Confirming,
         N!Rows, N!TypeOK
    <2>2. n.op = "subscribe"
      BY <2>1 DEF N!Confirming
    <2>3. jobs' = (jobs \ {j}) \cup {n} /\ UNCHANGED <<klaviyo, refused, raced>>
      BY <1>6 DEF N!ConfirmWrite, N!Continue, N!history
    <2> HIDE DEF n
    <2>4. Confirmed' # {}
      BY <1>6, <2>1 DEF N!ConfirmWrite, N!InStatus, RowsInv, N!TypeOK
    <2>5. \A k \in jobs : k.op \in {"confirm", "subscribe"}
      BY <1>6, <2>1, KindsOfJobs DEF RowsInv, Apart
    <2> HIDE DEF Confirmed
    <2> QED BY <1>6, <2>1, <2>2, <2>3, <2>4, <2>5 DEF Confirmed
  <1>7. ASSUME RowsInv, Apart, MirrorInv, NEW j \in jobs, N!UnsubscribeWrite(j), ~raced
        PROVE  MirrorInv'
    <2> DEFINE n == [j EXCEPT !.op = "suppress"]
    <2>1. j \in N!Unsubscribing /\ ~N!IsConfirming(j) /\ j.op = "unsubscribe"
      BY <1>7, KindsOfJobs DEF N!UnsubscribeWrite, N!IsConfirming, RowsInv
    <2>2. n.op = "suppress"
      BY <2>1 DEF N!Unsubscribing
    <2>3. /\ IF j.hadConfirmed THEN jobs' = (jobs \ {j}) \cup {n} ELSE jobs' = jobs \ {j}
          /\ UNCHANGED <<klaviyo, refused, raced, submitted>> /\ submitted \in 0..MaxRows
      BY <1>7 DEF N!UnsubscribeWrite, N!Continue, N!Finish, RowsInv, N!TypeOK
    <2> HIDE DEF n
    <2>4. Confirmed' = {}
      <3>1. \A r \in 1..submitted : status'[r] = IF r \in j.rows THEN "UNSUBSCRIBED" ELSE status[r]
        BY <1>7, <2>3 DEF N!UnsubscribeWrite, N!Rows
      <3>2. \A r \in 1..submitted : r \in j.rows \/ status[r] # "CONFIRMED"
        BY <1>7, <2>1 DEF Apart
      <3> QED BY <2>3, <3>1, <3>2 DEF N!InStatus
    <2>5. \A k \in jobs : k.op \in {"unsubscribe", "suppress"}
      BY <1>7, <2>1, KindsOfJobs DEF RowsInv, Apart
    <2> HIDE DEF Confirmed
    <2>6. CASE j.hadConfirmed
      BY <1>7, <2>1, <2>2, <2>3, <2>4, <2>5, <2>6 DEF Confirmed
    <2>7. CASE ~j.hadConfirmed
      BY <1>7, <2>1, <2>3, <2>4, <2>5, <2>7 DEF Confirmed
    <2> QED BY <2>6, <2>7
  <1>8. ASSUME RowsInv, Apart, MirrorInv, NEW j \in jobs, N!SubscribeEmail(j), ~raced
        PROVE  MirrorInv'
    <2>1. j.op = "subscribe" /\ jobs' = jobs \ {j} /\ UNCHANGED <<N!consent, refused, raced>>
      BY <1>8 DEF N!SubscribeEmail, N!Finish, N!history
    <2>2. klaviyo'
      BY <1>8, Zenon DEF N!SubscribeEmail
    <2>3. j.row \in 1..submitted /\ status[j.row] = "CONFIRMED"
      BY <1>8, <2>1, KindsOfJobs DEF N!IsConfirming, RowsInv, RowsExist, N!Confirming, N!Rows,
         N!TypeOK, Apart
    <2>4. Confirmed' = Confirmed /\ Confirmed # {}
      BY <2>1, <2>3 DEF N!InStatus, N!consent
    <2> HIDE DEF Confirmed
    <2> QED BY <1>8, <2>1, <2>2, <2>4 DEF Confirmed
  <1>9. ASSUME MirrorInv, NEW j \in jobs, N!UnsubscribeEmail(j)
        PROVE  MirrorInv'
    <2>1. j.op = "suppress" /\ jobs' = jobs \ {j} /\ UNCHANGED <<N!consent, refused, raced>>
      BY <1>9 DEF N!UnsubscribeEmail, N!Finish, N!history
    <2>2. ~klaviyo'
      BY <1>9, Zenon DEF N!UnsubscribeEmail
    <2>3. Confirmed' = Confirmed
      BY <2>1 DEF N!InStatus, N!consent
    <2> HIDE DEF Confirmed
    <2> QED BY <1>9, <2>1, <2>2, <2>3 DEF Confirmed
  <1>10. ASSUME MirrorInv, NEW j \in jobs, N!HandlerFails(j)
         PROVE  MirrorInv'
    <2>1. jobs' = jobs \ {j} /\ UNCHANGED <<N!consent, klaviyo, raced>>
      BY <1>10 DEF N!HandlerFails, N!Finish
    <2>2. (refused => refused') /\ (j.op \in {"subscribe", "suppress"} => refused')
      BY <1>10, Zenon DEF N!HandlerFails
    <2>3. Confirmed' = Confirmed
      BY <2>1 DEF N!InStatus, N!consent
    <2> HIDE DEF Confirmed
    <2> QED BY <1>10, <2>1, <2>2, <2>3 DEF Confirmed
  <1>11. ASSUME raced, NEW j \in jobs, N!Handler(j)
         PROVE  MirrorInv'
    BY <1>11 DEF N!Handler, N!ConfirmWrite, N!SubscribeEmail, N!UnsubscribeWrite,
       N!UnsubscribeEmail, N!history
  <1> QED BY <1>1, <1>2, <1>3, <1>4, <1>5, <1>6, <1>7, <1>8, <1>9, <1>10, <1>11 DEF N!Next,
     N!Handler

(* Once nothing is in flight, the address is on Klaviyo's list exactly when *)
(* one of its rows is confirmed, unless Klaviyo has missed a call or a      *)
(* confirmation and an unsubscription have overlapped (subscribeEmail and   *)
(* unsubscribeEmail, called after the rows are written).                    *)
THEOREM KlaviyoIsInStep ==
  ASSUME MaxRows \in Nat, MaxRequests \in Nat, MaxFailures \in Nat
  PROVE  N!Spec => []N!KlaviyoMirrorsConsent
  <1>1. MirrorInv => N!KlaviyoMirrorsConsent
    BY DEF MirrorInv, N!KlaviyoMirrorsConsent
  <1> QED BY <1>1, RowsAreInductive, ApartIsInductive, MirrorsIsInductive, PTL DEF N!Spec
=============================================================================
