------------------------------- MODULE Parser -------------------------------
(***************************************************************************)
(* The walk over the search results of backend/parser.js, in the mode that *)
(* collects links: day after day backwards, page after page, with its      *)
(* checkpoint in parser_state.json, its answers to failing searches and    *)
(* its restarts, by the supervisor or by the operator who stopped it.      *)
(*                                                                         *)
(* Page 1 of a day is searched in the form of the site: category 3.1 and   *)
(* the dates, "find", which clears the two filters above the listing,      *)
(* then those two, then a look at what the page shows.  Later pages are    *)
(* POST requests with the body captured when the session was set up.       *)
(* Whether there is a next page is read from the listing in the browser.   *)
(*                                                                         *)
(* Setting up a session is one step.  Everything that can go wrong counts  *)
(* against MaxFaults.  The verdicts of the saved acts are module           *)
(* CaseVerdicts, and what a change of address does is left out.            *)
(***************************************************************************)
EXTENDS Naturals, FiniteSets, Sequences

CONSTANTS
  Pages,        \* for each day, newest first: pages of its listing, 0 = empty
  NoFile,
  MaxPages,     \* RAS_MAX_PAGES
  Attempts,     \* SEARCH_PAGE_MAX_ATTEMPTS
  MaxRounds,    \* MAX_SEARCH_PAGE_DATA_ROUNDS
  GateLimit,    \* META_ANTIFRAUD_GATE_RECOVER_AFTER
  FlapLimit,    \* PROXY_FLAP_ROTATE_AFTER
  MaxRecycles,  \* MAX_WINDOW_RECYCLES_AFTER_DUP_IP
  EmptyLimit,   \* RAS_EMPTY_WINDOW_STREAK_LIMIT, 0 = off
  MaxFaults,    \* bound: faults in a behaviour
  MaxCrashes    \* bound: kills of the process in a behaviour

Day == 1 .. Len(Pages)

ASSUME WalkAssumption ==
  /\ Pages \in Seq(Nat) /\ Len(Pages) > 0 /\ NoFile \notin [day : Nat, last : Nat]
  /\ \A n \in {MaxPages, Attempts, MaxRounds, GateLimit, FlapLimit} :
       n \in Nat \ {0}
  /\ {MaxRecycles, EmptyLimit, MaxFaults, MaxCrashes} \subseteq Nat

Filters == {"supply", "rak", "status"}

VARIABLES
  recycling,  \* RECYCLE_BROWSER_AFTER_BANNED_L1
  pc, day,
  page,       \* _currentWalkPageNum
  attempt, round, gate, flap, escalated,  \* of the page being fetched
  recycles,   \* dupRecycleAttempts
  dead,       \* the walk holds the page of a browser that was closed
  items,      \* stats.items > 0
  streak,     \* emptyStreak
  on,         \* filters set on the page of the site
  dom,        \* what the browser shows: "listing" or "form"
  template,   \* filters in bodyTemplate
  listing,    \* filters of the listing in data
  saved,      \* pages whose acts are in Postgres
  file,       \* parser_state.json
  faults, crashes,
  excused,    \* history: days with a failed UI-recovery or an answer without
              \* a result
  resumed     \* history: days whose walk did not start on page 1

tries   == <<attempt, round, gate, flap, escalated>>
browser == <<dead, on, dom>>
history == <<excused, resumed>>
bounds  == <<recycling, faults, crashes>>
vars == <<bounds, pc, day, page, tries, recycles, items, streak, browser,
          template, listing, saved, file, history>>

Searching == {"supply", "find", "rak", "status", "verify", "post"}
Busy == Searching \cup {"escalate", "recycle", "recover", "save", "mark",
                        "over", "end"}

\* A position of parser_state.json: page last of the day is done.
Checkpoint(d, last) == [day |-> d, last |-> last]

TypeOK ==
  /\ recycling \in BOOLEAN /\ pc \in Busy \cup {"stopped", "down", "done", "quit"}
  /\ day \in Day /\ page \in 1 .. MaxPages + 1
  /\ attempt \in 1 .. Attempts /\ round \in 1 .. MaxRounds + 1
  /\ gate \in 0 .. GateLimit - 1 /\ flap \in 0 .. FlapLimit - 1
  /\ recycles \in 0 .. MaxRecycles
  /\ {escalated, dead, items} \subseteq BOOLEAN /\ streak \in 0 .. Len(Pages)
  /\ on \subseteq Filters /\ dom \in {"listing", "form"}
  /\ template \subseteq Filters /\ listing \subseteq Filters
  /\ saved \subseteq Day \X (1 .. MaxPages)
  /\ file \in {Checkpoint(d, n) : d \in Day, n \in 0 .. MaxPages} \cup {NoFile}
  /\ faults \in 0 .. MaxFaults /\ crashes \in 0 .. MaxCrashes
  /\ excused \subseteq Day /\ resumed \subseteq Day
  \* no two answers of one page can both be the one being counted
  /\ gate = 0 \/ flap = 0

Fault   == faults < MaxFaults /\ faults' = faults + 1 /\ UNCHANGED <<recycling, crashes>>
NoFault == UNCHANGED bounds

FirstTry == /\ attempt' = 1 /\ round' = 1 /\ gate' = 0 /\ flap' = 0
            /\ escalated' = FALSE

Fetch(p) == pc' = IF p = 1 THEN "supply" ELSE "post"

\* The filters in the POST request captured by _setupSearchSession: an empty
\* listing has no filters above it.
SetupFilters(d) == IF Pages[d] = 0 THEN {"supply"} ELSE Filters

BodyTemplate(d) == template' = SetupFilters(d)

NewBrowser(d) == /\ dead' = FALSE /\ dom' = "listing"
                 /\ on' = SetupFilters(d) /\ BodyTemplate(d)

\* Everything the process keeps in memory goes with it.
Exits(to) == /\ pc' = to /\ page' = 1 /\ FirstTry
             /\ recycles' = 0 /\ items' = FALSE /\ streak' = 0
             /\ dead' = FALSE /\ on' = {} /\ dom' = "form"
             /\ template' = {} /\ listing' = {}
             /\ UNCHANGED <<day, saved, file, history>>

\* An exit code the supervisor answers with a restart, unless ten of them
\* come in five minutes.
Down == Exits("down")

Init == /\ recycling \in BOOLEAN /\ faults = 0 /\ crashes = 0
        /\ pc = "stopped" /\ day = 1 /\ page = 1
        /\ attempt = 1 /\ round = 1 /\ gate = 0 /\ flap = 0
        /\ escalated = FALSE /\ recycles = 0 /\ items = FALSE /\ streak = 0
        /\ dead = FALSE /\ on = {} /\ dom = "form" /\ template = {}
        /\ listing = {} /\ saved = {} /\ file = NoFile
        /\ excused = {} /\ resumed = {}

-----------------------------------------------------------------------------
(* Start by the operator, and restart by the supervisor: the first window  *)
(* starts behind the page the checkpoint names.                            *)

\* _promptSetup without a checkpoint: the first day of the range asked for.
FirstWindow == Checkpoint(1, 0)

Resume == IF file = NoFile THEN FirstWindow ELSE file

\* The operator does not want to go on where the last run stopped.
Declines ==
  /\ pc = "stopped" /\ file # NoFile
  /\ file' = NoFile /\ NoFault
  /\ UNCHANGED <<pc, day, page, tries, recycles, items, streak, browser,
                 template, listing, saved, history>>

Boot ==
  /\ pc \in {"stopped", "down"}
  /\ day' = Resume.day /\ page' = Resume.last + 1
  /\ file' = Resume
  /\ NewBrowser(Resume.day)
  /\ IF Resume.last < MaxPages THEN Fetch(page') ELSE pc' = "over"
  /\ resumed' = IF Resume.last > 0 THEN resumed \cup {day'} ELSE resumed
  /\ NoFault
  /\ UNCHANGED <<tries, recycles, items, streak, listing, saved, excused>>

\* No session: the process throws to be restarted.  A session whose request
\* body cannot be parsed, five times over: no window is walked, and the exit
\* code is that of success, to which nobody answers.
BootFails == pc \in {"stopped", "down"} /\ Fault /\ (Down \/ Exits("quit"))

Killed == /\ pc \in Busy /\ crashes < MaxCrashes /\ crashes' = crashes + 1
          /\ UNCHANGED <<recycling, faults>>

\* Among others the watchdog that sees no progress.
Crash == Killed /\ Down

\* Ctrl+C, which the supervisor leaves at that; the handler writes the
\* position once more.
Interrupt == Killed /\ Exits("stopped")

-----------------------------------------------------------------------------
(* Page 1: _uiRunSearchFromForm.                                           *)

walk == <<day, page, tries, recycles, items, streak, template, saved, file,
          history>>

SupplyShown == "supply" \in on

Supply ==
  /\ pc = "supply" /\ ~dead
  /\ on' = on \cup {"supply"}
  /\ pc' = "find" /\ NoFault
  /\ UNCHANGED <<walk, dead, dom, listing>>

\* "Find" clears the filters above the listing.
Clicked == on \ {"rak", "status"}

\* An empty listing is taken as it is.
Find ==
  /\ pc = "find"
  /\ on' = Clicked /\ dom' = "listing"
  /\ listing' = on'
  /\ pc' = IF Pages[day] = 0 THEN "over" ELSE "rak"
  /\ NoFault /\ UNCHANGED <<walk, dead>>

Apply(here, filter, next) ==
  /\ pc = here
  /\ on' = on \cup {filter} /\ listing' = on'
  /\ pc' = next /\ NoFault
  /\ UNCHANGED <<walk, dead, dom>>

_applyRakDocumentTypeFilterUi == Apply("rak", "rak", "status")
_applyStatusFilterUi == Apply("status", "status", "verify")

\* A mistake: a category the page no longer shows is set again without a new
\* listing, as for the other two filters.
VerifyKeepsListing ==
  /\ pc = "verify"
  /\ on' = Filters /\ listing' = listing
  /\ pc' = "save" /\ NoFault
  /\ UNCHANGED <<walk, dead, dom>>

\* What the page no longer shows is set again; only for the category the
\* answer to that replaces the listing at hand.
_verifyListingFiltersOrRepair ==
  /\ pc = "verify"
  /\ on' = Filters
  /\ listing' = IF SupplyShown THEN listing ELSE Filters
  /\ pc' = "save" /\ NoFault
  /\ UNCHANGED <<walk, dead, dom>>

\* The site forgets a filter while the form is being worked.
FilterDropped ==
  /\ pc \in {"find", "rak", "status", "verify"} /\ Fault
  /\ \E f \in on : on' = on \ {f}
  /\ UNCHANGED <<walk, pc, dead, dom, listing>>

-----------------------------------------------------------------------------
(* Later pages: _uiClickPagerNext.                                         *)

Post ==
  /\ pc = "post" /\ ~dead
  /\ IF page =< Pages[day] THEN pc' = "save" /\ listing' = template
                           ELSE pc' = "over" /\ UNCHANGED listing
  /\ NoFault /\ UNCHANGED <<walk, browser>>

\* The site answers without a result: taken for the end of the window.
Refused ==
  /\ pc \in {"find", "post"} /\ ~dead /\ Fault
  /\ pc' = "over"
  /\ excused' = excused \cup {day}
  /\ UNCHANGED <<day, page, tries, recycles, items, streak, browser,
                 template, listing, saved, file, resumed>>

-----------------------------------------------------------------------------
(* A fetch that fails: the attempts and rounds of _walkPagesForBody.       *)

Cause == CASE dead           -> {"other"}
           [] pc = "find"    -> {"gate", "flap", "ban", "other"}
           [] pc = "post"    -> {"gate", "flap", "ban", "slip", "other"}
           [] OTHER          -> {"other"}

Escalates(cause) == \/ cause = "ban"
                    \/ cause = "gate" /\ gate + 1 >= GateLimit
                    \/ cause = "flap" /\ flap + 1 >= FlapLimit

Counted(streakOf, cause, kind) ==
  IF cause = kind /\ ~Escalates(cause) THEN streakOf + 1 ELSE 0

AttemptFails(cause) ==
  /\ attempt < Attempts
  /\ attempt' = attempt + 1 /\ round' = round
  /\ gate' = Counted(gate, cause, "gate")
  /\ flap' = Counted(flap, cause, "flap")
  /\ escalated' = (escalated \/ Escalates(cause))
  /\ IF Escalates(cause) THEN pc' = "escalate"
     ELSE IF cause \in {"gate", "slip"} THEN pc' = "recover"
     ELSE Fetch(page)

\* A mistake: a round is not counted.
RoundUncounted == round

NextRound == round + 1

\* A round without any escalation forces one.
RoundFails ==
  /\ attempt = Attempts
  /\ round' = NextRound /\ attempt' = 1
  /\ gate' = 0 /\ flap' = 0 /\ escalated' = FALSE
  /\ pc' = IF escalated THEN "recover" ELSE "escalate"

FetchFails ==
  /\ pc \in Searching
  /\ IF dead THEN NoFault ELSE Fault
  /\ \E cause \in Cause : AttemptFails(cause) \/ RoundFails
  /\ UNCHANGED <<day, page, recycles, items, streak, browser, template,
                 listing, saved, file, history>>

\* _recoverFrom: in the window loop the browser is recycled after every
\* change of equipment, or only after an address that did not change.  When
\* nothing was changed an attempt goes on without a reload; a round does not.
_recoverFrom ==
  /\ pc = "escalate"
  /\ \/ ~recycling /\ pc' = "recover" /\ NoFault
     \/ recycling /\ pc' = "recycle" /\ NoFault
     \/ ~recycling /\ pc' = "recycle" /\ Fault
     \/ Fault /\ IF attempt > 1 THEN Fetch(page) ELSE pc' = "recover"
  /\ UNCHANGED <<walk, browser, listing>>

\* A mistake: after a recycle the window goes on behind the page it failed on.
RecycleSkips ==
  /\ pc = "recycle" /\ NoFault
  /\ IF recycles = MaxRecycles \/ page = MaxPages THEN Down
     ELSE /\ recycles' = recycles + 1
          /\ NewBrowser(day) /\ FirstTry /\ items' = FALSE
          /\ page' = page + 1 /\ pc' = "post"
          /\ resumed' = resumed \cup {day}
          /\ UNCHANGED <<day, streak, listing, saved, file, excused>>

\* RecycleWindowError: the window goes on, on the page it failed on, with
\* new counters, a new template and empty statistics.
RecycleWindow ==
  /\ pc = "recycle" /\ NoFault
  /\ IF recycles = MaxRecycles THEN Down
     ELSE /\ recycles' = recycles + 1
          /\ NewBrowser(day) /\ FirstTry /\ items' = FALSE
          /\ Fetch(page)
          /\ resumed' = IF page > 1 THEN resumed \cup {day} ELSE resumed
          /\ UNCHANGED <<day, page, streak, listing, saved, file, excused>>

RecycleFails == pc = "recycle" /\ Fault /\ Down

-----------------------------------------------------------------------------
(* _recoverListingUiAfterFailedRound: reload and, behind page 1, search    *)
(* again so that the browser shows the listing.                            *)

\* The limit of rounds is looked at before the next one.
Recovered(filters, shown, closed, without) ==
  IF round > MaxRounds THEN Down
  ELSE /\ Fetch(page)
       /\ on' = filters /\ dom' = shown /\ dead' = closed
       /\ excused' = excused \cup without
       /\ UNCHANGED <<day, page, tries, recycles, items, streak, template,
                      listing, saved, file, resumed>>

ListingRecovered ==
  /\ pc = "recover" /\ ~dead /\ NoFault
  /\ IF page = 1 THEN Recovered({"supply"}, "form", FALSE, {})
                  ELSE Recovered(Filters, "listing", FALSE, {})

\* It is not an error: the walk goes on over whatever the browser shows.
ListingNotRecovered ==
  /\ pc = "recover"
  /\ IF dead THEN NoFault ELSE Fault
  /\ Recovered({}, "form", dead, IF dead \/ page = 1 THEN {} ELSE {day})

\* The reload escalates by itself and recycles the browser, and the error
\* that says so is swallowed: the walk keeps the page that was closed.
RecycledUnderneath ==
  /\ pc = "recover" /\ ~dead /\ Fault
  /\ Recovered({}, "form", TRUE, {})

-----------------------------------------------------------------------------
(* A page with acts: save, checkpoint, and whether there is another page.  *)

Save ==
  /\ pc = "save"
  /\ saved' = saved \cup {<<day, page>>}
  /\ pc' = "mark" /\ NoFault
  /\ UNCHANGED <<day, page, tries, recycles, items, streak, browser,
                 template, listing, file, history>>

SaveFails == pc = "save" /\ Fault /\ Down

_pagerNextIsVisible == ~dead /\ dom = "listing" /\ Pages[day] > 1

Mark ==
  /\ pc = "mark"
  /\ file' = Checkpoint(day, page)
  /\ items' = TRUE /\ FirstTry
  /\ IF page < MaxPages /\ _pagerNextIsVisible
     THEN page' = page + 1 /\ pc' = "post"
     ELSE UNCHANGED page /\ pc' = "over"
  /\ NoFault
  /\ UNCHANGED <<day, recycles, streak, browser, template, listing, saved,
                 history>>

-----------------------------------------------------------------------------
(* The end of a window.                                                    *)

\* A mistake: only days counted as cycles reset nothing.
StreakKept == IF items THEN streak ELSE streak + 1

Streak == IF items THEN 0 ELSE streak + 1

Stops == \/ ~items /\ EmptyLimit > 0 /\ Streak >= EmptyLimit
         \/ day = Len(Pages)

\* A mistake: the checkpoint keeps the page of the day before.
WindowOverKeepsPage ==
  /\ pc = "over" /\ NoFault
  /\ streak' = Streak
  /\ items' = FALSE /\ recycles' = 0 /\ page' = 1 /\ FirstTry
  /\ IF Stops
     THEN file' = NoFile /\ pc' = "end" /\ UNCHANGED day
     ELSE /\ day' = day + 1
          /\ file' = Checkpoint(day + 1, IF file = NoFile THEN 0 ELSE file.last)
          /\ Fetch(1)
  /\ UNCHANGED <<browser, template, listing, saved, history>>

WindowOver ==
  /\ pc = "over" /\ NoFault
  /\ streak' = Streak
  /\ items' = FALSE /\ recycles' = 0 /\ page' = 1 /\ FirstTry
  /\ IF Stops
     THEN file' = NoFile /\ pc' = "end" /\ UNCHANGED day
     ELSE /\ day' = day + 1 /\ file' = Checkpoint(day + 1, 0)
          /\ Fetch(1)
  /\ UNCHANGED <<browser, template, listing, saved, history>>

FinalSave == /\ pc = "end" /\ pc' = "done" /\ NoFault
             /\ UNCHANGED <<walk, browser, listing>>

FinalSaveFails == pc = "end" /\ Fault /\ Down

Progress ==
  \/ Boot \/ Supply \/ Find \/ _applyRakDocumentTypeFilterUi
  \/ _applyStatusFilterUi \/ _verifyListingFiltersOrRepair \/ Post
  \/ (dead /\ FetchFails) \/ _recoverFrom \/ RecycleWindow
  \/ ListingRecovered \/ (dead /\ ListingNotRecovered)
  \/ Save \/ Mark \/ WindowOver \/ FinalSave

Trouble ==
  \/ Declines \/ BootFails \/ Crash \/ Interrupt \/ FilterDropped \/ Refused \/ FetchFails
  \/ RecycleFails \/ ListingNotRecovered \/ RecycledUnderneath
  \/ SaveFails \/ FinalSaveFails

Done == pc \in {"done", "quit"} /\ UNCHANGED vars

Next == Progress \/ Trouble \/ Done

Spec == Init /\ [][Next]_vars
FairSpec == Spec /\ WF_vars(Progress)

-----------------------------------------------------------------------------
\* The checkpoint only names pages whose acts are in Postgres: a restart
\* skips nothing that was not saved.
CheckpointSaved ==
  file # NoFile => \A p \in 1 .. file.last : <<file.day, p>> \in saved

LeftBehind(d) == \/ file # NoFile /\ d < file.day
                 \/ pc \in {"end", "done"} /\ d =< day

\* A day that is left behind was read to its last page, or to RAS_MAX_PAGES,
\* unless a UI-recovery failed in it or the site answered without a result.
LeftComplete ==
  \A d \in Day \ excused : LeftBehind(d) =>
    \A p \in 1 .. MaxPages : p =< Pages[d] => <<d, p>> \in saved

\* Page 1 is only saved from a listing of category 3.1, whatever the site
\* forgot meanwhile: the parser once collected every category.
PageOneInCategory == pc = "save" /\ page = 1 => "supply" \in listing

\* The automatic stop means what it says: EmptyLimit days in a row had no
\* acts, unless one of them was resumed behind its page 1 or refused.
EmptyStopHonest ==
  pc = "end" /\ day < Len(Pages) =>
    \A d \in Day : d =< day /\ d > day - EmptyLimit
      => Pages[d] = 0 \/ d \in resumed \cup excused

-----------------------------------------------------------------------------
(* Why these hold: the parts of the inductive invariant.                   *)

Form == {"supply", "find", "rak", "status", "verify"}

\* Where the walk is: the checkpoint is of its day, and all pages before the
\* one at hand are saved.
PositionInv ==
  /\ pc \in Busy \ {"end"} => file # NoFile /\ file.day = day
  /\ \A p \in 1 .. page - 1 : <<day, p>> \in saved
  /\ pc = "mark" => <<day, page>> \in saved
  /\ page > MaxPages => pc = "over"
  /\ pc = "post" => page > 1
  /\ pc \in Form => page = 1
  /\ CheckpointSaved

\* A round past the limit ends in the recovery after it.
TriesInv == round > MaxRounds => attempt = 1 /\ pc \in {"escalate", "recycle", "recover"}

\* Pages come from a living browser, which shows the listing unless a recovery
\* failed; what its page still shows of the category, the listing was asked with.
BrowserInv ==
  /\ pc \in (Form \ {"supply"}) \cup {"save", "mark"} => ~dead
  /\ page > 1 => dead \/ dom = "listing" \/ day \in excused
  /\ pc \in {"rak", "status", "verify", "save", "mark"} =>
       dom = "listing" \/ day \in excused
  /\ pc \in {"rak", "status", "verify"} /\ SupplyShown => "supply" \in listing
  /\ PageOneInCategory

DayRead(d) == \A p \in 1 .. MaxPages : p =< Pages[d] => <<d, p>> \in saved

\* A day that is over was read, and so were those before it.
ReadInv ==
  /\ pc = "over" => day \in excused \/ DayRead(day)
  /\ LeftComplete

NoActs(d) == Pages[d] = 0 \/ d \in resumed \cup excused

\* The streak counts days without acts, the one at hand included at the end.
StreakInv ==
  /\ page > 1 => items \/ day \in resumed
  /\ pc = "over" => items \/ NoActs(day)
  /\ pc \in {"stopped", "down"} => streak = 0
  /\ pc \notin {"end", "done"} =>
       streak < day /\ \A d \in Day : d < day /\ d >= day - streak => NoActs(d)
  /\ EmptyStopHonest

WalkInv == TypeOK /\ PositionInv /\ TriesInv /\ BrowserInv /\ ReadInv /\ StreakInv

-----------------------------------------------------------------------------
\* With finitely many faults the parser gets through all days, if whoever
\* interrupts it starts it again, or quits for want of a body template.
ParserEnds == <>(pc \in {"done", "quit"})

\* The parser exits with success only behind its last day or its early stop:
\* anything else is to be restarted, say the comments at the checks of the
\* session and in the catch of main.
SuccessIsWhole ==
  pc \in {"done", "quit"} =>
    day = Len(Pages) \/ (EmptyLimit > 0 /\ streak >= EmptyLimit)

\* Pages 2 and on have the filters of page 1: the template is that of the
\* window, says the comment at _uiRunSearchFromForm.
PagesFiltered == pc = "save" /\ page > 1 => listing = Filters
=============================================================================
