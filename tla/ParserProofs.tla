---------------------------- MODULE ParserProofs ----------------------------
(***************************************************************************)
(* Proofs about the parser, for any listings, limits and numbers of faults *)
(* and kills: its walk over days and pages (Parser), and for any acts of a *)
(* case, verdicts and restarts what it writes about the case               *)
(* (CaseVerdicts).                                                         *)
(***************************************************************************)
EXTENDS Parser, CaseVerdicts, FiniteSetTheorems, WellFoundedInduction, TLAPS

-----------------------------------------------------------------------------
(* Facts about the constants and the types. *)

LEMMA Constants ==
  /\ Len(Pages) \in Nat \ {0} /\ \A d \in Day : Pages[d] \in Nat
  /\ MaxPages \in Nat \ {0} /\ Attempts \in Nat \ {0}
  /\ MaxRounds \in Nat \ {0}
  /\ GateLimit \in Nat \ {0} /\ FlapLimit \in Nat \ {0}
  /\ MaxRecycles \in Nat /\ EmptyLimit \in Nat
  /\ MaxFaults \in Nat /\ MaxCrashes \in Nat
BY WalkAssumption DEF Day

LEMMA CheckpointFields ==
  ASSUME NEW d \in Day, NEW n \in 0 .. MaxPages
  PROVE  /\ Checkpoint(d, n) # NoFile
         /\ Checkpoint(d, n).day = d /\ Checkpoint(d, n).last = n
<1>1. d \in Nat /\ n \in Nat
  BY Constants DEF Day
<1>2. QED
  BY <1>1, WalkAssumption DEF Checkpoint

LEMMA FileType ==
  ASSUME TypeOK, file # NoFile
  PROVE  file.day \in Day /\ file.last \in 0 .. MaxPages
BY DEF TypeOK, Checkpoint

\* Where a start goes on: behind the checkpoint, or at the first day.
LEMMA ResumeType ==
  ASSUME TypeOK
  PROVE  /\ Resume # NoFile /\ Resume.day \in Day /\ Resume.last \in 0 .. MaxPages
         /\ Resume \in {Checkpoint(d, n) : d \in Day, n \in 0 .. MaxPages}
         /\ file = NoFile => Resume.day = 1 /\ Resume.last = 0
         /\ file # NoFile => Resume = file
<1>1. CASE file = NoFile
  <2>1. 1 \in Day /\ 0 \in 0 .. MaxPages
    BY Constants DEF Day
  <2>2. Resume = Checkpoint(1, 0)
    BY <1>1 DEF Resume, FirstWindow
  <2>3. QED
    BY <1>1, <2>1, <2>2, CheckpointFields
<1>2. CASE file # NoFile
  BY <1>2, FileType DEF Resume, TypeOK
<1>3. QED
  BY <1>1, <1>2

\* The types in four parts: the provers take numbers, Boolean values, sets
\* and the checkpoint one at a time.
NumberTypes ==
  /\ day \in Day /\ page \in 1 .. MaxPages + 1
  /\ attempt \in 1 .. Attempts /\ round \in 1 .. MaxRounds + 1
  /\ gate \in 0 .. GateLimit - 1 /\ flap \in 0 .. FlapLimit - 1
  /\ gate = 0 \/ flap = 0
  /\ recycles \in 0 .. MaxRecycles /\ streak \in 0 .. Len(Pages)
  /\ faults \in 0 .. MaxFaults /\ crashes \in 0 .. MaxCrashes

FlagTypes ==
  /\ recycling \in BOOLEAN /\ escalated \in BOOLEAN
  /\ dead \in BOOLEAN /\ items \in BOOLEAN

SetTypes ==
  /\ pc \in Busy \cup {"stopped", "down", "done", "quit"} /\ dom \in {"listing", "form"}
  /\ on \subseteq Filters /\ template \subseteq Filters /\ listing \subseteq Filters
  /\ saved \subseteq Day \X (1 .. MaxPages)
  /\ excused \subseteq Day /\ resumed \subseteq Day

FileTypes ==
  file \in {Checkpoint(d, n) : d \in Day, n \in 0 .. MaxPages} \cup {NoFile}

LEMMA TypeParts == TypeOK <=> NumberTypes /\ FlagTypes /\ SetTypes /\ FileTypes
BY DEF TypeOK, NumberTypes, FlagTypes, SetTypes, FileTypes

\* WalkInv, as its parts are kept.
IInv == /\ NumberTypes /\ FlagTypes /\ SetTypes /\ FileTypes
        /\ PositionInv /\ TriesInv /\ BrowserInv /\ ReadInv /\ StreakInv

LEMMA WalkParts == WalkInv <=> IInv
BY TypeParts DEF WalkInv, IInv

-----------------------------------------------------------------------------
(* The walk: the first state, and each action. *)

LEMMA WalkStart == ASSUME Init PROVE IInv
<1>1. NumberTypes /\ FlagTypes /\ SetTypes /\ FileTypes
  <2>1. NumberTypes
    BY Constants DEF Init, NumberTypes, Day
  <2>2. FlagTypes
    BY DEF Init, FlagTypes
  <2>3. SetTypes /\ FileTypes
    BY DEF Init, SetTypes, FileTypes, Busy, Searching
  <2>4. QED
    BY <2>1, <2>2, <2>3
<1>2. PositionInv
  BY Constants DEF Init, PositionInv, Busy, Searching, Form, CheckpointSaved
<1>3. TriesInv /\ BrowserInv
  BY Constants DEF Init, TriesInv, BrowserInv, Form, PageOneInCategory
<1>4. ReadInv
  BY DEF Init, ReadInv, LeftComplete, LeftBehind
<1>5. StreakInv
  BY Constants DEF Init, StreakInv, EmptyStopHonest, Day
<1>6. QED
  BY <1>1, <1>2, <1>3, <1>4, <1>5 DEF IInv

\* The process that ends leaves the checkpoint and what is saved.
LEMMA ExitKeeps ==
  ASSUME IInv, NEW to \in {"stopped", "down", "quit"}, Exits(to),
         recycling' \in BOOLEAN, faults' \in 0 .. MaxFaults, crashes' \in 0 .. MaxCrashes
  PROVE  IInv'
<1>1. NumberTypes'
  BY Constants DEF IInv, Exits, FirstTry, NumberTypes
<1>2. FlagTypes'
  BY DEF IInv, Exits, FirstTry, FlagTypes
<1>3. SetTypes' /\ FileTypes'
  BY DEF IInv, Exits, history, SetTypes, FileTypes
<1>4. PositionInv'
  BY Constants
     DEF IInv, Exits, PositionInv, Busy, Searching, Form, CheckpointSaved, NumberTypes
<1>5. TriesInv' /\ BrowserInv'
  BY Constants DEF Exits, FirstTry, TriesInv, BrowserInv, Form, PageOneInCategory
<1>6. ReadInv'
  BY DEF IInv, Exits, history, ReadInv, LeftComplete, LeftBehind
<1>7. StreakInv'
  BY DEF IInv, Exits, StreakInv, EmptyStopHonest, NumberTypes, Day
<1>8. QED
  BY <1>1, <1>2, <1>3, <1>4, <1>5, <1>6, <1>7 DEF IInv

LEMMA StopKeeps ==
  ASSUME IInv, BootFails \/ Crash \/ Interrupt \/ RecycleFails \/ SaveFails \/ FinalSaveFails
  PROVE  IInv'
<1>1. /\ recycling \in BOOLEAN /\ faults \in 0 .. MaxFaults /\ crashes \in 0 .. MaxCrashes
  BY DEF IInv, NumberTypes, FlagTypes
<1>2. CASE Fault /\ (Down \/ Exits("quit"))
  BY <1>1, <1>2, ExitKeeps, Constants DEF Fault, Down
<1>3. CASE Killed /\ (Down \/ Exits("stopped"))
  BY <1>1, <1>3, ExitKeeps, Constants DEF Killed, Down
<1>4. QED
  BY <1>2, <1>3
     DEF BootFails, Crash, Interrupt, RecycleFails, SaveFails, FinalSaveFails

\* The operator forgets the checkpoint.
LEMMA DeclinesKeeps == ASSUME IInv, Declines PROVE IInv'
<1>1. NumberTypes' /\ FlagTypes' /\ SetTypes' /\ FileTypes'
  BY Constants
     DEF IInv, Declines, NoFault, bounds, tries, browser, history, NumberTypes,
         Day, FlagTypes, SetTypes, Filters, Busy, Searching, FileTypes
<1>2. PositionInv' /\ TriesInv' /\ BrowserInv'
  BY Constants
     DEF IInv, Declines, NoFault, bounds, tries, browser, history, PositionInv,
         CheckpointSaved, NumberTypes, Day, Busy, Searching, Form, TriesInv,
         BrowserInv, PageOneInCategory, SupplyShown, FlagTypes, SetTypes, Filters
<1>3. ReadInv' /\ StreakInv'
  BY Constants
     DEF IInv, Declines, NoFault, bounds, tries, browser, history, ReadInv,
         LeftComplete, LeftBehind, DayRead, NumberTypes, Day, StreakInv,
         EmptyStopHonest, NoActs
<1>4. QED
  BY <1>1, <1>2, <1>3 DEF IInv

\* A start goes on behind the checkpoint (_promptSetup).
LEMMA BootKeeps == ASSUME IInv, Boot PROVE IInv'
<1>1. /\ Resume # NoFile /\ Resume.day \in Day /\ Resume.last \in 0 .. MaxPages
      /\ Resume \in {Checkpoint(d, n) : d \in Day, n \in 0 .. MaxPages}
      /\ file = NoFile => Resume.day = 1 /\ Resume.last = 0
      /\ file # NoFile => Resume = file
  BY ResumeType, TypeParts DEF IInv
<1>2. FlagTypes'
  BY Constants
     DEF IInv, Boot, NewBrowser, SetupFilters, BodyTemplate, Fetch, NoFault,
         bounds, tries, FlagTypes
<1>3. NumberTypes'
  BY <1>1, Constants DEF IInv, Boot, NoFault, bounds, tries, NumberTypes
<1>4. SetTypes'
  BY <1>1, Constants
     DEF IInv, Boot, NewBrowser, SetupFilters, BodyTemplate, Fetch, SetTypes,
         Filters, Busy, Searching
<1>5. FileTypes'
  BY <1>1 DEF Boot, FileTypes
<1>6. TriesInv' /\ BrowserInv'
  BY Constants
     DEF IInv, Boot, NewBrowser, SetupFilters, BodyTemplate, Fetch, NoFault,
         bounds, tries, TriesInv, NumberTypes, Form, Searching, BrowserInv,
         PageOneInCategory, SupplyShown, FlagTypes, SetTypes, Filters
<1>7. PositionInv'
  <2>1. \A p \in 1 .. Resume.last : <<Resume.day, p>> \in saved
    BY <1>1, Constants DEF IInv, PositionInv, CheckpointSaved
  <2>2. file' = Resume /\ day' = Resume.day /\ page' = Resume.last + 1 /\ saved' = saved
    BY DEF Boot
  <2>3. IF Resume.last < MaxPages THEN pc' = IF page' = 1 THEN "supply" ELSE "post"
                                  ELSE pc' = "over"
    BY DEF Boot, Fetch
  <2>4. QED
    BY <1>1, <2>1, <2>2, <2>3, Constants DEF PositionInv, CheckpointSaved, Form
<1>8. ReadInv'
  <2>1. file # NoFile => \A p \in 1 .. Resume.last : <<Resume.day, p>> \in saved
    BY <1>1, Constants DEF IInv, PositionInv, CheckpointSaved
  <2>2. pc' = "over" => Resume.last = MaxPages /\ file # NoFile
    BY <1>1, Constants DEF Boot, Fetch
  <2>3. pc' = "over" => DayRead(day)'
    BY <2>1, <2>2, Constants DEF Boot, DayRead
  <2>4. \A d \in Day : LeftBehind(d)' => LeftBehind(d)
    BY <1>1, <2>2 DEF Boot, Fetch, LeftBehind, Day
  <2>5. QED
    BY <2>3, <2>4 DEF IInv, Boot, ReadInv, LeftComplete
<1>9. StreakInv'
  <2>1. streak' = 0 /\ day' = Resume.day /\ page' = Resume.last + 1
    BY DEF IInv, Boot, StreakInv
  <2>2. pc' \notin {"end", "done", "stopped", "down"} /\ (pc' = "over" => Resume.last > 0)
    BY <1>1, Constants DEF Boot, Fetch
  <2>3. Resume.last > 0 => day' \in resumed'
    BY DEF Boot
  <2>4. QED
    BY <1>1, <2>1, <2>2, <2>3 DEF StreakInv, EmptyStopHonest, NoActs, Day
<1>10. QED
  BY <1>2, <1>3, <1>4, <1>5, <1>6, <1>7, <1>8, <1>9 DEF IInv

\* The form of the site: category, "find", the two filters, the look at them.
LEMMA SupplyKeeps == ASSUME IInv, Supply PROVE IInv'
<1>1. NumberTypes' /\ FlagTypes' /\ SetTypes' /\ FileTypes'
  BY Constants
     DEF IInv, Supply, NoFault, bounds, walk, tries, history, NumberTypes, Day,
         FlagTypes, SetTypes, Filters, Busy, Searching, FileTypes
<1>2. PositionInv' /\ TriesInv' /\ BrowserInv'
  BY Constants
     DEF IInv, Supply, NoFault, bounds, walk, tries, history, PositionInv,
         CheckpointSaved, NumberTypes, Day, Busy, Searching, Form, TriesInv,
         BrowserInv, PageOneInCategory, SupplyShown, FlagTypes, SetTypes, Filters
<1>3. ReadInv' /\ StreakInv'
  BY Constants
     DEF IInv, Supply, NoFault, bounds, walk, tries, history, ReadInv,
         LeftComplete, LeftBehind, DayRead, NumberTypes, Day, StreakInv,
         EmptyStopHonest, NoActs
<1>4. QED
  BY <1>1, <1>2, <1>3 DEF IInv

LEMMA FindKeeps == ASSUME IInv, Find PROVE IInv'
<1>1. NumberTypes' /\ FlagTypes' /\ SetTypes' /\ FileTypes'
  BY Constants
     DEF IInv, Find, Clicked, NoFault, bounds, walk, tries, history, NumberTypes,
         Day, FlagTypes, SetTypes, Filters, Busy, Searching, FileTypes
<1>2. PositionInv' /\ TriesInv' /\ BrowserInv'
  BY Constants
     DEF IInv, Find, Clicked, NoFault, bounds, walk, tries, history, PositionInv,
         CheckpointSaved, NumberTypes, Day, Busy, Searching, Form, TriesInv,
         BrowserInv, PageOneInCategory, SupplyShown, FlagTypes, SetTypes, Filters
<1>3. ReadInv' /\ StreakInv'
  BY Constants
     DEF IInv, Find, Clicked, NoFault, bounds, walk, tries, history, ReadInv,
         LeftComplete, LeftBehind, DayRead, NumberTypes, Day, StreakInv,
         EmptyStopHonest, NoActs
<1>4. QED
  BY <1>1, <1>2, <1>3 DEF IInv

LEMMA RakFilterKeeps == ASSUME IInv, _applyRakDocumentTypeFilterUi PROVE IInv'
<1>1. NumberTypes' /\ FlagTypes' /\ SetTypes' /\ FileTypes'
  BY Constants
     DEF IInv, _applyRakDocumentTypeFilterUi, Apply, NoFault, bounds, walk, tries,
         history, NumberTypes, Day, FlagTypes, SetTypes, Filters, Busy, Searching,
         FileTypes
<1>2. PositionInv' /\ TriesInv' /\ BrowserInv'
  BY Constants
     DEF IInv, _applyRakDocumentTypeFilterUi, Apply, NoFault, bounds, walk, tries,
         history, PositionInv, CheckpointSaved, NumberTypes, Day, Busy, Searching,
         Form, TriesInv, BrowserInv, PageOneInCategory, SupplyShown, FlagTypes,
         SetTypes, Filters
<1>3. ReadInv' /\ StreakInv'
  BY Constants
     DEF IInv, _applyRakDocumentTypeFilterUi, Apply, NoFault, bounds, walk, tries,
         history, ReadInv, LeftComplete, LeftBehind, DayRead, NumberTypes, Day,
         StreakInv, EmptyStopHonest, NoActs
<1>4. QED
  BY <1>1, <1>2, <1>3 DEF IInv

LEMMA StatusFilterKeeps == ASSUME IInv, _applyStatusFilterUi PROVE IInv'
<1>1. NumberTypes' /\ FlagTypes' /\ SetTypes' /\ FileTypes'
  BY Constants
     DEF IInv, _applyStatusFilterUi, Apply, NoFault, bounds, walk, tries, history,
         NumberTypes, Day, FlagTypes, SetTypes, Filters, Busy, Searching,
         FileTypes
<1>2. PositionInv' /\ TriesInv' /\ BrowserInv'
  BY Constants
     DEF IInv, _applyStatusFilterUi, Apply, NoFault, bounds, walk, tries, history,
         PositionInv, CheckpointSaved, NumberTypes, Day, Busy, Searching, Form,
         TriesInv, BrowserInv, PageOneInCategory, SupplyShown, FlagTypes,
         SetTypes, Filters
<1>3. ReadInv' /\ StreakInv'
  BY Constants
     DEF IInv, _applyStatusFilterUi, Apply, NoFault, bounds, walk, tries, history,
         ReadInv, LeftComplete, LeftBehind, DayRead, NumberTypes, Day, StreakInv,
         EmptyStopHonest, NoActs
<1>4. QED
  BY <1>1, <1>2, <1>3 DEF IInv

LEMMA VerifyKeeps == ASSUME IInv, _verifyListingFiltersOrRepair PROVE IInv'
<1>1. NumberTypes' /\ FlagTypes' /\ SetTypes' /\ FileTypes'
  BY Constants
     DEF IInv, _verifyListingFiltersOrRepair, NoFault, bounds, walk, tries,
         history, NumberTypes, Day, FlagTypes, SetTypes, Filters, Busy, Searching,
         FileTypes
<1>2. PositionInv' /\ TriesInv' /\ BrowserInv'
  BY Constants
     DEF IInv, _verifyListingFiltersOrRepair, NoFault, bounds, walk, tries,
         history, PositionInv, CheckpointSaved, NumberTypes, Day, Busy, Searching,
         Form, TriesInv, BrowserInv, PageOneInCategory, SupplyShown, FlagTypes,
         SetTypes, Filters
<1>3. ReadInv' /\ StreakInv'
  BY Constants
     DEF IInv, _verifyListingFiltersOrRepair, NoFault, bounds, walk, tries,
         history, ReadInv, LeftComplete, LeftBehind, DayRead, NumberTypes, Day,
         StreakInv, EmptyStopHonest, NoActs
<1>4. QED
  BY <1>1, <1>2, <1>3 DEF IInv

\* The site forgets a filter: less of what is shown was asked for.
LEMMA FilterDroppedKeeps == ASSUME IInv, FilterDropped PROVE IInv'
<1>1. NumberTypes' /\ FlagTypes' /\ SetTypes' /\ FileTypes'
  BY Constants
     DEF IInv, FilterDropped, Fault, walk, tries, history, NumberTypes, Day,
         FlagTypes, SetTypes, Filters, Busy, Searching, FileTypes
<1>2. PositionInv' /\ TriesInv' /\ BrowserInv'
  BY Constants
     DEF IInv, FilterDropped, Fault, walk, tries, history, PositionInv,
         CheckpointSaved, NumberTypes, Day, Busy, Searching, Form, TriesInv,
         BrowserInv, PageOneInCategory, SupplyShown, FlagTypes, SetTypes, Filters
<1>3. ReadInv' /\ StreakInv'
  BY Constants
     DEF IInv, FilterDropped, Fault, walk, tries, history, ReadInv, LeftComplete,
         LeftBehind, DayRead, NumberTypes, Day, StreakInv, EmptyStopHonest, NoActs
<1>4. QED
  BY <1>1, <1>2, <1>3 DEF IInv

\* A later page, which is behind the last one or is saved next.
LEMMA PostKeeps == ASSUME IInv, Post PROVE IInv'
<1>1. NumberTypes'
  BY Constants
     DEF IInv, Post, NoFault, bounds, walk, tries, history, browser, NumberTypes,
         Day
<1>2. FlagTypes'
  BY Constants
     DEF IInv, Post, NoFault, bounds, walk, tries, history, browser, FlagTypes
<1>3. SetTypes'
  BY Constants
     DEF IInv, Post, NoFault, bounds, walk, tries, history, browser, SetTypes,
         NumberTypes, Filters, Busy, Searching
<1>4. FileTypes'
  BY Constants
     DEF IInv, Post, NoFault, bounds, walk, tries, history, browser, FileTypes,
         NumberTypes
<1>5. PositionInv' /\ TriesInv' /\ BrowserInv'
  BY Constants
     DEF IInv, Post, NoFault, bounds, walk, tries, history, browser, PositionInv,
         CheckpointSaved, NumberTypes, Day, Busy, Searching, Form, TriesInv,
         BrowserInv, PageOneInCategory, SupplyShown, FlagTypes, SetTypes, Filters
<1>6. ReadInv' /\ StreakInv'
  BY Constants
     DEF IInv, Post, NoFault, bounds, walk, tries, history, browser, ReadInv,
         LeftComplete, LeftBehind, DayRead, NumberTypes, Day, PositionInv, Busy,
         Searching, StreakInv, EmptyStopHonest, NoActs
<1>7. QED
  BY <1>1, <1>2, <1>3, <1>4, <1>5, <1>6 DEF IInv

\* An answer without a result ends the day, which is excused.
LEMMA RefusedKeeps == ASSUME IInv, Refused PROVE IInv'
<1>1. NumberTypes' /\ FlagTypes' /\ SetTypes' /\ FileTypes'
  BY Constants
     DEF IInv, Refused, Fault, tries, browser, NumberTypes, Day, FlagTypes,
         SetTypes, Filters, Busy, Searching, FileTypes
<1>2. PositionInv' /\ TriesInv' /\ BrowserInv'
  BY Constants
     DEF IInv, Refused, Fault, tries, browser, PositionInv, CheckpointSaved,
         NumberTypes, Day, Busy, Searching, Form, TriesInv, BrowserInv,
         PageOneInCategory, SupplyShown, FlagTypes, SetTypes, Filters
<1>3. ReadInv' /\ StreakInv'
  BY Constants
     DEF IInv, Refused, Fault, tries, browser, ReadInv, LeftComplete, LeftBehind,
         DayRead, NumberTypes, Day, StreakInv, EmptyStopHonest, NoActs
<1>4. QED
  BY <1>1, <1>2, <1>3 DEF IInv

\* A fetch that fails: the next attempt, or the next round.
LEMMA FetchFailsKeeps == ASSUME IInv, FetchFails PROVE IInv'
<1>1. FlagTypes'
  BY Constants
     DEF IInv, FetchFails, AttemptFails, RoundFails, NextRound, Cause, Escalates,
         Counted, Fetch, Fault, NoFault, bounds, browser, history, Searching,
         FlagTypes
<1>2. SetTypes'
  BY Constants
     DEF IInv, FetchFails, AttemptFails, RoundFails, NextRound, Cause, Escalates,
         Counted, Fetch, Fault, NoFault, bounds, browser, history, Searching,
         SetTypes, NumberTypes, Filters, Busy
<1>3. FileTypes'
  BY Constants
     DEF IInv, FetchFails, AttemptFails, RoundFails, NextRound, Cause, Escalates,
         Counted, Fetch, Fault, NoFault, bounds, browser, history, Searching,
         FileTypes, NumberTypes
<1>4. NumberTypes'
  <2>1. round =< MaxRounds /\ round \in Nat
    BY Constants DEF IInv, FetchFails, TriesInv, NumberTypes, Searching
  <2>2. CASE \E cause \in Cause : AttemptFails(cause)
    <3>1. PICK cause \in Cause : AttemptFails(cause)
      BY <2>2
    <3>2. gate' \in 0 .. GateLimit - 1
      BY <3>1, Constants DEF IInv, AttemptFails, Counted, Escalates, NumberTypes
    <3>3. flap' \in 0 .. FlapLimit - 1 /\ (gate' = 0 \/ flap' = 0)
      BY <3>1, Constants DEF IInv, AttemptFails, Counted, Escalates, NumberTypes
    <3>4. attempt' \in 1 .. Attempts /\ round' = round
      BY <3>1, Constants DEF IInv, AttemptFails, NumberTypes
    <3>5. QED
      BY <3>2, <3>3, <3>4, Constants
         DEF IInv, FetchFails, Fault, NoFault, bounds, NumberTypes
  <2>3. CASE RoundFails
    BY <2>1, <2>3, Constants
       DEF IInv, FetchFails, RoundFails, NextRound, Fault, NoFault, bounds,
           NumberTypes
  <2>4. QED
    BY <2>2, <2>3 DEF FetchFails
<1>5. PositionInv' /\ TriesInv' /\ BrowserInv'
  BY Constants
     DEF IInv, FetchFails, AttemptFails, RoundFails, NextRound, Cause, Escalates,
         Counted, Fetch, Fault, NoFault, bounds, browser, history, Searching,
         PositionInv, CheckpointSaved, NumberTypes, Day, Busy, Form, TriesInv,
         BrowserInv, PageOneInCategory, SupplyShown, FlagTypes, SetTypes, Filters
<1>6. ReadInv' /\ StreakInv'
  BY Constants
     DEF IInv, FetchFails, AttemptFails, RoundFails, NextRound, Cause, Escalates,
         Counted, Fetch, Fault, NoFault, bounds, browser, history, Searching,
         ReadInv, LeftComplete, LeftBehind, DayRead, NumberTypes, Day, StreakInv,
         EmptyStopHonest, NoActs
<1>7. QED
  BY <1>1, <1>2, <1>3, <1>4, <1>5, <1>6 DEF IInv

LEMMA RecoverFromKeeps == ASSUME IInv, _recoverFrom PROVE IInv'
<1>1. NumberTypes' /\ FlagTypes' /\ SetTypes' /\ FileTypes'
  BY Constants
     DEF IInv, _recoverFrom, Fetch, Fault, NoFault, bounds, walk, tries, history,
         browser, NumberTypes, Day, FlagTypes, SetTypes, Filters, Busy, Searching,
         FileTypes
<1>2. PositionInv' /\ TriesInv' /\ BrowserInv'
  BY Constants
     DEF IInv, _recoverFrom, Fetch, Fault, NoFault, bounds, walk, tries, history,
         browser, PositionInv, CheckpointSaved, NumberTypes, Day, Busy, Searching,
         Form, TriesInv, BrowserInv, PageOneInCategory, SupplyShown, FlagTypes,
         SetTypes, Filters
<1>3. ReadInv' /\ StreakInv'
  BY Constants
     DEF IInv, _recoverFrom, Fetch, Fault, NoFault, bounds, walk, tries, history,
         browser, ReadInv, LeftComplete, LeftBehind, DayRead, NumberTypes, Day,
         StreakInv, EmptyStopHonest, NoActs
<1>4. QED
  BY <1>1, <1>2, <1>3 DEF IInv

LEMMA RecycleWindowKeeps ==
  ASSUME IInv, RecycleWindow, recycles # MaxRecycles
  PROVE  IInv'
<1>1. NumberTypes'
  BY Constants
     DEF IInv, RecycleWindow, NewBrowser, SetupFilters, BodyTemplate, FirstTry,
         Fetch, NoFault, bounds, NumberTypes, Day
<1>2. FlagTypes'
  BY Constants
     DEF IInv, RecycleWindow, NewBrowser, SetupFilters, BodyTemplate, FirstTry,
         Fetch, NoFault, bounds, FlagTypes
<1>3. SetTypes'
  BY Constants
     DEF IInv, RecycleWindow, NewBrowser, SetupFilters, BodyTemplate, FirstTry,
         Fetch, NoFault, bounds, SetTypes, NumberTypes, Filters, Busy, Searching
<1>4. FileTypes'
  BY Constants
     DEF IInv, RecycleWindow, NewBrowser, SetupFilters, BodyTemplate, FirstTry,
         Fetch, NoFault, bounds, FileTypes, NumberTypes
<1>5. PositionInv' /\ TriesInv' /\ BrowserInv'
  BY Constants
     DEF IInv, RecycleWindow, NewBrowser, SetupFilters, BodyTemplate, FirstTry,
         Fetch, NoFault, bounds, PositionInv, CheckpointSaved, NumberTypes, Day,
         Busy, Searching, Form, TriesInv, BrowserInv, PageOneInCategory,
         SupplyShown, FlagTypes, SetTypes, Filters
<1>6. ReadInv' /\ StreakInv'
  BY Constants
     DEF IInv, RecycleWindow, NewBrowser, SetupFilters, BodyTemplate, FirstTry,
         Fetch, NoFault, bounds, ReadInv, LeftComplete, LeftBehind, DayRead,
         NumberTypes, Day, StreakInv, EmptyStopHonest, NoActs
<1>7. QED
  BY <1>1, <1>2, <1>3, <1>4, <1>5, <1>6 DEF IInv

\* What the three ends of a recovery have in common.
LEMMA RecoveryEndsKeeps ==
  ASSUME IInv, NEW f \in SUBSET Filters, NEW s \in {"listing", "form"},
         NEW c \in BOOLEAN, NEW wo \in SUBSET {day},
         pc = "recover", round =< MaxRounds, Recovered(f, s, c, wo),
         page = 1 \/ s = "listing" \/ c \/ wo = {day},
         recycling' = recycling, crashes' = crashes, faults' \in 0 .. MaxFaults
  PROVE  IInv'
<1>1. FlagTypes' /\ FileTypes'
  BY Constants
     DEF IInv, Recovered, Fetch, tries, FlagTypes, NumberTypes, FileTypes
<1>2. NumberTypes'
  <2>1. ~(round > MaxRounds)
    BY Constants DEF IInv, NumberTypes
  <2>2. QED
    BY <2>1, Constants DEF IInv, Recovered, tries, NumberTypes
<1>3. SetTypes'
  BY Constants DEF IInv, Recovered, Fetch, SetTypes, NumberTypes, Busy, Searching
<1>4. PositionInv' /\ TriesInv' /\ BrowserInv'
  BY Constants
     DEF IInv, Recovered, Fetch, tries, PositionInv, CheckpointSaved, NumberTypes,
         Day, Busy, Searching, Form, TriesInv, BrowserInv, PageOneInCategory,
         SupplyShown, FlagTypes, SetTypes, Filters
<1>5. ReadInv'
  BY Constants
     DEF IInv, Recovered, Fetch, tries, ReadInv, LeftComplete, LeftBehind,
         DayRead, NumberTypes, Day
<1>6. StreakInv'
  BY Constants
     DEF IInv, Recovered, Fetch, tries, StreakInv, EmptyStopHonest, NoActs,
         NumberTypes, Day
<1>7. QED
  BY <1>1, <1>2, <1>3, <1>4, <1>5, <1>6 DEF IInv

LEMMA SaveKeeps == ASSUME IInv, Save PROVE IInv'
<1>1. NumberTypes' /\ FlagTypes' /\ SetTypes' /\ FileTypes'
  BY Constants
     DEF IInv, Save, NoFault, bounds, tries, browser, history, NumberTypes, Day,
         FlagTypes, SetTypes, Filters, Busy, Searching, PositionInv, FileTypes
<1>2. PositionInv' /\ TriesInv' /\ BrowserInv'
  BY Constants
     DEF IInv, Save, NoFault, bounds, tries, browser, history, PositionInv,
         CheckpointSaved, NumberTypes, Day, Busy, Searching, Form, TriesInv,
         BrowserInv, PageOneInCategory, SupplyShown, FlagTypes, SetTypes, Filters
<1>3. ReadInv' /\ StreakInv'
  BY Constants
     DEF IInv, Save, NoFault, bounds, tries, browser, history, ReadInv,
         LeftComplete, LeftBehind, DayRead, NumberTypes, Day, StreakInv,
         EmptyStopHonest, NoActs
<1>4. QED
  BY <1>1, <1>2, <1>3 DEF IInv

\* The checkpoint of a saved page, and whether there is another one.
LEMMA MarkKeeps == ASSUME IInv, Mark PROVE IInv'
<1>1. NumberTypes'
  BY Constants
     DEF IInv, Mark, FirstTry, Checkpoint, _pagerNextIsVisible, NoFault, bounds,
         browser, history, NumberTypes, Day
<1>2. FlagTypes'
  BY Constants
     DEF IInv, Mark, FirstTry, Checkpoint, _pagerNextIsVisible, NoFault, bounds,
         browser, history, FlagTypes
<1>3. SetTypes'
  BY Constants
     DEF IInv, Mark, FirstTry, Checkpoint, _pagerNextIsVisible, NoFault, bounds,
         browser, history, SetTypes, NumberTypes, Filters, Busy, Searching
<1>4. FileTypes'
  BY Constants
     DEF IInv, Mark, FirstTry, Checkpoint, _pagerNextIsVisible, NoFault, bounds,
         browser, history, FileTypes, NumberTypes, PositionInv, Busy, Day
<1>5. TriesInv' /\ BrowserInv'
  BY Constants
     DEF IInv, Mark, FirstTry, Checkpoint, _pagerNextIsVisible, NoFault, bounds,
         browser, history, TriesInv, NumberTypes, Form, Searching, BrowserInv,
         PageOneInCategory, SupplyShown, FlagTypes, SetTypes, Filters
<1>6. PositionInv'
  <2>1. page \in 0 .. MaxPages /\ day \in Day /\ page \in Nat \ {0}
    BY Constants DEF IInv, Mark, PositionInv, NumberTypes
  <2>2. file' # NoFile /\ file'.day = day /\ file'.last = page
    <3>1. file' = Checkpoint(day, page)
      BY DEF Mark
    <3>2. QED
      BY <2>1, <3>1, CheckpointFields
  <2>3. \A p \in 1 .. page : <<day, p>> \in saved
    BY <2>1, Constants DEF IInv, Mark, PositionInv
  <2>4. CheckpointSaved'
    BY <2>2, <2>3 DEF Mark, CheckpointSaved
  <2>5. day' = day /\ saved' = saved
    BY DEF Mark
  <2>6. \/ page' = page + 1 /\ page < MaxPages /\ pc' = "post"
        \/ page' = page /\ pc' = "over"
    BY DEF Mark
  <2>7. \A p \in 1 .. page' - 1 : <<day', p>> \in saved'
    BY <2>1, <2>3, <2>5, <2>6
  <2>8. QED
    BY <2>1, <2>2, <2>4, <2>5, <2>6, <2>7, Constants DEF PositionInv, Form
<1>7. StreakInv'
  BY Constants
     DEF IInv, Mark, FirstTry, Checkpoint, _pagerNextIsVisible, NoFault, bounds,
         browser, history, StreakInv, EmptyStopHonest, NoActs, NumberTypes, Day
<1>8. ReadInv'
  <2>1. page \in 0 .. MaxPages /\ day \in Day /\ page \in Nat \ {0}
    BY Constants DEF IInv, Mark, PositionInv, NumberTypes
  <2>2. file' # NoFile /\ file'.day = day
    <3>1. file' = Checkpoint(day, page)
      BY DEF Mark
    <3>2. QED
      BY <2>1, <3>1, CheckpointFields
  <2>3. \A p \in 1 .. page : <<day, p>> \in saved
    BY <2>1, Constants DEF IInv, Mark, PositionInv
  <2>4. pc' = "over" => day \in excused \/ page = MaxPages \/ Pages[day] =< 1
    BY <2>1, Constants
       DEF IInv, Mark, _pagerNextIsVisible, BrowserInv, NumberTypes
  <2>5. pc' = "over" => day \in excused \/ DayRead(day)
    BY <2>1, <2>3, <2>4, Constants DEF DayRead
  <2>6. LeftComplete'
    BY <2>2
       DEF IInv, Mark, history, ReadInv, LeftComplete, LeftBehind, PositionInv,
           Busy
  <2>7. QED
    BY <2>5, <2>6 DEF Mark, history, ReadInv, DayRead
<1>9. QED
  BY <1>1, <1>2, <1>3, <1>4, <1>5, <1>6, <1>7, <1>8 DEF IInv

\* The next day, or the end of the walk.
LEMMA WindowOverKeeps == ASSUME IInv, WindowOver PROVE IInv'
<1>1. NumberTypes'
  BY Constants
     DEF IInv, WindowOver, Streak, Stops, FirstTry, Fetch, Checkpoint, NoFault,
         bounds, browser, history, NumberTypes, Day, StreakInv
<1>2. FlagTypes'
  BY Constants
     DEF IInv, WindowOver, Streak, Stops, FirstTry, Fetch, Checkpoint, NoFault,
         bounds, browser, history, FlagTypes
<1>3. SetTypes'
  BY Constants
     DEF IInv, WindowOver, Streak, Stops, FirstTry, Fetch, Checkpoint, NoFault,
         bounds, browser, history, SetTypes, NumberTypes, Filters, Busy, Searching
<1>4. FileTypes'
  BY Constants
     DEF IInv, WindowOver, Streak, Stops, FirstTry, Fetch, Checkpoint, NoFault,
         bounds, browser, history, FileTypes, NumberTypes, Day
<1>5. TriesInv' /\ BrowserInv'
  BY Constants
     DEF IInv, WindowOver, Streak, Stops, FirstTry, Fetch, Checkpoint, NoFault,
         bounds, browser, history, TriesInv, NumberTypes, Form, Searching,
         BrowserInv, PageOneInCategory, SupplyShown, FlagTypes, SetTypes, Filters
<1>6. PositionInv'
  <2>1. CASE pc' = "end"
    BY <2>1, Constants
       DEF IInv, WindowOver, Fetch, PositionInv, CheckpointSaved, Busy, Searching,
           Form
  <2>2. CASE ~Stops
    <3>1. day + 1 \in Day
      BY <2>2, Constants DEF IInv, Stops, NumberTypes, Day
    <3>2. file' # NoFile /\ file'.day = day' /\ file'.last = 0
      <4>1. file' = Checkpoint(day + 1, 0) /\ day' = day + 1 /\ 0 \in 0 .. MaxPages
        BY <2>2, Constants DEF WindowOver
      <4>2. QED
        BY <3>1, <4>1, CheckpointFields
    <3>3. QED
      BY <2>2, <3>2, Constants
         DEF IInv, WindowOver, Fetch, PositionInv, CheckpointSaved, Form
  <2>3. QED
    BY <2>1, <2>2 DEF WindowOver
<1>7. ReadInv'
  <2>1. day \in Day /\ day \in Nat /\ pc = "over" /\ file # NoFile /\ file.day = day
    BY DEF IInv, WindowOver, NumberTypes, Day, PositionInv, Busy
  <2>2. day \in excused \/ DayRead(day)
    BY <2>1 DEF IInv, ReadInv
  <2>3. ASSUME NEW d \in Day, LeftBehind(d)' PROVE d = day \/ LeftBehind(d)
    <3>1. CASE Stops
      BY <2>1, <2>3, <3>1 DEF WindowOver, LeftBehind, Day
    <3>2. CASE ~Stops
      <4>1. file'.day = day + 1 /\ pc' \notin {"end", "done"}
        BY <3>2 DEF WindowOver, Checkpoint, Fetch
      <4>2. d < day + 1
        BY <2>3, <4>1 DEF LeftBehind
      <4> QED
        BY <2>1, <4>2 DEF LeftBehind, Day
    <3> QED
      BY <3>1, <3>2
  <2>4. saved' = saved /\ excused' = excused /\ pc' # "over"
    BY DEF WindowOver, history, Fetch
  <2>5. \A d \in Day \ excused : d = day \/ LeftBehind(d) => DayRead(d)
    BY <2>2 DEF IInv, ReadInv, LeftComplete, DayRead
  <2> QED
    BY <2>3, <2>4, <2>5 DEF ReadInv, LeftComplete, DayRead
<1>8. StreakInv'
  <2>1. /\ day \in Nat /\ streak \in Nat /\ streak < day
        /\ \A d \in Day : d < day /\ d >= day - streak => NoActs(d)
        /\ items \/ NoActs(day)
    BY DEF IInv, WindowOver, StreakInv, NumberTypes, Day
  <2>2. excused' = excused /\ resumed' = resumed
    BY DEF WindowOver, history
  <2>3. page' = 1 /\ streak' = Streak
    BY DEF WindowOver
  <2>4. CASE Stops
    <3>1. day < Len(Pages) => ~items /\ streak + 1 >= EmptyLimit
      BY <2>4 DEF IInv, Stops, Streak, NumberTypes, Day
    <3>2. \A d \in Day : day < Len(Pages) /\ d =< day /\ d > day - EmptyLimit => NoActs(d)
      BY <2>1, <3>1, Constants DEF Day
    <3>3. QED
      BY <2>2, <2>3, <2>4, <3>2 DEF WindowOver, StreakInv, EmptyStopHonest, NoActs
  <2>5. CASE ~Stops
    <3>1. day' = day + 1 /\ pc' = "supply"
      BY <2>5 DEF WindowOver, Fetch
    <3>2. Streak \in Nat /\ Streak < day + 1
      BY <2>1 DEF Streak
    <3>3. \A d \in Day : d < day + 1 /\ d >= day + 1 - Streak => NoActs(d)
      BY <2>1 DEF Streak, Day
    <3>4. QED
      BY <2>1, <2>2, <2>3, <3>1, <3>2, <3>3 DEF StreakInv, EmptyStopHonest, NoActs
  <2>6. QED
    BY <2>4, <2>5
<1>9. QED
  BY <1>1, <1>2, <1>3, <1>4, <1>5, <1>6, <1>7, <1>8 DEF IInv

LEMMA FinalSaveKeeps == ASSUME IInv, FinalSave PROVE IInv'
<1>1. NumberTypes' /\ FlagTypes' /\ SetTypes' /\ FileTypes'
  BY Constants
     DEF IInv, FinalSave, NoFault, bounds, walk, tries, history, browser,
         NumberTypes, Day, FlagTypes, SetTypes, Filters, Busy, Searching,
         FileTypes
<1>2. PositionInv' /\ TriesInv' /\ BrowserInv'
  BY Constants
     DEF IInv, FinalSave, NoFault, bounds, walk, tries, history, browser,
         PositionInv, CheckpointSaved, NumberTypes, Day, Busy, Searching, Form,
         TriesInv, BrowserInv, PageOneInCategory, SupplyShown, FlagTypes,
         SetTypes, Filters
<1>3. ReadInv' /\ StreakInv'
  BY Constants
     DEF IInv, FinalSave, NoFault, bounds, walk, tries, history, browser, ReadInv,
         LeftComplete, LeftBehind, DayRead, NumberTypes, Day, StreakInv,
         EmptyStopHonest, NoActs
<1>4. QED
  BY <1>1, <1>2, <1>3 DEF IInv

LEMMA RecycleKeeps == ASSUME IInv, RecycleWindow PROVE IInv'
<1>1. CASE recycles = MaxRecycles
  <2>1. Down /\ UNCHANGED <<recycling, faults, crashes>>
    BY <1>1 DEF RecycleWindow, NoFault, bounds
  <2>2. recycling \in BOOLEAN /\ faults \in 0 .. MaxFaults /\ crashes \in 0 .. MaxCrashes
    BY DEF IInv, NumberTypes, FlagTypes
  <2>3. QED
    BY <2>1, <2>2, ExitKeeps DEF Down
<1>2. QED
  BY <1>1, RecycleWindowKeeps

LEMMA RecoveryKeeps ==
  ASSUME IInv, ListingRecovered \/ ListingNotRecovered \/ RecycledUnderneath
  PROVE  IInv'
<1>1. PICK f \in SUBSET Filters, s \in {"listing", "form"}, c \in BOOLEAN, wo \in SUBSET {day} :
        /\ pc = "recover" /\ Recovered(f, s, c, wo)
        /\ page = 1 \/ s = "listing" \/ c \/ wo = {day}
  <2>1. {"supply"} \in SUBSET Filters /\ {} \in SUBSET Filters /\ {} \in SUBSET {day}
    BY DEF Filters
  <2>2. CASE ListingRecovered
    <3>1. CASE page = 1
      BY <2>1, <2>2, <3>1 DEF ListingRecovered
    <3>2. CASE page # 1
      BY <2>1, <2>2, <3>2 DEF ListingRecovered
    <3>3. QED
      BY <3>1, <3>2
  <2>3. CASE ListingNotRecovered
    BY <2>1, <2>3 DEF IInv, ListingNotRecovered, FlagTypes
  <2>4. CASE RecycledUnderneath
    BY <2>1, <2>4 DEF RecycledUnderneath
  <2>5. QED
    BY <2>2, <2>3, <2>4
<1>2. recycling' = recycling /\ crashes' = crashes /\ faults' \in 0 .. MaxFaults
  <2>1. NoFault \/ Fault
    BY DEF ListingRecovered, ListingNotRecovered, RecycledUnderneath
  <2>2. faults \in 0 .. MaxFaults
    BY DEF IInv, NumberTypes
  <2>3. QED
    BY <2>1, <2>2, Constants DEF Fault, NoFault, bounds
<1>3. CASE round > MaxRounds
  <2>1. Down
    BY <1>1, <1>3 DEF Recovered
  <2>2. recycling \in BOOLEAN /\ crashes \in 0 .. MaxCrashes
    BY DEF IInv, NumberTypes, FlagTypes
  <2>3. QED
    BY <1>2, <2>1, <2>2, ExitKeeps DEF Down
<1>4. CASE round =< MaxRounds
  BY <1>1, <1>2, <1>4, RecoveryEndsKeeps
<1>5. QED
  BY <1>3, <1>4, Constants DEF IInv, NumberTypes

LEMMA WalkStep == ASSUME IInv, [Next]_vars PROVE IInv'
<1>1. CASE Progress
  BY <1>1, BootKeeps, SupplyKeeps, FindKeeps, RakFilterKeeps, StatusFilterKeeps,
     VerifyKeeps, PostKeeps, FetchFailsKeeps, RecoverFromKeeps, RecycleKeeps,
     RecoveryKeeps, SaveKeeps, MarkKeeps, WindowOverKeeps, FinalSaveKeeps
     DEF Progress
<1>2. CASE Trouble
  BY <1>2, DeclinesKeeps, StopKeeps, FilterDroppedKeeps, RefusedKeeps,
     FetchFailsKeeps, RecoveryKeeps DEF Trouble
<1>3. CASE UNCHANGED vars
  <2> USE <1>3 DEF vars, tries, browser, history, bounds
  <2>1. NumberTypes' /\ FlagTypes' /\ SetTypes' /\ FileTypes'
    BY DEF IInv, NumberTypes, FlagTypes, SetTypes, FileTypes
  <2>2. PositionInv' /\ TriesInv' /\ BrowserInv'
    BY DEF IInv, PositionInv, TriesInv, BrowserInv, CheckpointSaved,
           PageOneInCategory, SupplyShown
  <2>3. ReadInv' /\ StreakInv'
    BY DEF IInv, ReadInv, LeftComplete, LeftBehind, DayRead, StreakInv, NoActs,
           EmptyStopHonest
  <2>4. QED
    BY <2>1, <2>2, <2>3 DEF IInv
<1>4. QED
  BY <1>1, <1>2, <1>3 DEF Next, Done

-----------------------------------------------------------------------------
(* What holds of the walk. *)

\* WalkInv, the inductive invariant, for any listings and limits.
THEOREM WalkInvariant == Spec => []WalkInv
<1>1. Spec => []IInv
  BY WalkStart, WalkStep, PTL DEF Spec
<1>2. QED
  BY <1>1, WalkParts, PTL

\* Type correctness of the walk.
THEOREM Typing == Spec => []TypeOK
<1>1. WalkInv => TypeOK
  BY DEF WalkInv
<1>2. QED
  BY <1>1, WalkInvariant, PTL

\* The checkpoint written after each page (parser_state.json) never names a
\* page whose acts were not saved before it.
THEOREM NothingSkipped == Spec => []CheckpointSaved
<1>1. WalkInv => CheckpointSaved
  BY DEF WalkInv, PositionInv
<1>2. QED
  BY <1>1, WalkInvariant, PTL

\* A day the walk has left was read to its last page or to RAS_MAX_PAGES,
\* whatever failed and however often the process was killed in it.
THEOREM DaysComplete == Spec => []LeftComplete
<1>1. WalkInv => LeftComplete
  BY DEF WalkInv, ReadInv
<1>2. QED
  BY <1>1, WalkInvariant, PTL

\* Page 1 is saved from a listing of the category alone
\* (_verifyListingFiltersOrRepair).
THEOREM CategoryKept == Spec => []PageOneInCategory
<1>1. WalkInv => PageOneInCategory
  BY DEF WalkInv, BrowserInv
<1>2. QED
  BY <1>1, WalkInvariant, PTL

\* The walk stops before the last day only after EmptyLimit days in a row
\* without acts (RAS_EMPTY_WINDOW_STREAK_LIMIT).
THEOREM StopsHonestly == Spec => []EmptyStopHonest
<1>1. WalkInv => EmptyStopHonest
  BY DEF WalkInv, StreakInv
<1>2. QED
  BY <1>1, WalkInvariant, PTL

-----------------------------------------------------------------------------
(* The verdicts of a case. *)

VerdictTypes ==
  /\ info \in [Act -> [kind : Kind, date : 1 .. MaxDate]]
  /\ links \in Seq(Act) /\ pending \subseteq Collected
  /\ keep \in [Act -> BOOLEAN] /\ db \in [Act -> BOOLEAN \cup {None}]
  /\ restarts \in Nat /\ IsFiniteSet(Kept)

VerdictInv == VerdictTypes /\ KeptInv

LEMMA CollectedActs == ASSUME VerdictTypes PROVE Collected \subseteq Act
BY DEF VerdictTypes, Collected, ToSet

LEMMA Appended ==
  ASSUME NEW s \in Seq(Act), NEW a \in Act
  PROVE  ToSet(Append(s, a)) = ToSet(s) \cup {a}
<1>1. \A i \in 1 .. Len(s) + 1 : Append(s, a)[i] = IF i =< Len(s) THEN s[i] ELSE a
  OBVIOUS
<1>2. DOMAIN Append(s, a) = 1 .. Len(s) + 1 /\ DOMAIN s = 1 .. Len(s) /\ Len(s) \in Nat
  OBVIOUS
<1>3. ToSet(Append(s, a)) \subseteq ToSet(s) \cup {a}
  BY <1>1, <1>2 DEF ToSet
<1>4. a \in ToSet(Append(s, a))
  <2>1. Append(s, a)[Len(s) + 1] = a /\ Len(s) + 1 \in DOMAIN Append(s, a)
    BY <1>1, <1>2
  <2> QED
    BY <2>1 DEF ToSet
<1>5. \A i \in 1 .. Len(s) : i \in 1 .. Len(s) + 1 /\ Append(s, a)[i] = s[i]
  BY <1>1, <1>2
<1>6. ToSet(s) \subseteq ToSet(Append(s, a))
  BY <1>2, <1>5 DEF ToSet
<1> QED
  BY <1>3, <1>4, <1>6

LEMMA VerdictStart == VerdictInit => VerdictInv
<1> SUFFICES ASSUME VerdictInit PROVE VerdictInv
  OBVIOUS
<1>1. Collected = {} /\ links \in Seq(Act)
  BY DEF VerdictInit, Collected, ToSet
<1>2. Kept = {}
  BY KindAssumption DEF VerdictInit, Kept
<1>3. IsFiniteSet({}) /\ Cardinality({}) = 0
  BY FS_EmptySet
<1> QED
  BY <1>1, <1>2, <1>3 DEF VerdictInit, VerdictInv, VerdictTypes, KeptInv, Saved, Leftovers

(* A collected act is pending and saved by nothing yet. *)
LEMMA CollectKeeps ==
  ASSUME VerdictInv, NEW a \in Act, _collectDecisionLinks(a) PROVE VerdictInv'
<1>1. Collected' = Collected \cup {a} /\ links' \in Seq(Act)
  BY Appended DEF VerdictInv, VerdictTypes, _collectDecisionLinks, Collected
<1>2. Saved' = Saved /\ a \notin Saved
  BY <1>1 DEF _collectDecisionLinks, Saved
<1>3. Kept' = Kept /\ Leftovers' = Leftovers
  BY <1>2 DEF _collectDecisionLinks, Kept, Leftovers
<1>4. keep' \in [Act -> BOOLEAN]
  BY DEF _collectDecisionLinks, _classifyAct, VerdictInv, VerdictTypes
<1>5. \A b \in Saved : keep'[b] = keep[b]
  <2>1. Saved \subseteq Act
    BY CollectedActs DEF VerdictInv, Saved
  <2> QED
    BY <1>2, <2>1 DEF _collectDecisionLinks, VerdictInv, VerdictTypes
<1>6. VerdictTypes'
  BY <1>1, <1>3, <1>4 DEF _collectDecisionLinks, VerdictInv, VerdictTypes
<1>7. KeptInv'
  BY <1>2, <1>3, <1>5 DEF _collectDecisionLinks, VerdictInv, KeptInv
<1> QED
  BY <1>6, <1>7 DEF VerdictInv

(* What the upsert leaves kept: its one final act and rows it did not write, *)
(* of which the acts of the Map hold none but that act.                      *)
LEMMA UpsertKeeps ==
  ASSUME VerdictInv, db' = Upserted
  PROVE  /\ db' \in [Act -> BOOLEAN \cup {None}]
         /\ \A a \in Collected : db'[a] = Resolved(links)[a]
         /\ Kept' \ Collected \subseteq Leftovers
         /\ \A a, b \in Kept' \cap Collected : a = b
<1>1. \A a \in Act : Resolved(links)[a] \in BOOLEAN
  BY DEF Resolved
<1>2. \A a \in Act : db'[a] = IF a \in pending \cup Changed
                             THEN Resolved(links)[a] ELSE db[a]
  BY DEF Upserted
<1>3. db' \in [Act -> BOOLEAN \cup {None}]
  BY <1>1 DEF Upserted, VerdictInv, VerdictTypes
<1>4. \A a \in Collected : db'[a] = Resolved(links)[a]
  BY <1>2, CollectedActs DEF Changed, VerdictInv, KeptInv, Saved
<1>5. Kept' \ Collected \subseteq Leftovers
  BY <1>2 DEF Kept, Leftovers, Saved, Changed, VerdictInv, VerdictTypes
<1>6. \A a, b \in Kept' \cap Collected : a = b
  BY <1>4 DEF Kept, Resolved
<1> QED
  BY <1>3, <1>4, <1>5, <1>6

(* A set with at most one element is finite and counts at most one. *)
LEMMA AtMostOne ==
  ASSUME NEW S, \A a, b \in S : a = b
  PROVE  IsFiniteSet(S) /\ Cardinality(S) =< 1
<1>1. CASE S = {}
  BY <1>1, FS_EmptySet
<1>2. ASSUME NEW a \in S, S = {a} PROVE IsFiniteSet(S) /\ Cardinality(S) =< 1
  <2>1. IsFiniteSet({a}) /\ Cardinality({a}) = 1
    BY FS_Singleton
  <2> QED
    BY <1>2, <2>1
<1> QED
  BY <1>1, <1>2

LEMMA OneMore ==
  ASSUME NEW S, NEW T, NEW n \in Nat, IsFiniteSet(S), Cardinality(S) =< n,
         \A a, b \in T : a = b
  PROVE  IsFiniteSet(S \cup T) /\ Cardinality(S \cup T) =< n + 1
<1>1. IsFiniteSet(T) /\ Cardinality(T) =< 1
  BY AtMostOne
<1>2. IsFiniteSet(S \cup T) /\ IsFiniteSet(S \cap T)
  BY <1>1, FS_Union, FS_Intersection
<1>3. Cardinality(S \cup T) = Cardinality(S) + Cardinality(T) - Cardinality(S \cap T)
  BY <1>1, FS_Union
<1>4. /\ Cardinality(S) \in Nat /\ Cardinality(T) \in Nat
      /\ Cardinality(S \cap T) \in Nat
  BY <1>1, <1>2, FS_CardinalityType
<1> QED
  BY <1>1, <1>2, <1>3, <1>4

LEMMA LeftoversFinite ==
  ASSUME VerdictInv PROVE IsFiniteSet(Leftovers) /\ Cardinality(Leftovers) \in Nat
BY FS_Subset, FS_CardinalityType DEF VerdictInv, VerdictTypes, Leftovers

(* A save resolves the whole Map: its acts are saved, one of them final. *)
LEMMA TableKeeps == ASSUME VerdictInv, _saveDecisionLinks PROVE VerdictInv'
<1>1. Collected' = Collected /\ Saved' = Collected
  BY DEF _saveDecisionLinks, Collected, Saved
<1>2. Leftovers' \subseteq Leftovers
  BY <1>1, UpsertKeeps DEF _saveDecisionLinks, Leftovers
<1>3. Cardinality(Leftovers') =< restarts
  <2>1. Cardinality(Leftovers') =< Cardinality(Leftovers)
    BY <1>2, LeftoversFinite, FS_Subset
  <2>2. Cardinality(Leftovers') \in Nat
    BY <1>2, LeftoversFinite, FS_Subset, FS_CardinalityType
  <2> QED
    BY <2>1, <2>2, LeftoversFinite DEF VerdictInv, KeptInv, VerdictTypes
<1>4. IsFiniteSet(Kept')
  <2>1. Kept' = (Kept' \ Collected) \cup (Kept' \cap Collected)
    OBVIOUS
  <2>2. IsFiniteSet(Kept' \ Collected)
    BY UpsertKeeps, LeftoversFinite, FS_Subset DEF _saveDecisionLinks
  <2>3. IsFiniteSet(Kept' \cap Collected)
    BY UpsertKeeps, AtMostOne DEF _saveDecisionLinks
  <2> QED
    BY <2>1, <2>2, <2>3, FS_Union
<1>5. keep' = Resolved(links) /\ keep' \in [Act -> BOOLEAN]
  BY DEF _saveDecisionLinks, Resolved
<1>6. VerdictTypes'
  BY <1>1, <1>4, <1>5, UpsertKeeps DEF _saveDecisionLinks, VerdictInv, VerdictTypes
<1>7. KeptInv'
  <2>1. \A a \in Collected : db'[a] = keep'[a]
    BY <1>5, UpsertKeeps DEF _saveDecisionLinks
  <2>2. \A a, b \in Collected : keep'[a] /\ keep'[b] => a = b
    BY <1>5, CollectedActs DEF Resolved, VerdictInv
  <2> QED
    BY <1>1, <1>3, <2>1, <2>2 DEF _saveDecisionLinks, KeptInv
<1> QED
  BY <1>6, <1>7 DEF VerdictInv

(* A restart makes leftovers of what is kept, which is one act more. *)
LEMMA RestartKeeps ==
  ASSUME VerdictInv, Restarted, IsFiniteSet(Kept'), Cardinality(Kept') =< restarts + 1,
         db' \in [Act -> BOOLEAN \cup {None}]
  PROVE  VerdictInv'
<1>1. Collected' = {} /\ links' \in Seq(Act)
  BY DEF Restarted, Collected, ToSet
<1>2. Saved' = {} /\ Leftovers' = Kept'
  BY <1>1 DEF Saved, Leftovers
<1>3. /\ keep' \in [Act -> BOOLEAN] /\ restarts' = restarts + 1
      /\ pending' = {} /\ info' = info
  BY DEF Restarted
<1> QED
  BY <1>1, <1>2, <1>3 DEF VerdictInv, VerdictTypes, KeptInv

LEMMA KeptCounted == ASSUME VerdictInv PROVE KeptPerRun
<1> DEFINE T == Kept \cap Saved
<1>1. \A a, b \in T : a = b
  BY DEF VerdictInv, KeptInv, Kept
<1>2. Kept = Leftovers \cup T
  BY DEF Leftovers
<1>3. Cardinality(Leftovers \cup T) =< restarts + 1
  <2> HIDE DEF T
  <2> QED
    BY <1>1, LeftoversFinite, OneMore DEF VerdictInv, VerdictTypes, KeptInv
<1> QED
  BY <1>2, <1>3 DEF KeptPerRun

LEMMA UpsertFailsKeeps == ASSUME VerdictInv, UpsertFails PROVE VerdictInv'
<1> DEFINE S == Kept' \ Collected
           T == Kept' \cap Collected
<1>1. /\ db' \in [Act -> BOOLEAN \cup {None}] /\ S \subseteq Leftovers
      /\ \A a, b \in T : a = b
  BY UpsertKeeps DEF UpsertFails
<1>2. Kept' = S \cup T
  OBVIOUS
<1>3. IsFiniteSet(S) /\ Cardinality(S) =< restarts
  <2> HIDE DEF S
  <2>1. IsFiniteSet(S) /\ Cardinality(S) =< Cardinality(Leftovers)
    BY <1>1, LeftoversFinite, FS_Subset
  <2>2. Cardinality(S) \in Nat
    BY <2>1, FS_CardinalityType
  <2> QED
    BY <2>1, <2>2, LeftoversFinite DEF VerdictInv, KeptInv, VerdictTypes
<1>4. IsFiniteSet(Kept') /\ Cardinality(Kept') =< restarts + 1
  <2> HIDE DEF S, T
  <2> QED
    BY <1>1, <1>2, <1>3, OneMore DEF VerdictInv, VerdictTypes
<1> QED
  BY <1>1, <1>4, RestartKeeps DEF UpsertFails

LEMMA MapLostKeeps == ASSUME VerdictInv, MapLost PROVE VerdictInv'
<1>1. Kept' = Kept /\ db' \in [Act -> BOOLEAN \cup {None}]
  BY DEF MapLost, Kept, VerdictInv, VerdictTypes
<1> QED
  BY <1>1, KeptCounted, RestartKeeps DEF MapLost, KeptPerRun, VerdictInv, VerdictTypes

LEMMA VerdictStep == VerdictInv /\ [VerdictNext]_verdictVars => VerdictInv'
<1> SUFFICES ASSUME VerdictInv, [VerdictNext]_verdictVars PROVE VerdictInv'
  OBVIOUS
<1>1. CASE UNCHANGED verdictVars
  BY <1>1 DEF verdictVars, VerdictInv, VerdictTypes, KeptInv, Kept, Collected, Saved, Leftovers
<1> QED
  BY <1>1, CollectKeeps, TableKeeps, UpsertFailsKeeps, MapLostKeeps DEF VerdictNext

(* Among the saved acts of the Map one is final, and each final act beside *)
(* it is the leftover of one restart (_loadExistingDecisionLinks, a no-op).  *)
THEOREM KeptInvariant == VerdictSpec => []KeptInv
<1>1. VerdictInv => KeptInv
  BY DEF VerdictInv
<1> QED
  BY VerdictStart, VerdictStep, <1>1, PTL DEF VerdictSpec

(* A case has at most one final act per run of the parser in the table. *)
THEOREM OneFinalPerRun == VerdictSpec => []KeptPerRun
<1> QED
  BY VerdictStart, VerdictStep, KeptCounted, PTL DEF VerdictSpec

(* What the resolver says of the Map changes only with the Map. *)
LEMMA SameFinal ==
  ASSUME info' = info, links' = links PROVE Final(links)' = Final(links)
<1>1. ASSUME NEW l
      PROVE  _pickMainActOfLevel(links, l)' = _pickMainActOfLevel(links, l)
  BY DEF _pickMainActOfLevel, Court, Level, Better, Bucket
<1> QED
  BY <1>1 DEF Final, _resolveCaseFinal, Is, Court, Appeal, OnlyFirst

LEMMA ResolvedKept ==
  ASSUME VerdictInv, SavedIsResolved, [VerdictNext]_verdictVars
  PROVE  SavedIsResolved'
<1>1. ASSUME NEW a \in Act, _collectDecisionLinks(a) PROVE SavedIsResolved'
  <2>1. pending' # {}
    BY <1>1 DEF _collectDecisionLinks
  <2> QED
    BY <2>1 DEF SavedIsResolved
<1>2. CASE _saveDecisionLinks
  <2>1. links' = links /\ Collected' = Collected /\ Final(links)' = Final(links)
    BY <1>2, SameFinal DEF _saveDecisionLinks, Collected
  <2>2. \A a \in Collected : db'[a] = Resolved(links)[a]
    BY <1>2, UpsertKeeps DEF _saveDecisionLinks
  <2>3. \A a \in Collected : Resolved(links)[a] = (a = Final(links))
    BY CollectedActs DEF Resolved, VerdictInv
  <2> QED
    BY <2>1, <2>2, <2>3 DEF SavedIsResolved
<1>3. CASE Restarted
  BY <1>3 DEF Restarted, SavedIsResolved, Collected, ToSet
<1>4. CASE UNCHANGED verdictVars
  BY <1>4, SameFinal DEF verdictVars, SavedIsResolved, Collected
<1> QED
  BY <1>1, <1>2, <1>3, <1>4 DEF VerdictNext, UpsertFails, MapLost

(* After a save the table says of every act of the Map what the resolver    *)
(* says of the whole Map (_saveDecisionLinks).                              *)
THEOREM SavedResolved == VerdictSpec => []SavedIsResolved
<1>1. VerdictInit => SavedIsResolved
  BY DEF VerdictInit, SavedIsResolved, Collected, ToSet
<1> QED
  BY VerdictStart, VerdictStep, <1>1, ResolvedKept, PTL DEF VerdictSpec

-----------------------------------------------------------------------------
(* The order in which the acts of a case are read. *)

\* A set of numbers has a least one: the induction of what follows.
LEMMA LeastOf ==
  ASSUME NEW N \in SUBSET Nat, N # {}
  PROVE  \E m \in N : \A k \in N : m =< k
<1> DEFINE R == OpToRel(<, Nat)
<1>1. IsWellFoundedOn(R, Nat)
  BY NatLessThanWellFounded
<1>2. \E m \in N : \A k \in N : ~ (<<k, m>> \in R)
  <2> HIDE DEF R
  <2> QED
    BY <1>1, WFMin
<1>3. \A m, k \in N : k < m => <<k, m>> \in R
  BY DEF OpToRel
<1>4. \E m \in N : \A k \in N : ~ (k < m)
  BY <1>2, <1>3
<1> QED
  BY <1>4

\* What _pickMainActOfLevel computes: main[n] is the main act of s[1 .. n].
Beats(l, a, best) == Level(a) = l /\ (best = None \/ Better(a, best))

Loop(s, l, main) == main = [n \in 0 .. Len(s) |->
        IF n = 0 THEN None
        ELSE IF Beats(l, s[n], main[n - 1]) THEN s[n] ELSE main[n - 1]]

\* The loop has a result for every sequence.
LEMMA LoopRuns ==
  ASSUME NEW s \in Seq(Act), NEW l
  PROVE  \E main : Loop(s, l, main)
<1> DEFINE Upto(k, f) == f = [n \in 0 .. k |->
             IF n = 0 THEN None ELSE IF Beats(l, s[n], f[n - 1]) THEN s[n] ELSE f[n - 1]]
           Missing == {k \in Nat : ~ \E f : Upto(k, f)}
<1>1. Missing = {}
  <2>1. SUFFICES ASSUME Missing # {} PROVE FALSE
    OBVIOUS
  <2>2. PICK k \in Missing : \A j \in Missing : k =< j
    <3> HIDE DEF Missing
    <3>1. Missing \in SUBSET Nat
      BY DEF Missing
    <3> QED
      BY <2>1, <3>1, LeastOf
  <2>3. k \in Nat /\ ~ \E f : Upto(k, f)
    OBVIOUS
  <2>4. CASE k = 0
    <3>1. Upto(0, [n \in 0 .. 0 |-> None])
      OBVIOUS
    <3> QED
      BY <2>3, <2>4, <3>1
  <2>5. CASE k # 0
    <3>0. k - 1 \in Nat /\ ~ (k =< k - 1)
      BY <2>3, <2>5
    <3>1. k - 1 \in Nat /\ k - 1 \notin Missing
      <4> HIDE DEF Missing
      <4> QED
        BY <2>2, <3>0
    <3>2. PICK f : Upto(k - 1, f)
      BY <3>1
    <3> DEFINE g == [n \in 0 .. k |-> IF n = k THEN IF Beats(l, s[k], f[k - 1]) THEN s[k] ELSE f[k - 1]
                                      ELSE f[n]]
    <3>3. Upto(k, g)
      <4>0. g \in [0 .. k -> {g[n] : n \in 0 .. k}] /\ DOMAIN g = 0 .. k
        OBVIOUS
      <4>1. \A n \in 0 .. k - 1 : g[n] = f[n]
        BY <2>3
      <4>2. \A n \in 0 .. k : n # 0 => n - 1 \in 0 .. k - 1
        BY <2>3
      <4>3. \A n \in 0 .. k : g[n] = IF n = 0 THEN None ELSE IF Beats(l, s[n], g[n - 1]) THEN s[n] ELSE g[n - 1]
        <5> TAKE n \in 0 .. k
        <5>1. CASE n = k
          BY <4>1, <4>2, <5>1, <2>5
        <5>2. CASE n # k
          <6>1. n \in 0 .. k - 1
            BY <2>3, <5>2
          <6>2. f[n] = IF n = 0 THEN None ELSE IF Beats(l, s[n], f[n - 1]) THEN s[n] ELSE f[n - 1]
            <7> HIDE DEF g
            <7> QED
              BY <6>1, <3>2
          <6>3. n # 0 => g[n - 1] = f[n - 1]
            BY <4>1, <4>2
          <6> HIDE DEF g
          <6> QED
            BY <4>1, <6>1, <6>2, <6>3
        <5> QED
          BY <5>1, <5>2
      <4> HIDE DEF g
      <4> QED
        BY <4>0, <4>3
    <3> HIDE DEF g
    <3> QED
      BY <2>3, <3>3
  <2> QED
    BY <2>4, <2>5
<1>2. Len(s) \in Nat
  OBVIOUS
<1>3. \E f : Upto(Len(s), f)
  BY <1>1, <1>2
<1> QED
  BY <1>3 DEF Loop

\* _pickMainActOfLevel is that result.
LEMMA Picked ==
  ASSUME NEW s \in Seq(Act), NEW l
  PROVE  \E main : Loop(s, l, main) /\ _pickMainActOfLevel(s, l) = main[Len(s)]
<1> DEFINE main == CHOOSE m : Loop(s, l, m)
<1>1. Loop(s, l, main)
  BY LoopRuns
<1>2. _pickMainActOfLevel(s, l) = main[Len(s)]
  BY DEF _pickMainActOfLevel, Loop, Beats
<1> QED
  BY <1>1, <1>2

\* What Better compares are numbers.
Ranked(a) == Level(a) \in Nat /\ Bucket(a) \in 0 .. 3 /\ info[a].date \in Nat

\* The main act of a level is one of its best, and there is none only if the
\* level has no act.
IsMain(S, l, m) ==
  \/ m = None /\ \A a \in S : Level(a) # l
  \/ m \in S /\ Level(m) = l /\ \A a \in S : Level(a) = l => ~ Better(a, m)

LEMMA RankType ==
  ASSUME VerdictTypes, NEW a \in Act
  PROVE  Ranked(a)
<1>1. info[a].kind.level \in 0 .. 3 /\ info[a].date \in 1 .. MaxDate
  BY KindAssumption DEF VerdictTypes
<1> QED
  BY <1>1, KindAssumption DEF Ranked, Level, Bucket

\* One more act keeps that.
LEMMA OneMoreSeen ==
  ASSUME NEW S \in SUBSET Act, NEW b \in Act, NEW l, NEW m, IsMain(S, l, m),
         \A a \in Act : Ranked(a)
  PROVE  IsMain(S \cup {b}, l, IF Beats(l, b, m) THEN b ELSE m)
<1>1. None \notin Act
  BY KindAssumption
<1>2. CASE m = None
  BY <1>1, <1>2 DEF IsMain, Beats, Better, Ranked
<1>3. CASE m # None /\ Beats(l, b, m)
  <2>1. m \in S /\ \A a \in S : Level(a) = l => ~ Better(a, m)
    BY <1>3 DEF IsMain
  <2>2. Level(b) = l /\ Better(b, m)
    BY <1>3 DEF Beats
  <2>3. \A a \in S : ~ Better(a, m) => ~ Better(a, b)
    BY <2>1, <2>2 DEF Better, Ranked
  <2>4. ~ Better(b, b)
    BY DEF Better, Ranked
  <2> QED
    BY <1>3, <2>1, <2>2, <2>3, <2>4 DEF IsMain
<1>4. CASE m # None /\ ~ Beats(l, b, m)
  BY <1>4 DEF IsMain, Beats
<1> QED
  BY <1>2, <1>3, <1>4

\* So the loop finds a main act of the acts it sees, in whatever order.
LEMMA PickedIsMain ==
  ASSUME NEW s \in Seq(Act), NEW l, VerdictTypes
  PROVE  IsMain(ToSet(s), l, _pickMainActOfLevel(s, l))
<1> DEFINE First(n) == {s[i] : i \in 1 .. n}
<1>1. PICK main : Loop(s, l, main) /\ _pickMainActOfLevel(s, l) = main[Len(s)]
  BY Picked
<1> DEFINE Wrong == {n \in 0 .. Len(s) : ~ IsMain(First(n), l, main[n])}
<1>2. Len(s) \in Nat /\ DOMAIN s = 1 .. Len(s) /\ \A i \in 1 .. Len(s) : s[i] \in Act
  OBVIOUS
<1>3. main[0] = None
  BY <1>1, <1>2 DEF Loop
<1>4. \A n \in 1 .. Len(s) : main[n] = IF Beats(l, s[n], main[n - 1]) THEN s[n] ELSE main[n - 1]
  <2> TAKE n \in 1 .. Len(s)
  <2>1. n \in 0 .. Len(s) /\ n # 0
    BY <1>2
  <2> QED
    BY <1>1, <2>1, Zenon DEF Loop
<1>5. ASSUME Wrong # {} PROVE FALSE
  <2>1. PICK n \in Wrong : \A j \in Wrong : n =< j
    <3>1. Wrong \in SUBSET Nat
      BY <1>2
    <3> HIDE DEF Wrong
    <3> QED
      BY <1>5, <3>1, LeastOf
  <2>2. n \in 0 .. Len(s) /\ ~ IsMain(First(n), l, main[n])
    OBVIOUS
  <2>3. n # 0
    <3>1. First(0) = {}
      OBVIOUS
    <3> HIDE DEF First
    <3> QED
      BY <1>3, <2>2, <3>1 DEF IsMain
  <2>4. n \in 1 .. Len(s) /\ n - 1 \in 0 .. Len(s) /\ ~ (n =< n - 1)
    BY <1>2, <2>2, <2>3
  <2>5. n - 1 \notin Wrong
    <3> HIDE DEF Wrong
    <3> QED
      BY <2>1, <2>4
  <2>6. IsMain(First(n - 1), l, main[n - 1])
    <3> HIDE DEF First
    <3> QED
      BY <2>4, <2>5
  <2>7. First(n) = First(n - 1) \cup {s[n]} /\ First(n - 1) \in SUBSET Act /\ s[n] \in Act
    BY <1>2, <2>4
  <2>8. \A a \in Act : Ranked(a)
    BY RankType
  <2> HIDE DEF First
  <2>9. IsMain(First(n), l, IF Beats(l, s[n], main[n - 1]) THEN s[n] ELSE main[n - 1])
    <3>1. IsMain(First(n - 1) \cup {s[n]}, l,
                 IF Beats(l, s[n], main[n - 1]) THEN s[n] ELSE main[n - 1])
      <4> DEFINE S == First(n - 1)
                 b == s[n]
                 m == main[n - 1]
      <4>1. S \in SUBSET Act /\ b \in Act /\ IsMain(S, l, m)
        BY <2>6, <2>7
      <4> HIDE DEF S, b, m
      <4>2. IsMain(S \cup {b}, l, IF Beats(l, b, m) THEN b ELSE m)
        BY <2>8, <4>1, OneMoreSeen
      <4> QED
        BY <4>2 DEF S, b, m
    <3> QED
      BY <2>7, <3>1
  <2> QED
    BY <1>4, <2>2, <2>4, <2>9
<1>6. IsMain(First(Len(s)), l, main[Len(s)])
  <2> HIDE DEF First
  <2> QED
    BY <1>2, <1>5
<1>7. First(Len(s)) = ToSet(s)
  BY <1>2 DEF ToSet
<1> HIDE DEF First
<1> QED
  BY <1>1, <1>6, <1>7

\* Without ties there is one main act.
LEMMA MainIsOne ==
  ASSUME VerdictTypes, NoTies,
         NEW l, NEW m1, NEW m2, IsMain(Collected, l, m1), IsMain(Collected, l, m2)
  PROVE  m1 = m2
<1>1. None \notin Act /\ Collected \subseteq Act
  BY KindAssumption, CollectedActs
<1>2. CASE m1 = None \/ m2 = None
  BY <1>1, <1>2 DEF IsMain
<1>3. CASE m1 # None /\ m2 # None
  <2>1. /\ m1 \in Collected /\ m2 \in Collected /\ Level(m1) = l /\ Level(m2) = l
        /\ ~ Better(m1, m2) /\ ~ Better(m2, m1)
    BY <1>3 DEF IsMain
  <2>2. Ranked(m1) /\ Ranked(m2)
    BY <1>1, <2>1, RankType
  <2>3. Bucket(m1) = Bucket(m2) /\ info[m1].date = info[m2].date
    BY <2>1, <2>2 DEF Better, Ranked
  <2> QED
    BY <2>1, <2>3 DEF NoTies
<1> QED
  BY <1>2, <1>3

\* An order of the Map has the acts of the Map.
LEMMA OrderOf ==
  ASSUME VerdictTypes, NEW s \in SetToSeqs(Collected)
  PROVE  s \in Seq(Act) /\ ToSet(s) = Collected
<1> DEFINE c == Cardinality(Collected)
<1>1. IsFiniteSet(Collected)
  <2>1. /\ links \in Seq(Act)
        /\ Len(links) \in Nat /\ DOMAIN links = 1 .. Len(links)
    BY DEF VerdictTypes
  <2>2. IsFiniteSet(1 .. Len(links)) 
    BY <2>1, FS_Interval
  <2>3. links \in Surjection(1 .. Len(links), Collected)
    BY <2>1 DEF Collected, ToSet, Surjection
  <2> QED
    BY <2>2, <2>3, FS_Surjection
<1>2. c \in Nat /\ IsFiniteSet(1 .. c) /\ Cardinality(1 .. c) = c
  BY <1>1, FS_CardinalityType, FS_Interval
<1>3. s \in [1 .. c -> Collected] /\ \A i, j \in 1 .. c : i # j => s[i] # s[j]
  BY DEF SetToSeqs
<1>4. s \in Injection(1 .. c, Collected)
  BY <1>3 DEF Injection, IsInjective
<1>5. s \in Surjection(1 .. c, Collected)
  BY <1>1, <1>2, <1>4, FS_Injection
<1>6. Collected \subseteq Act
  BY CollectedActs
<1>7. s \in Seq(Act)
  BY <1>2, <1>3, <1>6
<1>8. DOMAIN s = 1 .. c
  BY <1>3
<1> QED
  BY <1>3, <1>5, <1>7, <1>8 DEF Surjection, ToSet

LEMMA NeutralOrder == ASSUME VerdictTypes PROVE OrderIsNeutral
<1> SUFFICES ASSUME NoTies, NEW s \in SetToSeqs(Collected) PROVE Final(s) = Final(links)
  BY DEF OrderIsNeutral
<1>1. ASSUME NEW l PROVE _pickMainActOfLevel(s, l) = _pickMainActOfLevel(links, l)
  <2>1. /\ s \in Seq(Act) /\ ToSet(s) = Collected
        /\ links \in Seq(Act) /\ ToSet(links) = Collected
    BY OrderOf DEF Collected, VerdictTypes
  <2>2. /\ IsMain(Collected, l, _pickMainActOfLevel(s, l))
        /\ IsMain(Collected, l, _pickMainActOfLevel(links, l))
    BY <2>1, PickedIsMain
  <2> QED
    BY <2>2, MainIsOne
<1> QED
  BY <1>1 DEF Final
\* The order in which pages and days are read does not decide a case: unless
\* a level has two acts of the same rank and day, every order of the Map has
\* the same final act.
THEOREM OrderNeutral == VerdictSpec => []OrderIsNeutral
<1>1. VerdictInv => OrderIsNeutral
  BY NeutralOrder DEF VerdictInv
<1> QED
  BY VerdictStart, VerdictStep, <1>1, PTL DEF VerdictSpec
=============================================================================
