------------------------- MODULE ActIndexingProofs -------------------------
(***************************************************************************)
(* Proofs about ActIndexing, for any acts, kinds of text, chunks and       *)
(* number of faults.                                                       *)
(***************************************************************************)
EXTENDS ActIndexing, TLAPS

\* Nothing is indexed, worked on or cleaned up at first.
LEMMA InitInv == Init => IndexInv
<1> SUFFICES ASSUME Init PROVE IndexInv
  OBVIOUS
<1>1. TypeOK
  <2>1. kind \in [Act -> {"short", "border", "long", "over"}] /\ keep \in [Act -> BOOLEAN]
    BY IndexAssumption DEF Init
  <2>2. /\ text \in [Act -> BOOLEAN] /\ counted \in [Act -> BOOLEAN]
        /\ long \in [Act -> BOOLEAN] /\ fetching \in [Act -> BOOLEAN]
    BY DEF Init
  <2>3. /\ status \in [Act -> {"pending", "indexing", "indexed"} \cup Failed]
        /\ points \in [Act -> SUBSET ({Full} \cup Chunk)]
        /\ up \in BOOLEAN /\ at \in [Act -> Stage]
    BY DEF Init, Stage, Failed
  <2>4. QED
    BY <2>1, <2>2, <2>3, IndexAssumption DEF Init, TypeOK
<1>2. IndexedIsExact /\ NoOrphans /\ SnapshotHolds /\ CleanupFits
  BY IndexAssumption DEF Init, IndexedIsExact, Exact, NoOrphans, SnapshotHolds, CleanupFits
<1>3. ASSUME NEW a \in Act PROVE StageFits(a) /\ RowFits(a)
  BY <1>3 DEF Init, StageFits, RowFits, ShortStage, LongStage
<1>4. QED
  BY <1>1, <1>2, <1>3 DEF IndexInv

\* Every step keeps the types.
LEMMA TypeStep == TypeOK /\ [Next]_vars => TypeOK'
<1> SUFFICES ASSUME TypeOK, [Next]_vars PROVE TypeOK'
  OBVIOUS
<1> USE IndexAssumption DEF TypeOK, Stage, Failed, Fault, NoFault, Leaves, Dropped, Dies, worker, row, cleanup, history
<1>1. ASSUME NEW a \in Act, Fetch(a) PROVE TypeOK'
  BY <1>1 DEF Fetch
<1>2. ASSUME NEW a \in Act, TextArrives(a) PROVE TypeOK'
  <2>1. PICK more \in BOOLEAN : fetching' = [fetching EXCEPT ![a] = more]
    BY <1>2 DEF TextArrives
  <2>2. fetching' \in [Act -> BOOLEAN] /\ text' \in [Act -> BOOLEAN]
    BY <1>2, <2>1 DEF TextArrives
  <2>3. counted' \in [Act -> BOOLEAN]
    BY <1>2 DEF TextArrives
  <2>4. long' \in [Act -> BOOLEAN]
    <3>1. ByCount(a) \in BOOLEAN
      BY DEF ByCount
    <3>2. QED
      BY <1>2, <3>1 DEF TextArrives
  <2>5. QED
    BY <1>2, <2>2, <2>3, <2>4 DEF TextArrives
<1>3. ASSUME NEW a \in Act, FetchEnds(a) PROVE TypeOK'
  BY <1>3 DEF FetchEnds
<1>4. ASSUME NEW a \in Act, Backfill(a) PROVE TypeOK'
  BY <1>4 DEF Backfill, ByCount
<1>5. CASE Start
  BY <1>5 DEF Start, Recovered
<1>6. CASE WorkerCrash
  <2>1. up' \in BOOLEAN /\ at' \in [Act -> Stage]
    BY <1>6 DEF WorkerCrash
  <2>2. QED
    BY <1>6, <2>1 DEF WorkerCrash
<1>7. CASE Repair
  BY <1>7 DEF Repair
<1>8. CASE Pull
  BY <1>8 DEF Pull
<1>9. CASE Embed
  BY <1>9 DEF Embed
<1>10. ASSUME NEW a \in Act, PostRoute(a) PROVE TypeOK'
  BY <1>10 DEF PostRoute
<1>11. ASSUME NEW a \in Act, Check(a) PROVE TypeOK'
  BY <1>11 DEF Check
<1>12. CASE Fatal
  BY <1>12 DEF Fatal
<1>13. ASSUME NEW a \in Act, Store(a) PROVE TypeOK'
  BY <1>13 DEF Store
<1>14. ASSUME NEW a \in Act, Visible(a) PROVE TypeOK'
  BY <1>14 DEF Visible
<1>15. ASSUME NEW a \in Act, StoreFails(a) PROVE TypeOK'
  BY <1>15 DEF StoreFails
<1>16. ASSUME NEW a \in Act, LongPick(a) PROVE TypeOK'
  BY <1>16 DEF LongPick
<1>17. ASSUME NEW a \in Act, LongCheck(a) PROVE TypeOK'
  BY <1>17 DEF LongCheck, LongGuard
<1>18. ASSUME NEW a \in Act, LongThrows(a) PROVE TypeOK'
  <2>1. up' \in BOOLEAN /\ at' \in [Act -> Stage]
    BY <1>18 DEF LongThrows
  <2>2. QED
    BY <1>18, <2>1 DEF LongThrows
<1>19. ASSUME NEW a \in Act, Clear(a) PROVE TypeOK'
  BY <1>19 DEF Clear
<1>20. ASSUME NEW a \in Act, LateEmbed(a) PROVE TypeOK'
  BY <1>20 DEF LateEmbed
<1>21. ASSUME NEW a \in Act, LateCheck(a) PROVE TypeOK'
  BY <1>21 DEF LateCheck, LongGuard
<1>22. ASSUME NEW a \in Act, Upload(a) PROVE TypeOK'
  BY <1>22 DEF Upload
<1>23. ASSUME NEW a \in Act, LongVisible(a) PROVE TypeOK'
  BY <1>23 DEF LongVisible
<1>24. ASSUME NEW a \in Act, LongFails(a) PROVE TypeOK'
  BY <1>24 DEF LongFails
<1>25. CASE ParserStart
  BY <1>25 DEF ParserStart
<1>26. CASE Save
  BY <1>26 DEF Save
<1>27. CASE SelectInvalid
  BY <1>27 DEF SelectInvalid, Selected
<1>28. CASE SelectFails
  BY <1>28 DEF SelectFails
<1>29. ASSUME NEW a \in Act, Delete(a) PROVE TypeOK'
  BY <1>29 DEF Delete
<1>30. ASSUME NEW a \in Act, DeleteFails(a) PROVE TypeOK'
  BY <1>30 DEF DeleteFails
<1>31. CASE Reset
  BY <1>31 DEF Reset, Cleared
<1>32. CASE ResetFails
  BY <1>32 DEF ResetFails, Torn
<1>33. CASE SweepEnds
  BY <1>33 DEF SweepEnds
<1>34. CASE ParserCrash
  BY <1>34 DEF ParserCrash, Torn
<1>35. CASE UNCHANGED vars
  BY <1>35 DEF vars
<1>36. QED
  BY <1>1, <1>2, <1>3, <1>4, <1>5, <1>6, <1>7, <1>8, <1>9, <1>10, <1>11, <1>12, <1>13,
     <1>14, <1>15, <1>16, <1>17, <1>18, <1>19, <1>20, <1>21, <1>22, <1>23, <1>24, <1>25,
     <1>26, <1>27, <1>28, <1>29, <1>30, <1>31, <1>32, <1>33, <1>34, <1>35
     DEF Next, Pipeline, Working, Short, Long, Sweeping

\* What the clean-up read stays true until it is done with it: a verdict changes only
\* between two clean-ups, and the worker takes no act that is not final.
LEMMA SnapshotStep == IndexInv /\ TypeOK' /\ [Next]_vars => SnapshotHolds'
<1> SUFFICES ASSUME IndexInv, TypeOK', [Next]_vars PROVE SnapshotHolds'
  OBVIOUS
<1> USE IndexAssumption
    DEF IndexInv, TypeOK, Stage, Failed, Fault, NoFault, Leaves, Dropped, Dies,
        worker, row, cleanup, history,
        SnapshotHolds, StageFits, ShortStage, LongStage
<1>1. ASSUME NEW a \in Act, Fetch(a) PROVE SnapshotHolds'
  BY <1>1 DEF Fetch
<1>2. ASSUME NEW a \in Act, TextArrives(a) PROVE SnapshotHolds'
  BY <1>2 DEF TextArrives
<1>3. ASSUME NEW a \in Act, FetchEnds(a) PROVE SnapshotHolds'
  BY <1>3 DEF FetchEnds
<1>4. ASSUME NEW a \in Act, Backfill(a) PROVE SnapshotHolds'
  BY <1>4 DEF Backfill
<1>5. CASE Start
  BY <1>5 DEF Start, Recovered
<1>6. CASE WorkerCrash
  BY <1>6 DEF WorkerCrash
<1>7. CASE Repair
  BY <1>7 DEF Repair, Overshooting, Unroutable, V4, Idle
<1>8. CASE Pull
  BY <1>8 DEF Pull, Queued, V4, Idle
<1>9. CASE Embed
  BY <1>9 DEF Embed, InPart
<1>10. ASSUME NEW a \in Act, PostRoute(a) PROVE SnapshotHolds'
  BY <1>10 DEF PostRoute
<1>11. ASSUME NEW a \in Act, Check(a) PROVE SnapshotHolds'
  BY <1>11 DEF Check, Abandoned
<1>12. CASE Fatal
  BY <1>12 DEF Fatal
<1>13. ASSUME NEW a \in Act, Store(a) PROVE SnapshotHolds'
  BY <1>13 DEF Store
<1>14. ASSUME NEW a \in Act, Visible(a) PROVE SnapshotHolds'
  BY <1>14 DEF Visible
<1>15. ASSUME NEW a \in Act, StoreFails(a) PROVE SnapshotHolds'
  BY <1>15 DEF StoreFails
<1>16. ASSUME NEW a \in Act, LongPick(a) PROVE SnapshotHolds'
  BY <1>16 DEF LongPick, Queued, V4
<1>17. ASSUME NEW a \in Act, LongCheck(a) PROVE SnapshotHolds'
  BY <1>17 DEF LongCheck, LongGuard
<1>18. ASSUME NEW a \in Act, LongThrows(a) PROVE SnapshotHolds'
  BY <1>18 DEF LongThrows
<1>19. ASSUME NEW a \in Act, Clear(a) PROVE SnapshotHolds'
  BY <1>19 DEF Clear
<1>20. ASSUME NEW a \in Act, LateEmbed(a) PROVE SnapshotHolds'
  BY <1>20 DEF LateEmbed
<1>21. ASSUME NEW a \in Act, LateCheck(a) PROVE SnapshotHolds'
  BY <1>21 DEF LateCheck, LongGuard
<1>22. ASSUME NEW a \in Act, Upload(a) PROVE SnapshotHolds'
  BY <1>22 DEF Upload
<1>23. ASSUME NEW a \in Act, LongVisible(a) PROVE SnapshotHolds'
  BY <1>23 DEF LongVisible
<1>24. ASSUME NEW a \in Act, LongFails(a) PROVE SnapshotHolds'
  BY <1>24 DEF LongFails
<1>25. CASE ParserStart
  BY <1>25 DEF ParserStart
<1>26. CASE Save
  BY <1>26 DEF Save, CleanupFits
<1>27. CASE SelectInvalid
  BY <1>27 DEF SelectInvalid, Selected
<1>28. CASE SelectFails
  BY <1>28 DEF SelectFails
<1>29. ASSUME NEW a \in Act, Delete(a) PROVE SnapshotHolds'
  BY <1>29 DEF Delete
<1>30. ASSUME NEW a \in Act, DeleteFails(a) PROVE SnapshotHolds'
  BY <1>30 DEF DeleteFails
<1>31. CASE Reset
  BY <1>31 DEF Reset, Cleared, CleanupFits
<1>32. CASE ResetFails
  BY <1>32 DEF ResetFails, Torn
<1>33. CASE SweepEnds
  BY <1>33 DEF SweepEnds
<1>34. CASE ParserCrash
  BY <1>34 DEF ParserCrash, Torn
<1>35. CASE UNCHANGED vars
  BY <1>35 DEF vars
<1>36. QED
  BY <1>1, <1>2, <1>3, <1>4, <1>5, <1>6, <1>7, <1>8, <1>9, <1>10, <1>11, <1>12,
     <1>13, <1>14, <1>15, <1>16, <1>17, <1>18, <1>19, <1>20, <1>21, <1>22, <1>23,
     <1>24, <1>25, <1>26, <1>27, <1>28, <1>29, <1>30, <1>31, <1>32, <1>33, <1>34,
     <1>35
     DEF Next, Pipeline, Working, Short, Long, Sweeping

\* A clean-up works on one row at a time, whose points are gone or leaked.
LEMMA CleanupStep == IndexInv /\ TypeOK' /\ [Next]_vars => CleanupFits'
<1> SUFFICES ASSUME IndexInv, TypeOK', [Next]_vars PROVE CleanupFits'
  OBVIOUS
<1> USE IndexAssumption
    DEF IndexInv, TypeOK, Stage, Failed, Fault, NoFault, Leaves, Dropped, Dies,
        worker, row, cleanup, history,
        CleanupFits, StageFits, SnapshotHolds, ShortStage, LongStage
<1>1. ASSUME NEW a \in Act, Fetch(a) PROVE CleanupFits'
  BY <1>1 DEF Fetch
<1>2. ASSUME NEW a \in Act, TextArrives(a) PROVE CleanupFits'
  BY <1>2 DEF TextArrives
<1>3. ASSUME NEW a \in Act, FetchEnds(a) PROVE CleanupFits'
  BY <1>3 DEF FetchEnds
<1>4. ASSUME NEW a \in Act, Backfill(a) PROVE CleanupFits'
  BY <1>4 DEF Backfill
<1>5. CASE Start
  BY <1>5 DEF Start, Recovered
<1>6. CASE WorkerCrash
  BY <1>6 DEF WorkerCrash
<1>7. CASE Repair
  BY <1>7 DEF Repair, Overshooting, Unroutable, V4, Idle
<1>8. CASE Pull
  BY <1>8 DEF Pull, Queued, V4, Idle
<1>9. CASE Embed
  BY <1>9 DEF Embed, InPart
<1>10. ASSUME NEW a \in Act, PostRoute(a) PROVE CleanupFits'
  BY <1>10 DEF PostRoute
<1>11. ASSUME NEW a \in Act, Check(a) PROVE CleanupFits'
  BY <1>11 DEF Check, Abandoned
<1>12. CASE Fatal
  BY <1>12 DEF Fatal
<1>13. ASSUME NEW a \in Act, Store(a) PROVE CleanupFits'
  BY <1>13 DEF Store
<1>14. ASSUME NEW a \in Act, Visible(a) PROVE CleanupFits'
  BY <1>14 DEF Visible
<1>15. ASSUME NEW a \in Act, StoreFails(a) PROVE CleanupFits'
  BY <1>15 DEF StoreFails
<1>16. ASSUME NEW a \in Act, LongPick(a) PROVE CleanupFits'
  BY <1>16 DEF LongPick, Queued, V4
<1>17. ASSUME NEW a \in Act, LongCheck(a) PROVE CleanupFits'
  BY <1>17 DEF LongCheck, LongGuard
<1>18. ASSUME NEW a \in Act, LongThrows(a) PROVE CleanupFits'
  BY <1>18 DEF LongThrows
<1>19. ASSUME NEW a \in Act, Clear(a) PROVE CleanupFits'
  BY <1>19 DEF Clear
<1>20. ASSUME NEW a \in Act, LateEmbed(a) PROVE CleanupFits'
  BY <1>20 DEF LateEmbed
<1>21. ASSUME NEW a \in Act, LateCheck(a) PROVE CleanupFits'
  BY <1>21 DEF LateCheck, LongGuard
<1>22. ASSUME NEW a \in Act, Upload(a) PROVE CleanupFits'
  BY <1>22 DEF Upload
<1>23. ASSUME NEW a \in Act, LongVisible(a) PROVE CleanupFits'
  BY <1>23 DEF LongVisible
<1>24. ASSUME NEW a \in Act, LongFails(a) PROVE CleanupFits'
  BY <1>24 DEF LongFails
<1>25. CASE ParserStart
  BY <1>25 DEF ParserStart
<1>26. CASE Save
  BY <1>26 DEF Save
<1>27. CASE SelectInvalid
  BY <1>27 DEF SelectInvalid, Selected
<1>28. CASE SelectFails
  BY <1>28 DEF SelectFails
<1>29. ASSUME NEW a \in Act, Delete(a) PROVE CleanupFits'
  BY <1>29 DEF Delete
<1>30. ASSUME NEW a \in Act, DeleteFails(a) PROVE CleanupFits'
  BY <1>30 DEF DeleteFails
<1>31. CASE Reset
  BY <1>31 DEF Reset, Cleared
<1>32. CASE ResetFails
  BY <1>32 DEF ResetFails, Torn
<1>33. CASE SweepEnds
  BY <1>33 DEF SweepEnds
<1>34. CASE ParserCrash
  BY <1>34 DEF ParserCrash, Torn
<1>35. CASE UNCHANGED vars
  BY <1>35 DEF vars
<1>36. QED
  BY <1>1, <1>2, <1>3, <1>4, <1>5, <1>6, <1>7, <1>8, <1>9, <1>10, <1>11, <1>12,
     <1>13, <1>14, <1>15, <1>16, <1>17, <1>18, <1>19, <1>20, <1>21, <1>22, <1>23,
     <1>24, <1>25, <1>26, <1>27, <1>28, <1>29, <1>30, <1>31, <1>32, <1>33, <1>34,
     <1>35
     DEF Next, Pipeline, Working, Short, Long, Sweeping

\* The worker is at a stage that fits the text, and its row is 'indexing' meanwhile.
LEMMA StageStep == IndexInv /\ TypeOK' /\ [Next]_vars => \A b \in Act : StageFits(b)'
<1> SUFFICES ASSUME IndexInv, TypeOK', [Next]_vars, NEW b \in Act PROVE StageFits(b)'
  OBVIOUS
<1> USE IndexAssumption
    DEF IndexInv, TypeOK, Stage, Failed, Fault, NoFault, Leaves, Dropped, Dies,
        worker, row, cleanup, history,
        StageFits, SnapshotHolds, ShortStage, LongStage
<1>1. ASSUME NEW a \in Act, Fetch(a) PROVE StageFits(b)'
  BY <1>1 DEF Fetch
<1>2. ASSUME NEW a \in Act, TextArrives(a) PROVE StageFits(b)'
  BY <1>2 DEF TextArrives
<1>3. ASSUME NEW a \in Act, FetchEnds(a) PROVE StageFits(b)'
  BY <1>3 DEF FetchEnds
<1>4. ASSUME NEW a \in Act, Backfill(a) PROVE StageFits(b)'
  BY <1>4 DEF Backfill
<1>5. CASE Start
  BY <1>5 DEF Start, Recovered
<1>6. CASE WorkerCrash
  BY <1>6 DEF WorkerCrash
<1>7. CASE Repair
  BY <1>7 DEF Repair, Overshooting, Unroutable, V4, Idle
<1>8. CASE Pull
  BY <1>8 DEF Pull, Queued, V4, Idle
<1>9. CASE Embed
  BY <1>9 DEF Embed, InPart
<1>10. ASSUME NEW a \in Act, PostRoute(a) PROVE StageFits(b)'
  BY <1>10 DEF PostRoute
<1>11. ASSUME NEW a \in Act, Check(a) PROVE StageFits(b)'
  BY <1>11 DEF Check, Abandoned
<1>12. CASE Fatal
  BY <1>12 DEF Fatal
<1>13. ASSUME NEW a \in Act, Store(a) PROVE StageFits(b)'
  BY <1>13 DEF Store
<1>14. ASSUME NEW a \in Act, Visible(a) PROVE StageFits(b)'
  BY <1>14 DEF Visible
<1>15. ASSUME NEW a \in Act, StoreFails(a) PROVE StageFits(b)'
  BY <1>15 DEF StoreFails
<1>16. ASSUME NEW a \in Act, LongPick(a) PROVE StageFits(b)'
  <2>1. kind[a] = "long"
    BY <1>16 DEF LongPick, V4
  <2>2. QED
    BY <1>16, <2>1 DEF LongPick, Idle
<1>17. ASSUME NEW a \in Act, LongCheck(a) PROVE StageFits(b)'
  BY <1>17 DEF LongCheck, LongGuard
<1>18. ASSUME NEW a \in Act, LongThrows(a) PROVE StageFits(b)'
  BY <1>18 DEF LongThrows
<1>19. ASSUME NEW a \in Act, Clear(a) PROVE StageFits(b)'
  BY <1>19 DEF Clear
<1>20. ASSUME NEW a \in Act, LateEmbed(a) PROVE StageFits(b)'
  BY <1>20 DEF LateEmbed
<1>21. ASSUME NEW a \in Act, LateCheck(a) PROVE StageFits(b)'
  BY <1>21 DEF LateCheck, LongGuard
<1>22. ASSUME NEW a \in Act, Upload(a) PROVE StageFits(b)'
  BY <1>22 DEF Upload
<1>23. ASSUME NEW a \in Act, LongVisible(a) PROVE StageFits(b)'
  BY <1>23 DEF LongVisible
<1>24. ASSUME NEW a \in Act, LongFails(a) PROVE StageFits(b)'
  BY <1>24 DEF LongFails
<1>25. CASE ParserStart
  BY <1>25 DEF ParserStart
<1>26. CASE Save
  BY <1>26 DEF Save
<1>27. CASE SelectInvalid
  BY <1>27 DEF SelectInvalid, Selected
<1>28. CASE SelectFails
  BY <1>28 DEF SelectFails
<1>29. ASSUME NEW a \in Act, Delete(a) PROVE StageFits(b)'
  BY <1>29 DEF Delete
<1>30. ASSUME NEW a \in Act, DeleteFails(a) PROVE StageFits(b)'
  BY <1>30 DEF DeleteFails
<1>31. CASE Reset
  BY <1>31 DEF Reset, Cleared
<1>32. CASE ResetFails
  BY <1>32 DEF ResetFails, Torn
<1>33. CASE SweepEnds
  BY <1>33 DEF SweepEnds
<1>34. CASE ParserCrash
  BY <1>34 DEF ParserCrash, Torn
<1>35. CASE UNCHANGED vars
  BY <1>35 DEF vars
<1>36. QED
  BY <1>1, <1>2, <1>3, <1>4, <1>5, <1>6, <1>7, <1>8, <1>9, <1>10, <1>11, <1>12,
     <1>13, <1>14, <1>15, <1>16, <1>17, <1>18, <1>19, <1>20, <1>21, <1>22, <1>23,
     <1>24, <1>25, <1>26, <1>27, <1>28, <1>29, <1>30, <1>31, <1>32, <1>33, <1>34,
     <1>35
     DEF Next, Pipeline, Working, Short, Long, Sweeping

\* Points and status fit the text: the routes to the two queues never cross.
LEMMA RowStep == IndexInv /\ TypeOK' /\ [Next]_vars => \A b \in Act : RowFits(b)'
<1> SUFFICES ASSUME IndexInv, TypeOK', [Next]_vars, NEW b \in Act PROVE RowFits(b)'
  OBVIOUS
<1> USE IndexAssumption
    DEF IndexInv, TypeOK, Stage, Failed, Fault, NoFault, Leaves, Dropped, Dies,
        worker, row, cleanup, history,
        RowFits, PointsOfKind, StageFits, SnapshotHolds, ShortStage, LongStage
<1>1. ASSUME NEW a \in Act, Fetch(a) PROVE RowFits(b)'
  BY <1>1 DEF Fetch
<1>2. ASSUME NEW a \in Act, TextArrives(a) PROVE RowFits(b)'
  <2>1. counted[a] => counted'[a] /\ (long'[a] <=> kind[a] \in {"long", "over"})
    BY <1>2 DEF TextArrives, ByCount
  <2>2. /\ text'[a] /\ status' = status /\ points' = points /\ kind' = kind
        /\ \A c \in Act \ {a} : text'[c] = text[c] /\ counted'[c] = counted[c]
                                 /\ long'[c] = long[c]
    BY <1>2 DEF TextArrives
  <2>3. QED
    BY <2>1, <2>2
<1>3. ASSUME NEW a \in Act, FetchEnds(a) PROVE RowFits(b)'
  BY <1>3 DEF FetchEnds
<1>4. ASSUME NEW a \in Act, Backfill(a) PROVE RowFits(b)'
  BY <1>4 DEF Backfill
<1>5. CASE Start
  BY <1>5 DEF Start, Recovered
<1>6. CASE WorkerCrash
  BY <1>6 DEF WorkerCrash
<1>7. CASE Repair
  BY <1>7 DEF Repair, Overshooting, Unroutable, V4, Idle
<1>8. CASE Pull
  BY <1>8 DEF Pull, Queued, V4, Idle
<1>9. CASE Embed
  BY <1>9 DEF Embed, InPart
<1>10. ASSUME NEW a \in Act, PostRoute(a) PROVE RowFits(b)'
  BY <1>10 DEF PostRoute
<1>11. ASSUME NEW a \in Act, Check(a) PROVE RowFits(b)'
  BY <1>11 DEF Check, Abandoned
<1>12. CASE Fatal
  BY <1>12 DEF Fatal
<1>13. ASSUME NEW a \in Act, Store(a) PROVE RowFits(b)'
  BY <1>13 DEF Store
<1>14. ASSUME NEW a \in Act, Visible(a) PROVE RowFits(b)'
  BY <1>14 DEF Visible
<1>15. ASSUME NEW a \in Act, StoreFails(a) PROVE RowFits(b)'
  BY <1>15 DEF StoreFails
<1>16. ASSUME NEW a \in Act, LongPick(a) PROVE RowFits(b)'
  BY <1>16 DEF LongPick, Queued, V4
<1>17. ASSUME NEW a \in Act, LongCheck(a) PROVE RowFits(b)'
  BY <1>17 DEF LongCheck, LongGuard
<1>18. ASSUME NEW a \in Act, LongThrows(a) PROVE RowFits(b)'
  BY <1>18 DEF LongThrows
<1>19. ASSUME NEW a \in Act, Clear(a) PROVE RowFits(b)'
  BY <1>19 DEF Clear
<1>20. ASSUME NEW a \in Act, LateEmbed(a) PROVE RowFits(b)'
  BY <1>20 DEF LateEmbed
<1>21. ASSUME NEW a \in Act, LateCheck(a) PROVE RowFits(b)'
  BY <1>21 DEF LateCheck, LongGuard
<1>22. ASSUME NEW a \in Act, Upload(a) PROVE RowFits(b)'
  BY <1>22 DEF Upload
<1>23. ASSUME NEW a \in Act, LongVisible(a) PROVE RowFits(b)'
  BY <1>23 DEF LongVisible
<1>24. ASSUME NEW a \in Act, LongFails(a) PROVE RowFits(b)'
  BY <1>24 DEF LongFails
<1>25. CASE ParserStart
  BY <1>25 DEF ParserStart
<1>26. CASE Save
  BY <1>26 DEF Save
<1>27. CASE SelectInvalid
  BY <1>27 DEF SelectInvalid, Selected
<1>28. CASE SelectFails
  BY <1>28 DEF SelectFails
<1>29. ASSUME NEW a \in Act, Delete(a) PROVE RowFits(b)'
  BY <1>29 DEF Delete
<1>30. ASSUME NEW a \in Act, DeleteFails(a) PROVE RowFits(b)'
  BY <1>30 DEF DeleteFails
<1>31. CASE Reset
  BY <1>31 DEF Reset, Cleared
<1>32. CASE ResetFails
  BY <1>32 DEF ResetFails, Torn
<1>33. CASE SweepEnds
  BY <1>33 DEF SweepEnds
<1>34. CASE ParserCrash
  BY <1>34 DEF ParserCrash, Torn
<1>35. CASE UNCHANGED vars
  BY <1>35 DEF vars
<1>36. QED
  BY <1>1, <1>2, <1>3, <1>4, <1>5, <1>6, <1>7, <1>8, <1>9, <1>10, <1>11, <1>12,
     <1>13, <1>14, <1>15, <1>16, <1>17, <1>18, <1>19, <1>20, <1>21, <1>22, <1>23,
     <1>24, <1>25, <1>26, <1>27, <1>28, <1>29, <1>30, <1>31, <1>32, <1>33, <1>34,
     <1>35
     DEF Next, Pipeline, Working, Short, Long, Sweeping

\* Only the last upload is followed by 'indexed', and only a clean-up deletes
\* points of a row that says so.
LEMMA ExactStep == IndexInv /\ TypeOK' /\ [Next]_vars => IndexedIsExact'
<1> SUFFICES ASSUME IndexInv, TypeOK', [Next]_vars, NEW b \in Act PROVE Exact(b)'
  BY DEF IndexedIsExact
<1> USE IndexAssumption
    DEF IndexInv, TypeOK, Stage, Failed, Fault, NoFault, Leaves, Dropped, Dies,
        worker, row, cleanup, history,
        IndexedIsExact, Exact, Wanted, RowFits, PointsOfKind, StageFits, SnapshotHolds, ShortStage, LongStage
<1>1. ASSUME NEW a \in Act, Fetch(a) PROVE Exact(b)'
  BY <1>1 DEF Fetch
<1>2. ASSUME NEW a \in Act, TextArrives(a) PROVE Exact(b)'
  <2>1. counted[a] => (long'[a] <=> kind[a] \in {"long", "over"})
    BY <1>2 DEF TextArrives, ByCount
  <2>2. /\ status' = status /\ points' = points /\ clearing' = clearing /\ torn' = torn
        /\ \A c \in Act \ {a} : long'[c] = long[c]
    BY <1>2 DEF TextArrives
  <2>3. QED
    BY <2>1, <2>2
<1>3. ASSUME NEW a \in Act, FetchEnds(a) PROVE Exact(b)'
  BY <1>3 DEF FetchEnds
<1>4. ASSUME NEW a \in Act, Backfill(a) PROVE Exact(b)'
  BY <1>4 DEF Backfill
<1>5. CASE Start
  BY <1>5 DEF Start, Recovered
<1>6. CASE WorkerCrash
  BY <1>6 DEF WorkerCrash
<1>7. CASE Repair
  BY <1>7 DEF Repair, Overshooting, Unroutable, V4, Idle
<1>8. CASE Pull
  BY <1>8 DEF Pull, Queued, V4, Idle
<1>9. CASE Embed
  BY <1>9 DEF Embed, InPart
<1>10. ASSUME NEW a \in Act, PostRoute(a) PROVE Exact(b)'
  BY <1>10 DEF PostRoute
<1>11. ASSUME NEW a \in Act, Check(a) PROVE Exact(b)'
  BY <1>11 DEF Check, Abandoned
<1>12. CASE Fatal
  BY <1>12 DEF Fatal
<1>13. ASSUME NEW a \in Act, Store(a) PROVE Exact(b)'
  <2>1. status[a] = "indexing"
    BY <1>13 DEF Store
  <2>2. /\ \A c \in Act \ {a} : points'[c] = points[c] /\ status'[c] = status[c]
        /\ status'[a] # "indexed"
        /\ long' = long /\ kind' = kind /\ clearing' = clearing /\ torn' = torn
    BY <1>13, <2>1 DEF Store
  <2>3. Exact(b)
    OBVIOUS
  <2>4. QED
    BY <2>2, <2>3
<1>14. ASSUME NEW a \in Act, Visible(a) PROVE Exact(b)'
  BY <1>14 DEF Visible
<1>15. ASSUME NEW a \in Act, StoreFails(a) PROVE Exact(b)'
  <2>1. status[a] = "indexing"
    BY <1>15 DEF StoreFails
  <2>2. /\ \A c \in Act \ {a} : points'[c] = points[c] /\ status'[c] = status[c]
        /\ status'[a] # "indexed"
        /\ long' = long /\ kind' = kind /\ clearing' = clearing /\ torn' = torn
    BY <1>15, <2>1 DEF StoreFails
  <2>3. Exact(b)
    OBVIOUS
  <2>4. QED
    BY <2>2, <2>3
<1>16. ASSUME NEW a \in Act, LongPick(a) PROVE Exact(b)'
  BY <1>16 DEF LongPick, Queued, V4
<1>17. ASSUME NEW a \in Act, LongCheck(a) PROVE Exact(b)'
  BY <1>17 DEF LongCheck, LongGuard
<1>18. ASSUME NEW a \in Act, LongThrows(a) PROVE Exact(b)'
  BY <1>18 DEF LongThrows
<1>19. ASSUME NEW a \in Act, Clear(a) PROVE Exact(b)'
  <2>1. status[a] = "indexing"
    BY <1>19 DEF Clear
  <2>2. /\ \A c \in Act \ {a} : points'[c] = points[c] /\ status'[c] = status[c]
        /\ status'[a] # "indexed"
        /\ long' = long /\ kind' = kind /\ clearing' = clearing /\ torn' = torn
    BY <1>19, <2>1 DEF Clear
  <2>3. Exact(b)
    OBVIOUS
  <2>4. QED
    BY <2>2, <2>3
<1>20. ASSUME NEW a \in Act, LateEmbed(a) PROVE Exact(b)'
  BY <1>20 DEF LateEmbed
<1>21. ASSUME NEW a \in Act, LateCheck(a) PROVE Exact(b)'
  BY <1>21 DEF LateCheck, LongGuard
<1>22. ASSUME NEW a \in Act, Upload(a) PROVE Exact(b)'
  <2>1. status[a] = "indexing"
    BY <1>22 DEF Upload
  <2>2. /\ \A c \in Act \ {a} : points'[c] = points[c] /\ status'[c] = status[c]
        /\ status'[a] # "indexed"
        /\ long' = long /\ kind' = kind /\ clearing' = clearing /\ torn' = torn
    BY <1>22, <2>1 DEF Upload
  <2>3. Exact(b)
    OBVIOUS
  <2>4. QED
    BY <2>2, <2>3
<1>23. ASSUME NEW a \in Act, LongVisible(a) PROVE Exact(b)'
  <2>1. /\ kind[a] = "long" /\ points[a] \subseteq Chunk /\ Chunk \subseteq points[a]
        /\ long'[a] /\ points' = points
    BY <1>23 DEF LongVisible
  <2>2. \A c \in Act \ {a} : status'[c] = status[c] /\ long'[c] = long[c]
    BY <1>23 DEF LongVisible
  <2>3. clearing' = clearing /\ torn' = torn
    BY <1>23 DEF LongVisible
  <2>4. points[a] = Chunk
    BY <2>1
  <2>5. QED
    BY <2>1, <2>2, <2>3, <2>4
<1>24. ASSUME NEW a \in Act, LongFails(a) PROVE Exact(b)'
  <2>1. status[a] = "indexing"
    BY <1>24 DEF LongFails
  <2>2. /\ \A c \in Act \ {a} : points'[c] = points[c] /\ status'[c] = status[c]
        /\ status'[a] # "indexed"
        /\ long' = long /\ kind' = kind /\ clearing' = clearing /\ torn' = torn
    BY <1>24, <2>1 DEF LongFails
  <2>3. Exact(b)
    OBVIOUS
  <2>4. QED
    BY <2>2, <2>3
<1>25. CASE ParserStart
  BY <1>25 DEF ParserStart
<1>26. CASE Save
  BY <1>26 DEF Save
<1>27. CASE SelectInvalid
  BY <1>27 DEF SelectInvalid, Selected
<1>28. CASE SelectFails
  BY <1>28 DEF SelectFails
<1>29. ASSUME NEW a \in Act, Delete(a) PROVE Exact(b)'
  <2>1. /\ clearing = NoAct /\ clearing' = a /\ torn' = torn
        /\ status' = status /\ long' = long
        /\ \A c \in Act \ {a} : points'[c] = points[c]
    BY <1>29 DEF Delete
  <2>2. QED
    BY <2>1
<1>30. ASSUME NEW a \in Act, DeleteFails(a) PROVE Exact(b)'
  BY <1>30 DEF DeleteFails
<1>31. CASE Reset
  BY <1>31 DEF Reset, Cleared
<1>32. CASE ResetFails
  BY <1>32 DEF ResetFails, Torn
<1>33. CASE SweepEnds
  BY <1>33 DEF SweepEnds
<1>34. CASE ParserCrash
  BY <1>34 DEF ParserCrash, Torn
<1>35. CASE UNCHANGED vars
  BY <1>35 DEF vars
<1>36. QED
  BY <1>1, <1>2, <1>3, <1>4, <1>5, <1>6, <1>7, <1>8, <1>9, <1>10, <1>11, <1>12,
     <1>13, <1>14, <1>15, <1>16, <1>17, <1>18, <1>19, <1>20, <1>21, <1>22, <1>23,
     <1>24, <1>25, <1>26, <1>27, <1>28, <1>29, <1>30, <1>31, <1>32, <1>33, <1>34,
     <1>35
     DEF Next, Pipeline, Working, Short, Long, Sweeping

\* The text and the status go only after the points.
LEMMA OrphanStep == IndexInv /\ TypeOK' /\ [Next]_vars => NoOrphans'
<1> SUFFICES ASSUME IndexInv, TypeOK', [Next]_vars PROVE NoOrphans'
  OBVIOUS
<1> USE IndexAssumption
    DEF IndexInv, TypeOK, Stage, Failed, Fault, NoFault, Leaves, Dropped, Dies,
        worker, row, cleanup, history,
        NoOrphans, RowFits, StageFits, SnapshotHolds, CleanupFits, ShortStage, LongStage
<1>1. ASSUME NEW a \in Act, Fetch(a) PROVE NoOrphans'
  BY <1>1 DEF Fetch
<1>2. ASSUME NEW a \in Act, TextArrives(a) PROVE NoOrphans'
  BY <1>2 DEF TextArrives
<1>3. ASSUME NEW a \in Act, FetchEnds(a) PROVE NoOrphans'
  BY <1>3 DEF FetchEnds
<1>4. ASSUME NEW a \in Act, Backfill(a) PROVE NoOrphans'
  BY <1>4 DEF Backfill
<1>5. CASE Start
  BY <1>5 DEF Start, Recovered
<1>6. CASE WorkerCrash
  BY <1>6 DEF WorkerCrash
<1>7. CASE Repair
  BY <1>7 DEF Repair, Overshooting, Unroutable, V4, Idle
<1>8. CASE Pull
  BY <1>8 DEF Pull, Queued, V4, Idle
<1>9. CASE Embed
  BY <1>9 DEF Embed, InPart
<1>10. ASSUME NEW a \in Act, PostRoute(a) PROVE NoOrphans'
  BY <1>10 DEF PostRoute
<1>11. ASSUME NEW a \in Act, Check(a) PROVE NoOrphans'
  BY <1>11 DEF Check, Abandoned
<1>12. CASE Fatal
  BY <1>12 DEF Fatal
<1>13. ASSUME NEW a \in Act, Store(a) PROVE NoOrphans'
  BY <1>13 DEF Store
<1>14. ASSUME NEW a \in Act, Visible(a) PROVE NoOrphans'
  BY <1>14 DEF Visible
<1>15. ASSUME NEW a \in Act, StoreFails(a) PROVE NoOrphans'
  BY <1>15 DEF StoreFails
<1>16. ASSUME NEW a \in Act, LongPick(a) PROVE NoOrphans'
  BY <1>16 DEF LongPick, Queued, V4
<1>17. ASSUME NEW a \in Act, LongCheck(a) PROVE NoOrphans'
  BY <1>17 DEF LongCheck, LongGuard
<1>18. ASSUME NEW a \in Act, LongThrows(a) PROVE NoOrphans'
  BY <1>18 DEF LongThrows
<1>19. ASSUME NEW a \in Act, Clear(a) PROVE NoOrphans'
  BY <1>19 DEF Clear
<1>20. ASSUME NEW a \in Act, LateEmbed(a) PROVE NoOrphans'
  BY <1>20 DEF LateEmbed
<1>21. ASSUME NEW a \in Act, LateCheck(a) PROVE NoOrphans'
  BY <1>21 DEF LateCheck, LongGuard
<1>22. ASSUME NEW a \in Act, Upload(a) PROVE NoOrphans'
  BY <1>22 DEF Upload
<1>23. ASSUME NEW a \in Act, LongVisible(a) PROVE NoOrphans'
  BY <1>23 DEF LongVisible
<1>24. ASSUME NEW a \in Act, LongFails(a) PROVE NoOrphans'
  BY <1>24 DEF LongFails
<1>25. CASE ParserStart
  BY <1>25 DEF ParserStart
<1>26. CASE Save
  BY <1>26 DEF Save
<1>27. CASE SelectInvalid
  BY <1>27 DEF SelectInvalid, Selected
<1>28. CASE SelectFails
  BY <1>28 DEF SelectFails
<1>29. ASSUME NEW a \in Act, Delete(a) PROVE NoOrphans'
  BY <1>29 DEF Delete
<1>30. ASSUME NEW a \in Act, DeleteFails(a) PROVE NoOrphans'
  BY <1>30 DEF DeleteFails
<1>31. CASE Reset
  BY <1>31 DEF Reset, Cleared
<1>32. CASE ResetFails
  BY <1>32 DEF ResetFails, Torn
<1>33. CASE SweepEnds
  BY <1>33 DEF SweepEnds
<1>34. CASE ParserCrash
  BY <1>34 DEF ParserCrash, Torn
<1>35. CASE UNCHANGED vars
  BY <1>35 DEF vars
<1>36. QED
  BY <1>1, <1>2, <1>3, <1>4, <1>5, <1>6, <1>7, <1>8, <1>9, <1>10, <1>11, <1>12,
     <1>13, <1>14, <1>15, <1>16, <1>17, <1>18, <1>19, <1>20, <1>21, <1>22, <1>23,
     <1>24, <1>25, <1>26, <1>27, <1>28, <1>29, <1>30, <1>31, <1>32, <1>33, <1>34,
     <1>35
     DEF Next, Pipeline, Working, Short, Long, Sweeping

\* The inductive invariant: the types, what the worker holds, what a clean-up
\* holds, and where points may be.
THEOREM IndexInvariant == Spec => []IndexInv
<1>1. IndexInv /\ [Next]_vars => IndexInv'
  <2> SUFFICES ASSUME IndexInv, [Next]_vars PROVE IndexInv'
    OBVIOUS
  <2>1. TypeOK'
    BY TypeStep DEF IndexInv
  <2>2. QED
    BY <2>1, SnapshotStep, CleanupStep, StageStep, RowStep, ExactStep, OrphanStep
       DEF IndexInv
<1>2. QED
  BY <1>1, InitInv, PTL DEF Spec

\* Type correctness.
THEOREM Typing == Spec => []TypeOK
<1>1. IndexInv => TypeOK
  BY DEF IndexInv
<1>2. QED
  BY <1>1, IndexInvariant, PTL

\* An indexed act has exactly its points, whatever crashes, failing calls and
\* verdict changes came before, unless a clean-up deleted them without resetting
\* the row: it was cut off, or told that the deletion had failed.
THEOREM IndexedExactly == Spec => []IndexedIsExact
<1>1. IndexInv => IndexedIsExact
  BY DEF IndexInv
<1>2. QED
  BY <1>1, IndexInvariant, PTL

\* No point is left that no clean-up would look for, unless a failed deletion was
\* ignored.
THEOREM NothingOrphaned == Spec => []NoOrphans
<1>1. IndexInv => NoOrphans
  BY DEF IndexInv
<1>2. QED
  BY <1>1, IndexInvariant, PTL

\* The worker and the clean-up never work on the same act.
THEOREM CleanupIsAlone == Spec => []SnapshotHolds
<1>1. IndexInv => SnapshotHolds
  BY DEF IndexInv
<1>2. QED
  BY <1>1, IndexInvariant, PTL
=============================================================================
