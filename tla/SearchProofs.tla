---------------------------- MODULE SearchProofs ----------------------------
(* Proofs about the two sides of the search service, for any searches, any  *)
(* reports and any numbers of failing calls and restarts: the reports its   *)
(* clients are shown (SearchReports) and the priority of its searches over  *)
(* the embedding worker (SearchPriority).                                   *)
EXTENDS SearchReports, SearchPriority, TLAPS

-----------------------------------------------------------------------------
(* Reports. *)

LEMMA InitInv == Init => ReportsInv
<1> SUFFICES ASSUME Init PROVE ReportsInv
  OBVIOUS
<1>1. rep \in [Docz -> Row]
  BY DEF Init, Row
<1>2. \A d \in Docz : rep[d].status = "absent"
  BY DEF Init
<1>3. TypeOK
  <2>1. pc \in [Fill -> Live \cup {"new", "done", "dead"}]
    BY DEF Init
  <2>2. docOf \in [Fill -> Docz \cup {NoDocz}]
    BY DEF Init
  <2>3. told \in [Fill -> {"none", "completed", "failed", "missing"}]
    BY DEF Init
  <2>4. restarts \in 0..MaxRestarts /\ faults \in 0..MaxFaults
    BY ReportsAssumption DEF Init
  <2>5. QED
    BY <1>1, <2>1, <2>2, <2>3, <2>4 DEF Init, TypeOK
<1>4. QED
  BY <1>2, <1>3 DEF Init, ReportsInv, AtWork, RowOfFill, OverlapKnown, OwnAnswers,
                    StoredFirst, ResultFitsAnswers, Filling, Live, Marked

\* What a statement on one row does to the others: nothing.
LEMMA OneRow ==
  ASSUME TypeOK, NEW d \in Docz, NEW new \in Row, rep' = [rep EXCEPT ![d] = new]
  PROVE  /\ rep' \in [Docz -> Row] /\ rep'[d] = new
         /\ \A e \in Docz : e # d => rep'[e] = rep[e]
BY DEF TypeOK

\* The rows the statements write.
LEMMA RowTypes ==
  ASSUME NEW new \in Row
  PROVE  /\ [new EXCEPT !.status = "created"] \in Row
         /\ [new EXCEPT !.old = TRUE] \in Row
         /\ [new EXCEPT !.status = "error", !.old = FALSE] \in Row
BY DEF Row

LEMMA FillRowTypes ==
  ASSUME NEW new \in Row, NEW f \in Fill
  PROVE  /\ RunningRow(new, f) \in Row
         /\ [new EXCEPT !.status = "completed", !.result = f, !.old = FALSE] \in Row
BY DEF Row, RunningRow

\* The answers are this fill's now, and an overlap is noticed or over.
LEMMA MarkRunningInv == ASSUME ReportsInv, NEW f \in Fill, MarkRunning(f) PROVE ReportsInv'
<1> USE ReportsAssumption DEF Filling, Marked, Live, Fault, NoFault
<1>0. /\ TypeOK /\ AtWork /\ RowOfFill /\ OverlapKnown /\ OwnAnswers /\ StoredFirst
      /\ ResultFitsAnswers
  BY DEF ReportsInv
<1>1. docOf[f] \in Docz /\ rep[docOf[f]] \in Row
  BY <1>0 DEF MarkRunning, AtWork, TypeOK
<1>2. ASSUME rep' = [rep EXCEPT ![docOf[f]] = RunningRow(rep[docOf[f]], f)]
     PROVE  /\ rep' \in [Docz -> Row]
            /\ rep'[docOf[f]].answers = f /\ ~rep'[docOf[f]].old
            /\ rep'[docOf[f]].status = "running"
            /\ \A e \in Docz : e # docOf[f] => rep'[e] = rep[e]
  <2> DEFINE new == RunningRow(rep[docOf[f]], f)
  <2>1. new \in Row
    BY <1>1, FillRowTypes
  <2>2. new.answers = f /\ ~new.old /\ new.status = "running"
    BY <1>1 DEF RunningRow, Row
  <2> HIDE DEF new
  <2>3. QED
    BY <1>0, <1>1, <1>2, <2>1, <2>2, OneRow DEF new
<1>3. TypeOK'
  BY <1>0, <1>1, <1>2 DEF MarkRunning, Takes, Answer, TypeOK
<1>4. AtWork'
  BY <1>0, <1>1, <1>2 DEF MarkRunning, Takes, Answer, TypeOK, AtWork
<1>5. RowOfFill'
  BY <1>0, <1>1, <1>2 DEF MarkRunning, Takes, Answer, TypeOK, RowOfFill, AtWork
<1>6. OverlapKnown'
  BY <1>0, <1>1, <1>2 DEF MarkRunning, Takes, Answer, TypeOK, OverlapKnown, AtWork
<1>7. OwnAnswers'
  BY <1>0, <1>1, <1>2 DEF MarkRunning, Takes, Answer, TypeOK, OwnAnswers, OverlapKnown, RowOfFill, AtWork
<1>8. StoredFirst'
  BY <1>0, <1>1, <1>2 DEF MarkRunning, Takes, Answer, TypeOK, StoredFirst
<1>9. ResultFitsAnswers'
  BY <1>0, <1>1, <1>2 DEF MarkRunning, Takes, Answer, TypeOK, ResultFitsAnswers, OwnAnswers, AtWork
<1>10. QED
  BY <1>3, <1>4, <1>5, <1>6, <1>7, <1>8, <1>9 DEF ReportsInv

\* The result stored is that of the answers, when no other fill came in between.
LEMMA MarkCompletedInv == ASSUME ReportsInv, NEW f \in Fill, MarkCompleted(f) PROVE ReportsInv'
<1> USE ReportsAssumption DEF Filling, Marked, Live, Fault, NoFault
<1>0. /\ TypeOK /\ AtWork /\ RowOfFill /\ OverlapKnown /\ OwnAnswers /\ StoredFirst
      /\ ResultFitsAnswers
  BY DEF ReportsInv
<1>1. docOf[f] \in Docz /\ rep[docOf[f]] \in Row
  BY <1>0 DEF MarkCompleted, AtWork, TypeOK
<1>2. ASSUME Store(f)
     PROVE  /\ rep' \in [Docz -> Row]
            /\ rep'[docOf[f]].answers = rep[docOf[f]].answers
            /\ rep'[docOf[f]].result = f /\ ~rep'[docOf[f]].old
            /\ \A e \in Docz : e # docOf[f] => rep'[e] = rep[e]
  <2> DEFINE new == [rep[docOf[f]] EXCEPT !.status = "completed", !.result = f, !.old = FALSE]
  <2>1. rep' = [rep EXCEPT ![docOf[f]] = new]
    BY <1>0, <1>1, <1>2 DEF Store, TypeOK, Row
  <2>2. new \in Row
    BY <1>1, FillRowTypes
  <2>3. new.answers = rep[docOf[f]].answers /\ new.result = f /\ ~new.old
    BY <1>1 DEF Row
  <2> HIDE DEF new
  <2>4. QED
    BY <1>0, <1>1, <2>1, <2>2, <2>3, OneRow
<1>3. ASSUME Store(f) PROVE stored' = stored \cup {f}
  BY <1>3 DEF Store
<1>4. TypeOK'
  BY <1>0, <1>1, <1>2, <1>3 DEF MarkCompleted, StoreFailed, TypeOK
<1>5. AtWork'
  BY <1>0, <1>1, <1>2, <1>3 DEF MarkCompleted, StoreFailed, TypeOK, AtWork
<1>6. RowOfFill'
  BY <1>0, <1>1, <1>2, <1>3 DEF MarkCompleted, StoreFailed, TypeOK, RowOfFill, AtWork
<1>7. OverlapKnown'
  BY <1>0, <1>1, <1>2, <1>3 DEF MarkCompleted, StoreFailed, TypeOK, OverlapKnown, AtWork
<1>8. OwnAnswers'
  BY <1>0, <1>1, <1>2, <1>3 DEF MarkCompleted, StoreFailed, TypeOK, OwnAnswers, OverlapKnown, RowOfFill, AtWork
<1>9. StoredFirst'
  BY <1>0, <1>1, <1>2, <1>3 DEF MarkCompleted, StoreFailed, TypeOK, StoredFirst
<1>10. ResultFitsAnswers'
  BY <1>0, <1>1, <1>2, <1>3 DEF MarkCompleted, StoreFailed, TypeOK, ResultFitsAnswers, OwnAnswers, AtWork
<1>11. QED
  BY <1>4, <1>5, <1>6, <1>7, <1>8, <1>9, <1>10 DEF ReportsInv

\* A failed fill says so, or leaves the row 'running'.
LEMMA MarkErrorInv == ASSUME ReportsInv, NEW f \in Fill, MarkError(f) PROVE ReportsInv'
<1> USE ReportsAssumption DEF Filling, Marked, Live, Fault, NoFault
<1>0. /\ TypeOK /\ AtWork /\ RowOfFill /\ OverlapKnown /\ OwnAnswers /\ StoredFirst
      /\ ResultFitsAnswers
  BY DEF ReportsInv
<1>1. docOf[f] \in Docz /\ rep[docOf[f]] \in Row
  BY <1>0 DEF MarkError, AtWork, TypeOK
<1>2. ASSUME rep' # rep
     PROVE  /\ rep' \in [Docz -> Row]
            /\ rep'[docOf[f]].answers = rep[docOf[f]].answers
            /\ rep'[docOf[f]].status = "error" /\ ~rep'[docOf[f]].old
            /\ \A e \in Docz : e # docOf[f] => rep'[e] = rep[e]
  <2> DEFINE new == [rep[docOf[f]] EXCEPT !.status = "error", !.old = FALSE]
  <2>1. rep' = [rep EXCEPT ![docOf[f]] = new]
    BY <1>0, <1>1, <1>2 DEF MarkError, Fails, TypeOK, Row
  <2>2. new \in Row
    BY <1>1, RowTypes
  <2>3. new.answers = rep[docOf[f]].answers /\ new.status = "error" /\ ~new.old
    BY <1>1 DEF Row
  <2> HIDE DEF new
  <2>4. QED
    BY <1>0, <1>1, <2>1, <2>2, <2>3, OneRow
<1>3. TypeOK'
  BY <1>0, <1>1, <1>2 DEF MarkError, Fails, Answer, TypeOK
<1>4. AtWork'
  BY <1>0, <1>1, <1>2 DEF MarkError, Fails, Answer, TypeOK, AtWork
<1>5. RowOfFill'
  BY <1>0, <1>1, <1>2 DEF MarkError, Fails, Answer, TypeOK, RowOfFill, AtWork
<1>6. OverlapKnown'
  BY <1>0, <1>1, <1>2 DEF MarkError, Fails, Answer, TypeOK, OverlapKnown, AtWork
<1>7. OwnAnswers'
  BY <1>0, <1>1, <1>2 DEF MarkError, Fails, Answer, TypeOK, OwnAnswers, OverlapKnown, RowOfFill, AtWork
<1>8. StoredFirst'
  BY <1>0, <1>1, <1>2 DEF MarkError, Fails, Answer, TypeOK, StoredFirst
<1>9. ResultFitsAnswers'
  BY <1>0, <1>1, <1>2 DEF MarkError, Fails, Answer, TypeOK, ResultFitsAnswers, OwnAnswers, AtWork
<1>10. QED
  BY <1>3, <1>4, <1>5, <1>6, <1>7, <1>8, <1>9 DEF ReportsInv

\* Only a row no fill works on grows old.
LEMMA AgesInv == ASSUME ReportsInv, NEW d \in Docz, Ages(d) PROVE ReportsInv'
<1> USE ReportsAssumption DEF Filling, Marked, Live, Fault, NoFault
<1>0. /\ TypeOK /\ AtWork /\ RowOfFill /\ OverlapKnown /\ OwnAnswers /\ StoredFirst
      /\ ResultFitsAnswers
  BY DEF ReportsInv
<1>1. /\ rep' \in [Docz -> Row] /\ rep'[d].status = rep[d].status
      /\ \A e \in Docz : e # d => rep'[e] = rep[e]
  <2> DEFINE new == [rep[d] EXCEPT !.old = TRUE]
  <2>1. rep' = [rep EXCEPT ![d] = new] /\ rep[d] \in Row
    BY <1>0 DEF Ages, TypeOK, Row
  <2>2. new \in Row
    BY <2>1 DEF Row
  <2>3. new.status = rep[d].status
    BY <2>1 DEF Row
  <2> HIDE DEF new
  <2>4. QED
    BY <1>0, <2>1, <2>2, <2>3, OneRow
<1>2. TypeOK'
  BY <1>0, <1>1 DEF Ages, TypeOK
<1>3. AtWork'
  BY <1>0, <1>1 DEF Ages, TypeOK, AtWork
<1>4. RowOfFill'
  BY <1>0, <1>1 DEF Ages, TypeOK, RowOfFill, AtWork
<1>5. OverlapKnown'
  BY <1>0, <1>1 DEF Ages, TypeOK, OverlapKnown, AtWork
<1>6. OwnAnswers'
  BY <1>0, <1>1 DEF Ages, TypeOK, OwnAnswers, OverlapKnown, RowOfFill, AtWork
<1>7. StoredFirst'
  BY <1>0, <1>1 DEF Ages, TypeOK, StoredFirst
<1>8. ResultFitsAnswers'
  BY <1>0, <1>1 DEF Ages, TypeOK, ResultFitsAnswers, OwnAnswers, AtWork
<1>9. QED
  BY <1>2, <1>3, <1>4, <1>5, <1>6, <1>7, <1>8 DEF ReportsInv

\* The recovery touches old rows only, and no fill works on an old row.
LEMMA RecoverInv == ASSUME ReportsInv, RecoverStaleRunning PROVE ReportsInv'
<1> USE ReportsAssumption DEF Filling, Marked, Live, Fault, NoFault
<1>0. /\ TypeOK /\ AtWork /\ RowOfFill /\ OverlapKnown /\ OwnAnswers /\ StoredFirst
      /\ ResultFitsAnswers
  BY DEF ReportsInv
<1>1. rep' = rep \/ rep' = [d \in Docz |-> Recovered(rep[d])]
  BY <1>0 DEF RecoverStaleRunning, Swept, TypeOK
<1>2. \A new \in Row : /\ Recovered(new) \in Row
                    /\ \/ Recovered(new) = new
                       \/ new.old /\ Recovered(new).status = "error"
  BY RowTypes DEF Recovered, Row
<1>3. /\ rep' \in [Docz -> Row]
      /\ \A d \in Docz :
           rep'[d] = rep[d] \/ (rep[d].old /\ rep'[d].status = "error")
  BY <1>0, <1>1, <1>2 DEF TypeOK
<1>4. /\ UNCHANGED <<pc, docOf, told, stored, overlap, up, restarts>>
      /\ recovered' \in BOOLEAN /\ faults' \in 0..MaxFaults
  BY <1>0 DEF RecoverStaleRunning, Swept, TypeOK
<1>5. TypeOK'
  BY <1>0, <1>1, <1>2, <1>3, <1>4 DEF TypeOK
<1>6. AtWork'
  BY <1>0, <1>1, <1>2, <1>3, <1>4 DEF TypeOK, AtWork
<1>7. RowOfFill'
  BY <1>0, <1>1, <1>2, <1>3, <1>4 DEF TypeOK, RowOfFill, AtWork
<1>8. OverlapKnown'
  BY <1>0, <1>1, <1>2, <1>3, <1>4 DEF TypeOK, OverlapKnown, AtWork
<1>9. OwnAnswers'
  BY <1>0, <1>1, <1>2, <1>3, <1>4 DEF TypeOK, OwnAnswers, OverlapKnown, RowOfFill, AtWork
<1>10. StoredFirst'
  BY <1>0, <1>1, <1>2, <1>3, <1>4 DEF TypeOK, StoredFirst
<1>11. ResultFitsAnswers'
  BY <1>0, <1>1, <1>2, <1>3, <1>4 DEF TypeOK, ResultFitsAnswers, OwnAnswers, AtWork
<1>12. QED
  BY <1>5, <1>6, <1>7, <1>8, <1>9, <1>10, <1>11 DEF ReportsInv

\* Every step keeps the inductive invariant.
LEMMA InvStep == ReportsInv /\ [Next]_vars => ReportsInv'
<1> SUFFICES ASSUME ReportsInv, [Next]_vars PROVE ReportsInv'
  OBVIOUS
<1> USE ReportsAssumption DEF ReportsInv, TypeOK, AtWork, RowOfFill, OverlapKnown, OwnAnswers,
        StoredFirst, ResultFitsAnswers, Filling, Marked, Live, Fault, NoFault
<1>1. ASSUME NEW d \in Docz, CreateDocz(d) PROVE ReportsInv'
  BY <1>1 DEF CreateDocz, Row
<1>2. ASSUME NEW f \in Fill, NEW d \in Docz, Submit(f, d) PROVE ReportsInv'
  BY <1>2 DEF Submit
<1>3. ASSUME NEW f \in Fill, GetReport(f) PROVE ReportsInv'
  BY <1>3 DEF GetReport, Answer
<1>4. ASSUME NEW f \in Fill, Searched(f) PROVE ReportsInv'
  BY <1>4 DEF Searched
<1>5. ASSUME NEW f \in Fill, Replies(f) PROVE ReportsInv'
  BY <1>5 DEF Replies, Answer
<1>6. CASE Crash
  <2>1. \A f \in Fill : pc'[f] \notin Live /\ (pc'[f] = pc[f] \/ pc'[f] = "dead")
    BY <1>6 DEF Crash
  <2>2. /\ pc' = [f \in Fill |-> IF pc[f] \in Live THEN "dead" ELSE pc[f]]
        /\ restarts' \in 0..MaxRestarts
    BY <1>6 DEF Crash
  <2>3. TypeOK'
    <3>1. pc' \in [Fill -> Live \cup {"new", "done", "dead"}]
      BY <2>2
    <3>2. QED
      BY <1>6, <2>2, <3>1 DEF Crash
  <2>4. AtWork' /\ RowOfFill' /\ OverlapKnown' /\ OwnAnswers'
    BY <1>6, <2>1 DEF Crash
  <2>5. StoredFirst' /\ ResultFitsAnswers'
    BY <1>6, <2>1 DEF Crash
  <2>6. QED
    BY <2>3, <2>4, <2>5
<1>7. CASE Restart
  BY <1>7 DEF Restart
<1>8. CASE UNCHANGED vars
  BY <1>8 DEF vars
<1>9. QED
  BY <1>1, <1>2, <1>3, <1>4, <1>5, <1>6, <1>7, <1>8, MarkRunningInv,
     MarkCompletedInv, MarkErrorInv, AgesInv, RecoverInv DEF Next, Handler

\* ReportsInv holds for any fills, reports, failing calls and restarts.
THEOREM ReportsInvariant == Spec => []ReportsInv
BY InitInv, InvStep, PTL DEF Spec

\* A completed report holds the result of the answers it stores, unless fills of it
\* overlapped or one took the row although its markRunning failed (handleFillDocz).
THEOREM ResultOfAnswers == Spec => []ResultFitsAnswers
<1>1. ReportsInv => ResultFitsAnswers
  BY DEF ReportsInv
<1>2. QED
  BY <1>1, ReportsInvariant, PTL

\* No client hears "completed" of a result that is not stored (handleFillDocz).
THEOREM StoredWhenTold == Spec => []CompletedIsStored
<1>1. ReportsInv => CompletedIsStored
  BY DEF ReportsInv, StoredFirst, CompletedIsStored
<1>2. QED
  BY <1>1, ReportsInvariant, PTL

\* The recovery of a start spares the reports of fills at work (recoverStaleRunning).
THEOREM LivingSpared == Spec => RecoverySparesTheLiving
<1> DEFINE Step == recovered' /\ ~recovered
                     => \A f \in Fill : docOf[f] \in Docz /\ Filling(f, docOf[f])
                                          => rep'[docOf[f]] = rep[docOf[f]]
<1>1. ReportsInv /\ [Next]_vars => [Step]_vars
  <2> SUFFICES ASSUME ReportsInv, Next, recovered', ~recovered,
                      NEW f \in Fill, docOf[f] \in Docz, Filling(f, docOf[f])
               PROVE  rep'[docOf[f]] = rep[docOf[f]]
    OBVIOUS
  <2>1. RecoverStaleRunning
    BY DEF Next, Handler, CreateDocz, Ages, Submit, GetReport, MarkRunning, Searched,
           MarkCompleted, Replies, MarkError, Crash, Restart
  <2>2. ~rep[docOf[f]].old
    BY DEF ReportsInv, RowOfFill
  <2>3. QED
    BY <2>1, <2>2 DEF RecoverStaleRunning, Swept, Recovered, ReportsInv, TypeOK
<1>2. QED
  BY <1>1, ReportsInvariant, PTL DEF Spec, RecoverySparesTheLiving

-----------------------------------------------------------------------------
(* Priority. *)

LEMMA PriorityStart == PriorityInit => PriorityInv
<1> SUFFICES ASSUME PriorityInit PROVE PriorityInv
  OBVIOUS
<1>1. /\ stage \in [Request -> Searching \cup {"new", "done"}]
      /\ lease \in [Request -> {"none", "held", "over"}]
      /\ row \in [Request -> BOOLEAN]
  BY DEF PriorityInit
<1>2. job \in [Client -> Running \cup {"none", "toEmbed", "toRerank", "ok", "bad"}]
  BY DEF PriorityInit
<1>3. begun \in [Request -> 0..(MaxCalls + 1)] /\ sent \in 0..MaxCalls /\ troubles \in 0..MaxTroubles
  BY PriorityAssumption DEF PriorityInit
<1>4. \A x \in Client : job[x] \notin Running
  BY DEF PriorityInit, Running
<1>5. \A r \in Request : /\ lease[r] = "none" /\ ~row[r] /\ begun[r] = 0
                         /\ stage[r] = "new"
  BY DEF PriorityInit
<1>6. PriorityTypeOK
  <2>1. \A x, y \in Client : job[x] \in Running /\ job[y] \in Running => x = y
    BY <1>4
  <2>2. \A r \in Request : lease[r] = "held" => row[r]
    BY <1>5
  <2>3. QED
    BY <1>1, <1>2, <1>3, <2>1, <2>2 DEF PriorityInit, PriorityTypeOK
<1>7. QED
  BY <1>5, <1>6, PriorityAssumption DEF PriorityInit, PriorityInv, AtMostOneBatch

\* Every step keeps the inductive invariant.
LEMMA PriorityStep == PriorityInv /\ [PriorityNext]_priorityVars => PriorityInv'
<1> SUFFICES ASSUME PriorityInv, [PriorityNext]_priorityVars PROVE PriorityInv'
  OBVIOUS
<1> USE PriorityAssumption DEF PriorityInv, PriorityTypeOK, AtMostOneBatch, LookedClear, Client,
        Running, Searching, Trouble, NoTrouble
<1>1. ASSUME NEW r \in Request, Starts(r) PROVE PriorityInv'
  <2>1. lease[r] # "held" /\ begun[r] = 0
    BY <1>1 DEF Starts
  <2>2. /\ lease' \in [Request -> {"none", "held", "over"}] /\ row' \in [Request -> BOOLEAN]
        /\ \A q \in Request : q # r => lease'[q] = lease[q] /\ row'[q] = row[q]
        /\ lease'[r] = "held" => row'[r]
    BY <1>1, <2>1 DEF Starts
  <2>3. QED
    BY <1>1, <2>1, <2>2 DEF Starts
<1>2. ASSUME NEW r \in Request, Retrieved(r) PROVE PriorityInv'
  BY <1>2 DEF Retrieved
<1>3. ASSUME NEW r \in Request, Reranked(r) PROVE PriorityInv'
  BY <1>3 DEF Reranked
<1>4. ASSUME NEW r \in Request, Throws(r) PROVE PriorityInv'
  BY <1>4 DEF Throws
<1>5. ASSUME NEW r \in Request, Releases(r) PROVE PriorityInv'
  <2>1. /\ row' \in [Request -> BOOLEAN]
        /\ \A q \in Request : q # r => row'[q] = row[q]
    BY <1>5 DEF Releases, Clears
  <2>2. /\ lease' = [lease EXCEPT ![r] = "none"] /\ begun' = [begun EXCEPT ![r] = 0]
        /\ stage' = [stage EXCEPT ![r] = "done"] /\ troubles' \in 0..MaxTroubles
        /\ UNCHANGED <<job, hint, reranker, worker, sent>>
    BY <1>5 DEF Releases
  <2>3. QED
    BY <2>1, <2>2
<1>6. ASSUME NEW r \in Request, Lapses(r) PROVE PriorityInv'
  BY <1>6 DEF Lapses
<1>7. ASSUME NEW x \in Client, Enters(x) PROVE PriorityInv'
  BY <1>7 DEF Enters
<1>8. ASSUME NEW x \in Client, Embedded(x) PROVE PriorityInv'
  BY <1>8 DEF Embedded, Answered
<1>9. ASSUME NEW x \in Client, RerankLoads(x) PROVE PriorityInv'
  BY <1>9 DEF RerankLoads, Loads
<1>10. ASSUME NEW x \in Client, RerankChecks(x) PROVE PriorityInv'
  BY <1>10 DEF RerankChecks, Answered
<1>11. ASSUME NEW x \in Client, Scores(x) PROVE PriorityInv'
  BY <1>11 DEF Scores, Answered
<1>12. CASE HintServed
  BY <1>12 DEF HintServed, Loads
<1>13. CASE Loaded
  BY <1>13 DEF Loaded
<1>14. CASE Looks
  BY <1>14 DEF Looks, Active
<1>15. CASE ReadsState
  BY <1>15 DEF ReadsState
<1>16. CASE Unloads
  BY <1>16 DEF Unloads
<1>17. CASE BeginsBatch
  <2>1. \A r \in Request : begun[r] = 0 /\ begun'[r] \in {0, 1}
                           /\ (begun'[r] = 1 => lease[r] = "held")
    BY <1>17 DEF BeginsBatch, Sends
  <2>2. begun' \in [Request -> 0..(MaxCalls + 1)] /\ sent' \in 0..MaxCalls
    BY <1>17, <2>1 DEF BeginsBatch, Sends
  <2>3. QED
    BY <1>17, <2>1, <2>2 DEF BeginsBatch, Sends
<1>18. CASE NextCall
  <2>1. \A r \in Request : \/ begun'[r] = begun[r]
                           \/ lease[r] = "held" /\ begun'[r] = begun[r] + 1
    BY <1>18 DEF NextCall, Sends
  <2>2. worker = "batch" /\ worker' = "batch" /\ sent < MaxCalls /\ sent' = sent + 1
    BY <1>18 DEF NextCall, CallEnded
  <2>3. \A r \in Request : begun'[r] \in 0..(MaxCalls + 1) /\ begun'[r] <= sent'
    BY <2>1, <2>2
  <2>4. begun' \in [Request -> 0..(MaxCalls + 1)] /\ sent' \in 0..MaxCalls
    BY <1>18, <2>2, <2>3 DEF NextCall, Sends
  <2>5. QED
    BY <1>18, <2>1, <2>2, <2>3, <2>4 DEF NextCall, Sends
<1>19. CASE EndsBatch
  BY <1>19 DEF EndsBatch, CallEnded
<1>20. CASE ServiceDies
  BY <1>20 DEF ServiceDies
<1>21. CASE UNCHANGED priorityVars
  BY <1>21 DEF priorityVars
<1>22. QED
  BY <1>1, <1>2, <1>3, <1>4, <1>5, <1>6, <1>7, <1>8, <1>9, <1>10, <1>11, <1>12, <1>13,
     <1>14, <1>15, <1>16, <1>17, <1>18, <1>19, <1>20, <1>21 DEF PriorityNext, Search, Inference, Indexer

\* PriorityInv holds for any searches, faults and sizes of a batch.
THEOREM PriorityInvariant == PrioritySpec => []PriorityInv
BY PriorityStart, PriorityStep, PTL DEF PrioritySpec

\* Type correctness: one call runs at a time, a held lease has its row.
THEOREM PriorityTyping == PrioritySpec => []PriorityTypeOK
<1>1. PriorityInv => PriorityTypeOK
  BY DEF PriorityInv
<1>2. QED
  BY <1>1, PriorityInvariant, PTL

\* While the lease of a search lasts the worker sends the calls of at most one
\* batch, however many calls that is (waitForSearchPriority, withSearchLease,
\* embedFullActBatchSmart).
THEOREM PriorityKept == PrioritySpec => []AtMostOneBatch
<1>1. PriorityInv => AtMostOneBatch
  BY DEF PriorityInv
<1>2. QED
  BY <1>1, PriorityInvariant, PTL
=============================================================================
